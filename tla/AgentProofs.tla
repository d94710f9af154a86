---------------------------- MODULE AgentProofs -----------------------------
(***************************************************************************)
(* Enrollment and the agent, proved for any number of codes, flows,        *)
(* handlers, client processes and situations.                              *)
(*                                                                         *)
(* AgentInv follows a device from its insert to the code that records it   *)
(* or the rollback that deletes it.  What discovery reports follows from   *)
(* what its loop knows of the addresses it has met (Leads).                *)
(***************************************************************************)
EXTENDS Agent, FiniteSetTheorems, TLAPS

-----------------------------------------------------------------------------
(* Types *)

CodePcs == {"code_get", "code_create", "code_conflict", "code_consume", "code_reread", "rollback"}
OwingPcs == {"code_consume", "code_reread", "rollback"}
FlowPcs == {"flow_try", "flow_allowed", "flow_paced", "flow_late", "flow_ask", "flow_login", "flow_mint", "flow_delete"}
StartPcs == {"flow_start", "flow_create"}
VerifyPcs == {"checkin", "lookup", "fill", "nonce", "apply"}
RestPcs == {"idle", "reply", "dropped"}
Args == Codes \cup Flows \cup {None}
Statuses == {None, "200", "401", "409", "410", "500", "501", "502", "slow_down", "pending"}

Request == [op : {None, "code", "start", "poll", "report"}, pc : CodePcs \cup FlowPcs \cup StartPcs \cup VerifyPcs \cup RestPcs,
            arg : Args, dev : Nat, secret : Nat, row : Nat, gone : BOOLEAN, status : Statuses]

\* What a request is about, by the statement it is at.
Fits(r) ==
    /\ r \in Request
    /\ r.pc \in CodePcs => r.op = "code" /\ r.arg \in Codes
    /\ r.pc \in FlowPcs => r.op = "poll" /\ r.arg \in Flows
    /\ r.pc \in StartPcs => r.op = "start"
    /\ r.pc \in VerifyPcs => r.op = "report"
    /\ r.op = "start" /\ r.pc = "reply" /\ r.status = "200" => r.arg \in Flows

\* A request that owes a compensation owns the device it has created, which
\* its code names once the code is consumed.
Owes(r, ds, cs) ==
    /\ r.pc \in OwingPcs => r.dev \in 1..Len(ds) /\ ds[r.dev].from = r.arg
    /\ r.pc = "code_reread" => cs[r.arg].dev = r.dev

\* A client process; what it counts and how it ended do not matter here.
AgentPcs == {"idle", "load", "discover", "tally", "code", "caps", "start", "poll", "report", "wait", "sleep", "stat", "publish", "rest"}
Shape(tally, end) ==
    [pc : AgentPcs, cmd : {None, "code", "oidc", "run", "once"}, force : BOOLEAN, arg : Args, proc : Procs \cup {None},
     cred : Credentials, bad : Nat, gw : Nat, tally : {tally}, end : {end}]
Process(r) ==
    /\ r \in Shape(r.tally, r.end)
    /\ r.pc = "load" /\ r.cmd = "code" => r.arg \in Codes
    /\ r.pc = "code" => r.arg \in Codes
    /\ r.pc \in {"poll", "sleep"} => r.arg \in Flows

\* A process that waits has a request of its own, which is still there.
Waits ==
    \A a \in Agents : ag[a].pc = "wait" =>
        /\ ag[a].proc \in Procs
        /\ req[ag[a].proc].pc # "idle" /\ req[ag[a].proc].op # None /\ ~req[ag[a].proc].gone
        /\ req[ag[a].proc].op = "poll" => ag[a].arg \in Flows
        /\ \A b \in Agents : ag[b].pc = "wait" /\ ag[b].proc = ag[a].proc => a = b

Tables ==
    /\ codes \in [Codes -> Code] /\ devs \in Seq(Device)
    /\ \A c \in Codes : codes[c].st \in {"unminted", "unused"} => codes[c].dev = 0
Requests == req \in [Procs -> Request] /\ \A p \in Procs : Fits(req[p]) /\ Owes(req[p], devs, codes)
Clients == DOMAIN ag = Agents /\ (\A a \in Agents : Process(ag[a])) /\ file \in Credentials /\ Waits
AgentInv == scene \in DOMAIN Scenes /\ Tables /\ Requests /\ Clients /\ NoOrphanDevice

-----------------------------------------------------------------------------
(* What a step of the server may do *)

\* The tables only grow: a device keeps its code, a redeemed code its device.
Grown ==
    /\ Tables'
    /\ Len(devs) <= Len(devs') /\ \A d \in 1..Len(devs) : devs'[d].from = devs[d].from
    /\ \A c \in Codes : codes[c].dev # 0 => codes'[c].dev = codes[c].dev

\* s takes the place of r, for whoever waits for r.
Heir(r, s) == r.gone \/ (s.pc # "idle" /\ ~s.gone /\ s.op = r.op)

\* Nothing is wrong with d afterwards: its code names it, or a request owes it.
Answerable(d) ==
    devs'[d].from \in Codes /\ ~devs'[d].lost =>
        codes'[devs'[d].from].dev = d \/ \E q \in Procs : Owing(q)' /\ req'[q].dev = d

\* A row that is left is an old one, as lost as it was, or is answered for.
RowsKeptOrNew == \A d \in Rows' : (d \in Rows /\ (devs[d].lost => devs'[d].lost)) \/ Answerable(d)

LEMMA OwesKept ==
    ASSUME Tables, Grown, NEW r, Fits(r), Owes(r, devs, codes)
    PROVE  Owes(r, devs', codes')
<1>0. Len(devs) \in Nat /\ Len(devs') \in Nat
  BY DEF Tables, Grown
<1>1. r.pc \in OwingPcs => r.dev \in 1..Len(devs') /\ devs'[r.dev].from = r.arg
  BY <1>0 DEF Owes, Grown
<1>2. r.pc = "code_reread" => codes'[r.arg].dev = r.dev
  <2> SUFFICES ASSUME r.pc = "code_reread" PROVE codes'[r.arg].dev = r.dev
    OBVIOUS
  <2>1. r.arg \in Codes /\ r.dev \in 1..Len(devs) /\ codes[r.arg].dev = r.dev
    BY DEF Fits, CodePcs, Owes, OwingPcs
  <2>2. r.dev # 0
    BY <2>1
  <2> QED BY <2>1, <2>2 DEF Grown
<1> QED BY <1>1, <1>2 DEF Owes

LEMMA OneRequest ==
    ASSUME Tables, Requests, Grown, NEW p \in Procs, NEW r, req' = [req EXCEPT ![p] = r],
           Fits(r), Owes(r, devs', codes')
    PROVE  Requests'
<1>1. req \in [Procs -> Request] /\ r \in Request
  BY DEF Requests, Fits
<1>2. req' \in [Procs -> Request] /\ req'[p] = r /\ \A q \in Procs \ {p} : req'[q] = req[q]
  BY <1>1
<1>3. ASSUME NEW q \in Procs, q # p PROVE Fits(req'[q]) /\ Owes(req'[q], devs', codes')
  BY <1>2, <1>3, OwesKept DEF Requests
<1> QED BY <1>2, <1>3 DEF Requests

LEMMA StillWaits ==
    ASSUME Clients, req \in [Procs -> Request], UNCHANGED <<ag, file>>,
           NEW p \in Procs, NEW r, req' = [req EXCEPT ![p] = r], Heir(req[p], r)
    PROVE  Clients'
<1>1. req'[p] = r /\ \A q \in Procs \ {p} : req'[q] = req[q]
  OBVIOUS
<1>2. Waits'
  <2> SUFFICES ASSUME NEW a \in Agents, ag[a].pc = "wait"
               PROVE  /\ ag[a].proc \in Procs
                      /\ req'[ag[a].proc].pc # "idle" /\ req'[ag[a].proc].op # None /\ ~req'[ag[a].proc].gone
                      /\ req'[ag[a].proc].op = "poll" => ag[a].arg \in Flows
                      /\ \A b \in Agents : ag[b].pc = "wait" /\ ag[b].proc = ag[a].proc => a = b
    BY DEF Waits
  <2>1. /\ ag[a].proc \in Procs
        /\ req[ag[a].proc].pc # "idle" /\ req[ag[a].proc].op # None /\ ~req[ag[a].proc].gone
        /\ req[ag[a].proc].op = "poll" => ag[a].arg \in Flows
        /\ \A b \in Agents : ag[b].pc = "wait" /\ ag[b].proc = ag[a].proc => a = b
    BY DEF Clients, Waits
  <2>2. CASE ag[a].proc = p
    BY <2>1, <2>2, <1>1 DEF Heir
  <2>3. CASE ag[a].proc # p
    BY <2>1, <2>3, <1>1
  <2> QED BY <2>2, <2>3
<1> QED BY <1>2 DEF Clients

LEMMA NoOrphanKept ==
    ASSUME Tables, NoOrphanDevice, Grown, RowsKeptOrNew,
           \A p \in Procs : Owing(p) /\ req[p].dev \in Rows' => Answerable(req[p].dev)
    PROVE  NoOrphanDevice'
<1> SUFFICES ASSUME NEW d \in Rows', devs'[d].from \in Codes, ~devs'[d].lost
             PROVE  codes'[devs'[d].from].dev = d \/ \E p \in Procs : Owing(p)' /\ req'[p].dev = d
  BY DEF NoOrphanDevice
<1>1. CASE Answerable(d)
  BY <1>1 DEF Answerable
<1>2. CASE d \in Rows /\ (devs[d].lost => devs'[d].lost)
  <2>1. d \in Rows /\ d \in 1..Len(devs) /\ devs'[d].from = devs[d].from /\ ~devs[d].lost
    BY <1>2 DEF Rows, Grown
  <2>2. CASE codes[devs[d].from].dev = d
    <3>1. d # 0
      BY <2>1
    <3> QED BY <2>1, <2>2, <3>1 DEF Grown
  <2>3. ASSUME NEW p \in Procs, Owing(p), req[p].dev = d
        PROVE  codes'[devs'[d].from].dev = d \/ \E q \in Procs : Owing(q)' /\ req'[q].dev = d
    BY <2>3 DEF Answerable
  <2> QED BY <2>1, <2>2, <2>3 DEF NoOrphanDevice
<1> QED BY <1>1, <1>2 DEF RowsKeptOrNew

\* What becomes of one request, and of the rows.
LEMMA OneRequestKeeps ==
    ASSUME AgentInv, NEW p \in Procs, NEW r, req' = [req EXCEPT ![p] = r],
           Grown, RowsKeptOrNew, Fits(r), Owes(r, devs', codes'),
           Owing(p) /\ req[p].dev \in Rows' => Answerable(req[p].dev)
    PROVE  Tables' /\ Requests' /\ NoOrphanDevice'
<1>0. Tables /\ Requests /\ NoOrphanDevice /\ req \in [Procs -> Request]
  BY DEF AgentInv, Requests
<1>1. Requests'
  BY <1>0, OneRequest
<1>2. \A q \in Procs \ {p} : req'[q] = req[q]
  BY <1>0
<1>3. ASSUME NEW q \in Procs, Owing(q), req[q].dev \in Rows' PROVE Answerable(req[q].dev)
  <2>1. CASE q # p
    <3>1. Owing(q)' /\ req'[q].dev = req[q].dev
      BY <1>2, <1>3, <2>1 DEF Owing
    <3> QED BY <3>1 DEF Answerable
  <2> QED BY <1>3, <2>1
<1>4. NoOrphanDevice'
  BY <1>0, <1>3, NoOrphanKept
<1> QED BY <1>1, <1>4 DEF Grown

LEMMA OneRequestAlone ==
    ASSUME AgentInv, NEW p \in Procs, NEW r, req' = [req EXCEPT ![p] = r], UNCHANGED <<codes, devs>>,
           Fits(r), Owes(r, devs, codes),
           Owing(p) => \/ r.pc \in OwingPcs /\ r.dev = req[p].dev
                       \/ codes[devs[req[p].dev].from].dev = req[p].dev
    PROVE  Tables' /\ Requests' /\ NoOrphanDevice'
<1>0. Tables /\ req \in [Procs -> Request]
  BY DEF AgentInv, Requests
<1>1. Grown
  <2>1. Tables' /\ Len(devs) \in Nat
    BY <1>0 DEF Tables
  <2> QED BY <2>1 DEF Grown
<1>2. RowsKeptOrNew
  BY DEF RowsKeptOrNew, Rows
<1>3. req'[p] = r
  BY <1>0
<1>4. ASSUME Owing(p) PROVE Answerable(req[p].dev)
  <2>1. CASE r.pc \in OwingPcs /\ r.dev = req[p].dev
    <3>1. Owing(p)' /\ req'[p].dev = req[p].dev
      BY <1>3, <2>1 DEF Owing, OwingPcs
    <3> QED BY <3>1 DEF Answerable
  <2>2. CASE codes[devs[req[p].dev].from].dev = req[p].dev
    BY <2>2 DEF Answerable
  <2> QED BY <1>4, <2>1, <2>2
<1> QED BY <1>1, <1>2, <1>4, OneRequestKeeps

\* A step of the request p.
LEMMA OneStep ==
    ASSUME AgentInv, NEW p \in Procs, NEW r, req' = [req EXCEPT ![p] = r], UNCHANGED <<ag, file, scene>>,
           Grown, RowsKeptOrNew, Fits(r), Owes(r, devs', codes'), Heir(req[p], r),
           Owing(p) /\ req[p].dev \in Rows' => Answerable(req[p].dev)
    PROVE  AgentInv'
<1>1. Clients /\ req \in [Procs -> Request]
  BY DEF AgentInv, Requests
<1>2. Clients'
  BY <1>1, StillWaits
<1> QED BY <1>2, OneRequestKeeps DEF AgentInv

\* A step of the request p that leaves both tables alone.
LEMMA SameTables ==
    ASSUME AgentInv, NEW p \in Procs, NEW r, req' = [req EXCEPT ![p] = r],
           UNCHANGED <<codes, devs, ag, file, scene>>,
           Fits(r), Owes(r, devs, codes), Heir(req[p], r),
           Owing(p) => \/ r.pc \in OwingPcs /\ r.dev = req[p].dev
                       \/ codes[devs[req[p].dev].from].dev = req[p].dev
    PROVE  AgentInv'
<1>1. Clients /\ req \in [Procs -> Request]
  BY DEF AgentInv, Requests
<1>2. Clients'
  BY <1>1, StillWaits
<1> QED BY <1>2, OneRequestAlone DEF AgentInv

-----------------------------------------------------------------------------
(* The statements of a request *)

LEMMA NoReqFits == NoReq \in Request /\ Fits(NoReq) /\ \A ds, cs : Owes(NoReq, ds, cs)
<1>1. NoReq \in Request
  <2>1. /\ None \in {None, "code", "start", "poll", "report"} /\ None \in Args
        /\ "idle" \in CodePcs \cup FlowPcs \cup StartPcs \cup VerifyPcs \cup RestPcs
    BY DEF Args, RestPcs
  <2>2. None \in Statuses
    BY DEF Statuses
  <2> QED BY <2>1, <2>2 DEF NoReq, Request
<1>2. NoReq.pc = "idle"
  BY DEF NoReq
<1> QED BY <1>1, <1>2 DEF Fits, Owes, CodePcs, FlowPcs, StartPcs, VerifyPcs, OwingPcs

\* An answer: owed nothing, and there for whoever waits.
LEMMA AnswerFits ==
    ASSUME NEW r, Fits(r), NEW status \in Statuses, r.op = "start" /\ status = "200" => r.arg \in Flows
    PROVE  LET s == Answered(r, status) IN
           Fits(s) /\ Heir(r, s) /\ \A ds, cs : Owes(s, ds, cs)
<1> DEFINE s == [r EXCEPT !.pc = "reply", !.status = status]
<1>1. r \in Request
  BY DEF Fits
<1>2. /\ s \in Request /\ s.pc = "reply" /\ s.status = status /\ s.op = r.op /\ s.arg = r.arg /\ s.gone = r.gone
  BY <1>1 DEF Request, RestPcs
<1> HIDE DEF s
<1>3. Fits(s) /\ \A ds, cs : Owes(s, ds, cs)
  BY <1>2 DEF Fits, Owes, CodePcs, FlowPcs, StartPcs, VerifyPcs, OwingPcs
<1>4. ~r.gone => Heir(r, s)
  BY <1>2 DEF Heir
<1>5. CASE r.gone
  BY <1>5, NoReqFits DEF Answered, Heir
<1>6. CASE ~r.gone
  BY <1>3, <1>4, <1>6 DEF Answered, s
<1> QED BY <1>5, <1>6

\* On to the next statement of the same operation, with the status to give.
LEMMA MoveFits ==
    ASSUME NEW r, Fits(r), NEW pc, NEW status \in Statuses, r.pc # "idle",
           \/ r.pc \in CodePcs /\ pc \in CodePcs
           \/ r.pc \in FlowPcs /\ pc \in FlowPcs
           \/ r.pc \in StartPcs /\ pc \in StartPcs
           \/ r.pc \in VerifyPcs /\ pc \in VerifyPcs
    PROVE  LET s == [r EXCEPT !.pc = pc, !.status = status]
               t == [r EXCEPT !.pc = pc]
           IN /\ Fits(s) /\ Heir(r, s) /\ s.pc = pc /\ s.dev = r.dev /\ s.arg = r.arg
              /\ Fits(t) /\ Heir(r, t) /\ t.pc = pc /\ t.dev = r.dev /\ t.arg = r.arg
<1>0. r \in Request /\ pc \in CodePcs \cup FlowPcs \cup StartPcs \cup VerifyPcs
  BY DEF Fits
<1>1. ASSUME NEW s, s \in Request, s.pc = pc, s.op = r.op, s.arg = r.arg, s.gone = r.gone, s.dev = r.dev
      PROVE  Fits(s) /\ Heir(r, s) /\ s.pc = pc /\ s.dev = r.dev /\ s.arg = r.arg
  <2>1. Fits(s)
    BY <1>0, <1>1 DEF Fits, CodePcs, FlowPcs, StartPcs, VerifyPcs
  <2>2. pc # "idle"
    BY <1>0 DEF CodePcs, FlowPcs, StartPcs, VerifyPcs
  <2> QED BY <1>1, <2>1, <2>2 DEF Heir
<1> DEFINE s == [r EXCEPT !.pc = pc, !.status = status]
           t == [r EXCEPT !.pc = pc]
<1>2. s \in Request /\ s.pc = pc /\ s.op = r.op /\ s.arg = r.arg /\ s.gone = r.gone /\ s.dev = r.dev
  BY <1>0 DEF Request
<1>3. t \in Request /\ t.pc = pc /\ t.op = r.op /\ t.arg = r.arg /\ t.gone = r.gone /\ t.dev = r.dev
  BY <1>0 DEF Request
<1> HIDE DEF s, t
<1>4. Fits(s) /\ Heir(r, s) /\ s.pc = pc /\ s.dev = r.dev /\ s.arg = r.arg
  BY <1>1, <1>2
<1>5. Fits(t) /\ Heir(r, t) /\ t.pc = pc /\ t.dev = r.dev /\ t.arg = r.arg
  BY <1>1, <1>3
<1> QED BY <1>4, <1>5 DEF s, t

\* A request that owes nothing gives its answer.
LEMMA AnswerStep ==
    ASSUME AgentInv, NEW p \in Procs, NEW status \in Statuses, Answer(p, status),
           req[p].pc \notin OwingPcs \/ codes[devs[req[p].dev].from].dev = req[p].dev,
           req[p].op = "start" => status # "200", UNCHANGED <<codes, devs, ag, file, scene>>
    PROVE  AgentInv'
<1> DEFINE r == Answered(req[p], status)
<1>1. Fits(req[p])
  BY DEF AgentInv, Requests
<1>2. Fits(r) /\ Heir(req[p], r) /\ Owes(r, devs, codes)
  BY <1>1, AnswerFits
<1>3. req' = [req EXCEPT ![p] = r]
  BY DEF Answer
<1> HIDE DEF r
<1> QED BY <1>2, <1>3, SameTables DEF Owing, OwingPcs

\* A request goes on and neither incurs nor discharges a compensation.
LEMMA MoveStep ==
    ASSUME AgentInv, NEW p \in Procs, NEW pc, NEW status \in Statuses,
           \/ req' = [req EXCEPT ![p].pc = pc]
           \/ req' = [req EXCEPT ![p].pc = pc, ![p].status = status],
           req[p].pc # "idle",
           \/ req[p].pc \in CodePcs \ OwingPcs /\ pc \in CodePcs \ OwingPcs
           \/ req[p].pc \in FlowPcs /\ pc \in FlowPcs
           \/ req[p].pc \in StartPcs /\ pc \in StartPcs
           \/ req[p].pc \in VerifyPcs /\ pc \in VerifyPcs
           \/ req[p].pc \in OwingPcs /\ pc = "rollback",
           UNCHANGED <<codes, devs, ag, file, scene>>
    PROVE  AgentInv'
<1> DEFINE s == [req[p] EXCEPT !.pc = pc, !.status = status]
           t == [req[p] EXCEPT !.pc = pc]
<1>1. Fits(req[p]) /\ Owes(req[p], devs, codes) /\ req \in [Procs -> Request]
  BY DEF AgentInv, Requests
<1>2. /\ Fits(s) /\ Heir(req[p], s) /\ s.pc = pc /\ s.dev = req[p].dev /\ s.arg = req[p].arg
      /\ Fits(t) /\ Heir(req[p], t) /\ t.pc = pc /\ t.dev = req[p].dev /\ t.arg = req[p].arg
  <2>1. OwingPcs \subseteq CodePcs /\ "rollback" \in CodePcs
    BY DEF OwingPcs, CodePcs
  <2>2. \/ req[p].pc \in CodePcs /\ pc \in CodePcs
        \/ req[p].pc \in FlowPcs /\ pc \in FlowPcs
        \/ req[p].pc \in StartPcs /\ pc \in StartPcs
        \/ req[p].pc \in VerifyPcs /\ pc \in VerifyPcs
    BY <2>1
  <2> QED BY <1>1, <2>2, MoveFits
<1>3. req' = [req EXCEPT ![p] = s] \/ req' = [req EXCEPT ![p] = t]
  BY <1>1
<1> HIDE DEF s, t
<1>4. ASSUME NEW r, req' = [req EXCEPT ![p] = r], Fits(r), Heir(req[p], r), r.pc = pc, r.dev = req[p].dev, r.arg = req[p].arg
      PROVE  AgentInv'
  <2>1. pc \in OwingPcs => req[p].pc \in OwingPcs /\ pc = "rollback"
    BY DEF OwingPcs, CodePcs, FlowPcs, StartPcs, VerifyPcs
  <2>2. Owes(r, devs, codes)
    BY <1>1, <1>4, <2>1 DEF Owes, OwingPcs
  <2>3. req[p].pc \in OwingPcs => r.pc \in OwingPcs
    BY <1>4 DEF OwingPcs, CodePcs, FlowPcs, StartPcs, VerifyPcs
  <2> QED BY <1>4, <2>2, <2>3, SameTables DEF Owing, OwingPcs
<1> QED BY <1>2, <1>3, <1>4

\* What a request's place says about it.
LEMMA Placed ==
    ASSUME AgentInv, NEW p \in Procs
    PROVE  /\ Fits(req[p]) /\ Owes(req[p], devs, codes) /\ req[p] \in Request /\ req \in [Procs -> Request]
           /\ req[p].status \in Statuses /\ req[p].arg \in Args /\ req[p].dev \in Nat
           /\ req[p].pc \in CodePcs => req[p].op = "code" /\ req[p].arg \in Codes
           /\ req[p].pc \in FlowPcs => req[p].op = "poll" /\ req[p].arg \in Flows
           /\ req[p].pc \in StartPcs => req[p].op = "start"
           /\ req[p].pc \in VerifyPcs => req[p].op = "report"
<1>1. Fits(req[p]) /\ Owes(req[p], devs, codes) /\ req \in [Procs -> Request]
  BY DEF AgentInv, Requests
<1>2. req[p].status \in Statuses /\ req[p].arg \in Args /\ req[p].dev \in Nat
  BY <1>1 DEF Request
<1> QED BY <1>1, <1>2 DEF Fits

\* A device the request has created is the one its code names once it is consumed.
LEMMA RereadNamed ==
    ASSUME AgentInv, NEW p \in Procs, At(p, "code_reread")
    PROVE  codes[devs[req[p].dev].from].dev = req[p].dev
BY Placed DEF At, Owes, OwingPcs

\* The comparison of a check-in goes on or answers, and owes nothing.
LEMMA CompareFits ==
    ASSUME AgentInv, NEW p \in Procs, req[p].pc \in VerifyPcs, NEW secret, Compare(p, secret)
    PROVE  \E r : req' = [req EXCEPT ![p] = r] /\ Fits(r) /\ Heir(req[p], r) /\ \A ds, cs : Owes(r, ds, cs)
<1>1. Fits(req[p]) /\ req[p].op = "report" /\ req[p].pc # "idle" /\ "nonce" \in VerifyPcs /\ "401" \in Statuses
  BY Placed DEF VerifyPcs, Statuses
<1>2. CASE Answer(p, "401")
  <2> DEFINE r == Answered(req[p], "401")
  <2>1. Fits(r) /\ Heir(req[p], r) /\ \A ds, cs : Owes(r, ds, cs)
    BY <1>1, AnswerFits
  <2>2. req' = [req EXCEPT ![p] = r]
    BY <1>2 DEF Answer
  <2> HIDE DEF r
  <2> QED BY <2>1, <2>2
<1>3. CASE Goto(p, "nonce")
  <2> DEFINE t == [req[p] EXCEPT !.pc = "nonce"]
  <2>1. Fits(t) /\ Heir(req[p], t) /\ t.pc = "nonce"
    <3>1. t \in Request /\ t.pc = "nonce" /\ t.op = req[p].op /\ t.gone = req[p].gone
      BY <1>1 DEF Fits, Request, VerifyPcs
    <3> HIDE DEF t
    <3> QED BY <1>1, <3>1 DEF Fits, Heir, CodePcs, FlowPcs, StartPcs, VerifyPcs
  <2>2. req' = [req EXCEPT ![p] = t]
    BY <1>3, Placed DEF Goto
  <2> HIDE DEF t
  <2>3. \A ds, cs : Owes(t, ds, cs)
    BY <2>1 DEF Owes, OwingPcs
  <2> QED BY <2>1, <2>2, <2>3
<1> QED BY <1>2, <1>3 DEF Compare

\* Statements that leave both tables alone.
LEMMA ReadingSteps ==
    ASSUME AgentInv, NEW p \in Procs, UNCHANGED <<ag, file, scene>>,
           \/ CodeGet(p) \/ CodeConflict(p) \/ CodeReread(p) \/ FlowStart(p) \/ TryPoll(p) \/ FlowReread(p)
           \/ DevicePoll(p) \/ FlowLogin(p) \/ FlowDelete(p) \/ Checkin(p) \/ Lookup(p) \/ Insert(p) \/ Apply(p)
    PROVE  AgentInv'
<1> USE DEF At, server
<1>1. CASE CodeGet(p)
  <2>1. CASE Answer(p, "401")
    BY <1>1, <2>1, AnswerStep DEF CodeGet, OwingPcs, Statuses
  <2>2. CASE Goto(p, "code_create")
    <3>1. req' = [req EXCEPT ![p].pc = "code_create"] /\ req[p].pc = "code_get" /\ UNCHANGED <<codes, devs>>
      BY <1>1, <2>2 DEF CodeGet, Goto
    <3>2. {"code_get", "code_create"} \subseteq CodePcs \ OwingPcs /\ "200" \in Statuses
      BY DEF CodePcs, OwingPcs, Statuses
    <3> QED BY <3>1, <3>2, MoveStep
  <2> QED BY <1>1, <2>1, <2>2 DEF CodeGet
<1>2. CASE CodeConflict(p)
  <2>1. PICK s \in {"401", "409"} : Answer(p, s)
    BY <1>2 DEF CodeConflict
  <2>2. s \in Statuses /\ s # "200" /\ UNCHANGED <<codes, devs>> /\ req[p].pc \notin OwingPcs
    BY <1>2 DEF CodeConflict, OwingPcs, Statuses
  <2> QED BY <2>1, <2>2, AnswerStep
<1>3. CASE CodeReread(p)
  <2>0. req[p].pc = "code_reread" /\ UNCHANGED <<codes, devs>> /\ "200" \in Statuses /\ "401" \in Statuses
    BY <1>3 DEF CodeReread, Statuses
  <2>1. CASE Answer(p, "200")
    <3>1. req[p].op = "code"
      BY <2>0, Placed DEF CodePcs
    <3> QED BY <2>0, <2>1, <3>1, RereadNamed, AnswerStep
  <2>2. CASE ToRollback(p)
    <3>1. req' = [req EXCEPT ![p].pc = "rollback", ![p].status = "401"]
      BY <2>2 DEF ToRollback
    <3>2. req[p].pc \in OwingPcs /\ req[p].pc # "idle"
      BY <2>0 DEF OwingPcs
    <3> QED BY <2>0, <3>1, <3>2, MoveStep
  <2> QED BY <1>3, <2>1, <2>2 DEF CodeReread
<1>4. CASE FlowStart(p)
  <2>0. req[p].pc = "flow_start" /\ UNCHANGED <<codes, devs>> /\ "501" \in Statuses
    BY <1>4 DEF FlowStart, Statuses
  <2>1. CASE Answer(p, "501")
    <3>1. req[p].pc \notin OwingPcs
      BY <2>0 DEF OwingPcs
    <3> QED BY <2>0, <2>1, <3>1, AnswerStep
  <2>2. CASE Goto(p, "flow_create")
    <3>1. req' = [req EXCEPT ![p].pc = "flow_create"]
      BY <2>2 DEF Goto
    <3>2. {"flow_start", "flow_create"} \subseteq StartPcs
      BY DEF StartPcs
    <3> QED BY <2>0, <3>1, <3>2, MoveStep
  <2> QED BY <1>4, <2>1, <2>2 DEF FlowStart
<1>5. CASE TryPoll(p)
  <2>1. PICK pc \in {"flow_allowed", "flow_paced", "flow_late"} : Goto(p, pc)
    BY <1>5 DEF TryPoll
  <2>2. /\ req' = [req EXCEPT ![p].pc = pc] /\ req[p].pc = "flow_try" /\ UNCHANGED <<codes, devs>>
        /\ req[p].pc \in FlowPcs /\ pc \in FlowPcs /\ "200" \in Statuses
    BY <1>5, <2>1 DEF TryPoll, Goto, FlowPcs, Statuses
  <2> QED BY <2>2, MoveStep
<1>6. CASE FlowReread(p)
  <2>0. req[p].pc \in {"flow_allowed", "flow_paced", "flow_late"} /\ UNCHANGED <<codes, devs>> /\ "200" \in Statuses
    BY <1>6 DEF FlowReread, Statuses
  <2>1. ASSUME NEW s \in {"410", "slow_down"}, Answer(p, s) PROVE AgentInv'
    <3>1. s \in Statuses /\ s # "200" /\ req[p].pc \notin OwingPcs
      BY <2>0 DEF Statuses, OwingPcs
    <3> QED BY <2>0, <2>1, <3>1, AnswerStep
  <2>2. CASE Goto(p, "flow_ask")
    <3>1. req' = [req EXCEPT ![p].pc = "flow_ask"] /\ req[p].pc \in FlowPcs /\ "flow_ask" \in FlowPcs /\ req[p].pc # "idle"
      BY <2>0, <2>2 DEF Goto, FlowPcs
    <3> QED BY <2>0, <3>1, MoveStep
  <2> QED BY <1>6, <2>1, <2>2 DEF FlowReread
<1>7. CASE DevicePoll(p)
  <2>0. /\ req[p].pc = "flow_ask" /\ UNCHANGED <<codes, devs>> /\ "200" \in Statuses /\ "410" \in Statuses
        /\ {"flow_ask", "flow_delete", "flow_login"} \subseteq FlowPcs
    BY <1>7 DEF DevicePoll, Statuses, FlowPcs
  <2>1. ASSUME NEW s \in {"502", "pending", "slow_down"}, Answer(p, s) PROVE AgentInv'
    <3>1. s \in Statuses /\ s # "200" /\ req[p].pc \notin OwingPcs
      BY <2>0 DEF Statuses, OwingPcs
    <3> QED BY <2>0, <2>1, <3>1, AnswerStep
  <2>2. CASE req' = [req EXCEPT ![p].pc = "flow_delete", ![p].status = "410"]
    BY <2>0, <2>2, MoveStep
  <2>3. CASE Goto(p, "flow_login")
    <3>1. req' = [req EXCEPT ![p].pc = "flow_login"]
      BY <2>3 DEF Goto
    <3> QED BY <2>0, <3>1, MoveStep
  <2> QED BY <1>7, <2>1, <2>2, <2>3 DEF DevicePoll
<1>8. CASE FlowLogin(p)
  <2>0. /\ req[p].pc = "flow_login" /\ UNCHANGED <<codes, devs>> /\ "401" \in Statuses
        /\ {"flow_mint", "flow_delete", "flow_login"} \subseteq FlowPcs
    BY <1>8 DEF FlowLogin, Statuses, FlowPcs
  <2>1. CASE req' = [req EXCEPT ![p].pc = "flow_delete", ![p].status = "401"]
    BY <2>0, <2>1, MoveStep
  <2>2. CASE Goto(p, "flow_mint")
    <3>1. req' = [req EXCEPT ![p].pc = "flow_mint"]
      BY <2>2 DEF Goto
    <3> QED BY <2>0, <3>1, MoveStep
  <2> QED BY <1>8, <2>1, <2>2 DEF FlowLogin
<1>9. CASE FlowDelete(p)
  <2>1. /\ Answer(p, req[p].status) /\ UNCHANGED <<codes, devs>> /\ req[p].pc = "flow_delete"
        /\ req[p].pc \notin OwingPcs /\ req[p].pc \in FlowPcs
    BY <1>9 DEF FlowDelete, FlowPcs, OwingPcs
  <2>2. req[p].status \in Statuses /\ req[p].op = "poll"
    BY <2>1, Placed
  <2> QED BY <2>1, <2>2, AnswerStep
<1>10. CASE Checkin(p)
  <2>0. /\ req[p].pc = "checkin" /\ UNCHANGED <<codes, devs>> /\ req[p].pc \notin OwingPcs /\ req[p].pc \in VerifyPcs
        /\ "401" \in Statuses /\ "lookup" \in VerifyPcs
    BY <1>10 DEF Checkin, OwingPcs, VerifyPcs, Statuses
  <2>1. req[p].op = "report" /\ Fits(req[p]) /\ req[p] \in Request /\ req \in [Procs -> Request]
    BY <2>0, Placed
  <2>2. CASE Answer(p, "401")
    BY <2>0, <2>1, <2>2, AnswerStep
  <2>3. CASE req[p].dev \in 1..Len(devs) /\ req' = [req EXCEPT ![p].pc = "lookup", ![p].row = devs[req[p].dev].secret]
    <3> DEFINE s == devs[req[p].dev].secret
               r == [req[p] EXCEPT !.pc = "lookup", !.row = s]
    <3>0. devs[req[p].dev] \in Device
      BY <2>3 DEF AgentInv, Tables
    <3>1. s \in Nat
      BY <3>0 DEF Device
    <3>2. req' = [req EXCEPT ![p] = r]
      BY <2>1, <2>3
    <3> HIDE DEF s
    <3>3. r \in Request /\ r.pc = "lookup" /\ r.op = req[p].op /\ r.gone = req[p].gone
      BY <2>0, <2>1, <3>1 DEF Request
    <3> HIDE DEF r
    <3>4. Fits(r) /\ Owes(r, devs, codes)
      BY <2>1, <3>3 DEF Fits, Owes, CodePcs, FlowPcs, StartPcs, VerifyPcs, OwingPcs
    <3>5. Heir(req[p], r) /\ ~Owing(p)
      BY <2>0, <3>3 DEF Heir, Owing
    <3> QED BY <2>0, <3>2, <3>4, <3>5, SameTables
  <2> QED BY <1>10, <2>2, <2>3 DEF Checkin
<1>11. CASE Lookup(p)
  <2>0. /\ req[p].pc = "lookup" /\ UNCHANGED <<codes, devs>> /\ req[p].pc \in VerifyPcs /\ req[p].pc # "idle"
        /\ "fill" \in VerifyPcs /\ "401" \in Statuses
    BY <1>11 DEF Lookup, VerifyPcs, Statuses
  <2>1. CASE Goto(p, "fill")
    <3>1. req' = [req EXCEPT ![p].pc = "fill"]
      BY <2>1 DEF Goto
    <3> QED BY <2>0, <3>1, MoveStep
  <2>2. ASSUME NEW c, Compare(p, c) PROVE AgentInv'
    <3>1. PICK r : req' = [req EXCEPT ![p] = r] /\ Fits(r) /\ Heir(req[p], r) /\ \A ds, cs : Owes(r, ds, cs)
      BY <2>0, <2>2, CompareFits
    <3>2. ~Owing(p)
      BY <2>0 DEF Owing
    <3> QED BY <2>0, <3>1, <3>2, SameTables
  <2> QED BY <1>11, <2>1, <2>2 DEF Lookup
<1>12. CASE Insert(p)
  <2>0. /\ UNCHANGED <<codes, devs>> /\ req[p].pc \in VerifyPcs /\ req[p].pc # "idle" /\ "apply" \in VerifyPcs
        /\ "401" \in Statuses /\ req' = [req EXCEPT ![p].pc = "apply"]
    BY <1>12 DEF Insert, VerifyPcs, Statuses, Goto
  <2> QED BY <2>0, MoveStep
<1>13. CASE Apply(p)
  <2>1. PICK s \in {"200", "500"} : Answer(p, s)
    BY <1>13 DEF Apply
  <2>2. s \in Statuses /\ UNCHANGED <<codes, devs>> /\ req[p].pc \in VerifyPcs /\ req[p].pc \notin OwingPcs
    BY <1>13 DEF Apply, OwingPcs, VerifyPcs, Statuses
  <2>3. req[p].op = "report"
    BY <2>2, Placed
  <2> QED BY <2>1, <2>2, <2>3, AnswerStep
<1> QED BY <1>1, <1>2, <1>3, <1>4, <1>5, <1>6, <1>7, <1>8, <1>9, <1>10, <1>11, <1>12, <1>13

\* The new flow is the answer's argument.
LEMMA FlowCreateStep ==
    ASSUME AgentInv, NEW p \in Procs, UNCHANGED <<ag, file, scene>>, FlowCreate(p)
    PROVE  AgentInv'
<1>0. req[p].pc = "flow_create" /\ UNCHANGED <<codes, devs>> /\ "200" \in Statuses
  BY DEF FlowCreate, At, Statuses
<1>1. PICK f \in Flows : req' = [req EXCEPT ![p] = Answered([req[p] EXCEPT !.arg = f], "200")]
  <2>1. \E x \in Flows : flows[x].st = "unborn"
    BY DEF FlowCreate
  <2> DEFINE x == CHOOSE y \in Flows : flows[y].st = "unborn"
  <2>2. x \in Flows
    BY <2>1
  <2>3. req' = [req EXCEPT ![p] = Answered([req[p] EXCEPT !.arg = x], "200")]
    BY DEF FlowCreate
  <2> HIDE DEF x
  <2> QED BY <2>2, <2>3
<1> DEFINE r == [req[p] EXCEPT !.arg = f]
<1>2. Fits(req[p]) /\ req[p] \in Request /\ req[p].op = "start"
  BY <1>0, Placed DEF StartPcs
<1>3. r \in Request /\ r.pc = "flow_create" /\ r.op = "start" /\ r.arg = f /\ r.gone = req[p].gone
  BY <1>0, <1>2 DEF Request, Args
<1> HIDE DEF r
<1>4. Fits(r)
  BY <1>3 DEF Fits, CodePcs, FlowPcs, StartPcs, VerifyPcs
<1> DEFINE s == Answered(r, "200")
<1>5. Fits(s) /\ Heir(r, s) /\ Owes(s, devs, codes)
  BY <1>0, <1>3, <1>4, AnswerFits
<1>6. req' = [req EXCEPT ![p] = s]
  BY <1>1 DEF r
<1> HIDE DEF s
<1>7. Heir(req[p], s)
  BY <1>2, <1>3, <1>5 DEF Heir
<1>8. ~Owing(p)
  BY <1>0 DEF Owing
<1> QED BY <1>0, <1>5, <1>6, <1>7, <1>8, SameTables

\* A failed statement ends in an answer, or in the cleaning up that is due.
LEMMA FailedStep ==
    ASSUME AgentInv, NEW p \in Procs, Working(p), req[p].pc # "rollback", req' = [req EXCEPT ![p] = Failed(req[p])],
           UNCHANGED <<codes, devs, ag, file, scene>>
    PROVE  AgentInv'
<1>0. req[p] \in Request /\ req \in [Procs -> Request] /\ req[p].pc # "idle"
  BY Placed DEF Working
<1>1. CASE req[p].pc \in {"code_consume", "code_reread"}
  <2>1. Failed(req[p]) = [req[p] EXCEPT !.pc = "rollback", !.status = "500"]
    BY <1>1 DEF Failed
  <2>2. req' = [req EXCEPT ![p].pc = "rollback", ![p].status = "500"]
    BY <1>0, <2>1
  <2>3. req[p].pc \in OwingPcs /\ "500" \in Statuses
    BY <1>1 DEF OwingPcs, Statuses
  <2> QED BY <1>0, <2>2, <2>3, MoveStep
<1>2. CASE req[p].pc \in {"flow_login", "flow_mint"}
  <2>1. PICK s \in {"401", "500"} : Failed(req[p]) = [req[p] EXCEPT !.pc = "flow_delete", !.status = s]
    BY <1>2 DEF Failed, AfterMintFailed
  <2>2. req' = [req EXCEPT ![p].pc = "flow_delete", ![p].status = s]
    BY <1>0, <2>1
  <2>3. /\ req[p].pc \in FlowPcs /\ "flow_delete" \in FlowPcs /\ "401" \in Statuses /\ "500" \in Statuses
        /\ req[p].pc # "idle" /\ UNCHANGED <<codes, devs, ag, file, scene>>
    BY <1>2 DEF FlowPcs, Statuses
  <2>4. CASE s = "401"
    <3>1. req' = [req EXCEPT ![p].pc = "flow_delete", ![p].status = "401"]
      BY <2>2, <2>4
    <3> QED BY <2>3, <3>1, MoveStep
  <2>5. CASE s = "500"
    <3>1. req' = [req EXCEPT ![p].pc = "flow_delete", ![p].status = "500"]
      BY <2>2, <2>5
    <3> QED BY <2>3, <3>1, MoveStep
  <2> QED BY <2>4, <2>5
<1>3. CASE req[p].pc \notin {"code_consume", "code_reread", "flow_login", "flow_mint"}
  <2>1. req[p].pc \notin OwingPcs
    BY <1>3 DEF OwingPcs
  <2>2. CASE req[p].pc = "flow_delete"
    <3>1. Failed(req[p]) = Answered(req[p], req[p].status)
      BY <2>2 DEF Failed
    <3>2. req[p].status \in Statuses /\ req[p].op = "poll"
      BY <2>2, Placed DEF FlowPcs
    <3>3. Answer(p, req[p].status)
      BY <3>1 DEF Answer
    <3> QED BY <2>1, <3>2, <3>3, AnswerStep
  <2>3. CASE req[p].pc # "flow_delete"
    <3>1. PICK s \in {"409", "401", "502", "500"} : Failed(req[p]) = Answered(req[p], s)
      BY <1>3, <2>3 DEF Failed
    <3>2. Answer(p, s) /\ s \in Statuses /\ s # "200"
      BY <3>1 DEF Answer, Statuses
    <3> QED BY <2>1, <3>2, AnswerStep
  <2> QED BY <2>2, <2>3
<1> QED BY <1>1, <1>2, <1>3

\* A new row: the tables grow.
LEMMA CreatedGrown ==
    ASSUME AgentInv, NEW label \in Labels, NEW from \in Codes \cup Flows, devs' = Created(label, from), UNCHANGED codes
    PROVE  /\ Grown /\ Len(devs') = Len(devs) + 1 /\ Len(devs) \in Nat
           /\ \A d \in Rows' : d = Len(devs) + 1 \/ (d \in Rows /\ devs'[d] = devs[d])
           /\ devs'[Len(devs) + 1].from = from
<1> DEFINE new == [st |-> "row", label |-> label, secret |-> 1, dis |-> FALSE, cached |-> 0, evict |-> 0,
                   from |-> from, lost |-> FALSE]
<1>0. Tables /\ devs \in Seq(Device)
  BY DEF AgentInv, Tables
<1>1. new \in Device /\ new.from = from
  BY DEF Device
<1>2. devs' = Append(devs, new)
  BY DEF Created
<1> HIDE DEF new
<1>3. /\ devs' \in Seq(Device) /\ Len(devs') = Len(devs) + 1 /\ Len(devs) \in Nat /\ devs'[Len(devs) + 1] = new
      /\ \A d \in 1..Len(devs) : devs'[d] = devs[d]
  BY <1>0, <1>1, <1>2
<1>4. Grown
  <2>1. Tables'
    BY <1>0, <1>3 DEF Tables
  <2> QED BY <1>3, <2>1 DEF Grown
<1>5. \A d \in Rows' : d = Len(devs) + 1 \/ (d \in Rows /\ devs'[d] = devs[d])
  BY <1>3 DEF Rows
<1> QED BY <1>1, <1>3, <1>4, <1>5

\* The request that has created a device for a code owes it.
LEMMA CodeCreateStep ==
    ASSUME AgentInv, NEW p \in Procs, UNCHANGED <<ag, file, scene>>, CodeCreate(p)
    PROVE  AgentInv'
<1> DEFINE c == req[p].arg
           r == [req[p] EXCEPT !.pc = "code_consume", !.dev = Len(devs) + 1, !.secret = 1]
<1>0. /\ req[p].pc = "code_create" /\ UNCHANGED codes /\ "200" \in Statuses
      /\ {"code_create", "code_conflict"} \subseteq CodePcs \ OwingPcs
  BY DEF CodeCreate, At, CodePcs, OwingPcs, Statuses
<1>1. req[p] \in Request /\ req \in [Procs -> Request] /\ c \in Codes /\ req[p].op = "code"
  BY <1>0, Placed
<1>2. CASE Goto(p, "code_conflict") /\ UNCHANGED devs
  <2>1. req' = [req EXCEPT ![p].pc = "code_conflict"]
    BY <1>2 DEF Goto
  <2> QED BY <1>0, <1>2, <2>1, MoveStep
<1>3. CASE /\ devs' = Created(codes[c].label, c)
           /\ req' = [req EXCEPT ![p].pc = "code_consume", ![p].dev = Len(devs) + 1, ![p].secret = 1]
  <2>0. codes[c].label \in Labels
    BY <1>1 DEF AgentInv, Tables, Code
  <2>1. /\ Grown /\ Len(devs') = Len(devs) + 1 /\ Len(devs) \in Nat
        /\ \A d \in Rows' : d = Len(devs) + 1 \/ (d \in Rows /\ devs'[d] = devs[d])
        /\ devs'[Len(devs) + 1].from = c
    BY <1>0, <1>1, <1>3, <2>0, CreatedGrown
  <2>2. /\ r \in Request /\ r.pc = "code_consume" /\ r.dev = Len(devs) + 1 /\ r.op = "code" /\ r.arg = c
        /\ r.gone = req[p].gone
    <3>1. Len(devs) + 1 \in Nat /\ 1 \in Nat /\ "code_consume" \in CodePcs
      BY <2>1 DEF CodePcs
    <3> QED BY <1>1, <3>1 DEF Request
  <2>3. req' = [req EXCEPT ![p] = r]
    BY <1>1, <1>3
  <2> HIDE DEF r
  <2>4. Fits(r) /\ Heir(req[p], r)
    BY <1>1, <2>2 DEF Fits, Heir, CodePcs, FlowPcs, StartPcs, VerifyPcs
  <2>5. Owes(r, devs', codes')
    BY <2>1, <2>2 DEF Owes
  <2>6. req'[p] = r
    BY <1>1, <2>3
  <2>7. Answerable(Len(devs) + 1)
    <3>1. Owing(p)' /\ req'[p].dev = Len(devs) + 1
      BY <2>2, <2>6 DEF Owing
    <3> QED BY <3>1 DEF Answerable
  <2>8. RowsKeptOrNew
    BY <2>1, <2>7 DEF RowsKeptOrNew
  <2>9. ~Owing(p)
    BY <1>0 DEF Owing
  <2> QED BY <2>1, <2>3, <2>4, <2>5, <2>8, <2>9, OneStep
<1> QED BY <1>2, <1>3 DEF CodeCreate

\* A device of a flow owes nothing.
LEMMA FlowMintStep ==
    ASSUME AgentInv, NEW p \in Procs, UNCHANGED <<ag, file, scene>>, FlowMint(p)
    PROVE  AgentInv'
<1> DEFINE f == req[p].arg
           r == [req[p] EXCEPT !.pc = "flow_delete", !.status = "200", !.dev = Len(devs) + 1, !.secret = 1]
<1>0. /\ req[p].pc = "flow_mint" /\ UNCHANGED codes /\ {"200", "500"} \subseteq Statuses
      /\ {"flow_mint", "flow_delete"} \subseteq FlowPcs
  BY DEF FlowMint, At, FlowPcs, Statuses
<1>1. req[p] \in Request /\ req \in [Procs -> Request] /\ f \in Flows /\ req[p].op = "poll"
  BY <1>0, Placed
<1>2. CASE req' = [req EXCEPT ![p] = AfterMintFailed(req[p])] /\ UNCHANGED devs
  <2>1. req' = [req EXCEPT ![p].pc = "flow_delete", ![p].status = "500"]
    BY <1>1, <1>2 DEF AfterMintFailed
  <2> QED BY <1>0, <1>2, <2>1, MoveStep
<1>3. CASE /\ devs' = Created(DeviceLabel, f)
           /\ req' = [req EXCEPT ![p].pc = "flow_delete", ![p].status = "200", ![p].dev = Len(devs) + 1, ![p].secret = 1]
  <2>0. DeviceLabel \in Labels /\ f \notin Codes
    BY <1>1, SceneAssumption
  <2>1. /\ Grown /\ Len(devs') = Len(devs) + 1 /\ Len(devs) \in Nat
        /\ \A d \in Rows' : d = Len(devs) + 1 \/ (d \in Rows /\ devs'[d] = devs[d])
        /\ devs'[Len(devs) + 1].from = f
    BY <1>0, <1>1, <1>3, <2>0, CreatedGrown
  <2>2. /\ r \in Request /\ r.pc = "flow_delete" /\ r.op = "poll" /\ r.arg = f /\ r.gone = req[p].gone
    <3>1. Len(devs) + 1 \in Nat /\ 1 \in Nat
      BY <2>1
    <3> QED BY <1>0, <1>1, <3>1 DEF Request
  <2>3. req' = [req EXCEPT ![p] = r]
    BY <1>1, <1>3
  <2> HIDE DEF r
  <2>4. Fits(r) /\ Heir(req[p], r)
    BY <1>1, <2>2 DEF Fits, Heir, CodePcs, FlowPcs, StartPcs, VerifyPcs
  <2>5. Owes(r, devs', codes')
    BY <2>2 DEF Owes, OwingPcs
  <2>6. Answerable(Len(devs) + 1)
    BY <2>0, <2>1 DEF Answerable
  <2>7. RowsKeptOrNew
    BY <2>1, <2>6 DEF RowsKeptOrNew
  <2>8. ~Owing(p)
    BY <1>0 DEF Owing
  <2> QED BY <2>1, <2>3, <2>4, <2>5, <2>7, <2>8, OneStep
<1> QED BY <1>2, <1>3 DEF FlowMint

\* One row is changed, not the code it comes from.
LEMMA DevEdited ==
    ASSUME AgentInv, NEW d \in 1..Len(devs), NEW r \in Device, r.from = devs[d].from,
           devs' = [devs EXCEPT ![d] = r], UNCHANGED codes
    PROVE  /\ Grown /\ Len(devs') = Len(devs) /\ devs'[d] = r
           /\ \A x \in 1..Len(devs) : x # d => devs'[x] = devs[x]
<1>0. Tables /\ devs \in Seq(Device) /\ Len(devs) \in Nat
  BY DEF AgentInv, Tables
<1>1. devs' \in Seq(Device) /\ Len(devs') = Len(devs) /\ devs'[d] = r /\ \A x \in 1..Len(devs) : x # d => devs'[x] = devs[x]
  BY <1>0
<1>2. Tables'
  BY <1>0, <1>1 DEF Tables
<1> QED BY <1>0, <1>1, <1>2 DEF Grown

\* A step of nobody's request.
LEMMA TableStep ==
    ASSUME AgentInv, UNCHANGED <<req, ag, file, scene>>, Grown, RowsKeptOrNew
    PROVE  AgentInv'
<1>0. Tables /\ Requests /\ Clients /\ NoOrphanDevice
  BY DEF AgentInv
<1>1. Requests'
  <2>1. \A p \in Procs : Fits(req[p]) /\ Owes(req[p], devs', codes')
    BY <1>0, OwesKept DEF Requests
  <2> QED BY <1>0, <2>1 DEF Requests
<1>2. Clients'
  BY <1>0 DEF Clients, Waits
<1>3. ASSUME NEW p \in Procs, Owing(p) PROVE Answerable(req[p].dev)
  <2>1. Owing(p)' /\ req'[p].dev = req[p].dev
    BY <1>3 DEF Owing
  <2> QED BY <2>1 DEF Answerable
<1>4. NoOrphanDevice'
  BY <1>0, <1>3, NoOrphanKept
<1> QED BY <1>1, <1>2, <1>4 DEF AgentInv, Grown

\* The code names the device from now on, or the device is to be deleted.
LEMMA CodeConsumeStep ==
    ASSUME AgentInv, NEW p \in Procs, UNCHANGED <<ag, file, scene>>, CodeConsume(p)
    PROVE  AgentInv'
<1> DEFINE c == req[p].arg
           d == req[p].dev
           r == [req[p] EXCEPT !.pc = "code_reread"]
<1>0. req[p].pc = "code_consume" /\ UNCHANGED devs /\ "401" \in Statuses
  BY DEF CodeConsume, At, Statuses
<1>1. /\ req[p] \in Request /\ req \in [Procs -> Request] /\ c \in Codes /\ req[p].op = "code"
      /\ d \in 1..Len(devs) /\ devs[d].from = c
  BY <1>0, Placed DEF CodePcs, OwingPcs, Owes
<1>2. CASE ToRollback(p) /\ UNCHANGED codes
  <2>1. req' = [req EXCEPT ![p].pc = "rollback", ![p].status = "401"]
    BY <1>2 DEF ToRollback
  <2>2. req[p].pc \in OwingPcs
    BY <1>0 DEF OwingPcs
  <2> QED BY <1>0, <1>2, <2>1, <2>2, MoveStep
<1>3. CASE CanConsume(c) /\ codes' = [codes EXCEPT ![c].st = "used", ![c].dev = d] /\ Goto(p, "code_reread")
  <2>0. Tables /\ Len(devs) \in Nat /\ d \in Nat
    BY <1>1 DEF AgentInv, Tables
  <2>1. codes \in [Codes -> Code] /\ codes[c] \in Code /\ codes[c].dev = 0
    BY <1>1, <1>3, <2>0 DEF Tables, CanConsume
  <2> DEFINE e == [codes[c] EXCEPT !.st = "used", !.dev = d]
  <2>2. e \in Code /\ e.st = "used" /\ e.dev = d
    BY <2>0, <2>1 DEF Code
  <2>3. codes' = [codes EXCEPT ![c] = e]
    BY <1>1, <1>3, <2>1
  <2> HIDE DEF e
  <2>4. codes' \in [Codes -> Code] /\ codes'[c] = e /\ \A x \in Codes : x # c => codes'[x] = codes[x]
    BY <1>1, <2>1, <2>2, <2>3
  <2>5. Tables'
    BY <1>0, <2>0, <2>2, <2>4 DEF Tables
  <2>6. Grown
    BY <1>0, <2>0, <2>1, <2>4, <2>5 DEF Grown
  <2>7. RowsKeptOrNew
    BY <1>0 DEF RowsKeptOrNew, Rows
  <2>8. r \in Request /\ r.pc = "code_reread" /\ r.dev = d /\ r.op = "code" /\ r.arg = c /\ r.gone = req[p].gone
    BY <1>1 DEF Request, CodePcs
  <2>9. req' = [req EXCEPT ![p] = r]
    BY <1>1, <1>3 DEF Goto
  <2> HIDE DEF r
  <2>10. Fits(r) /\ Heir(req[p], r)
    BY <1>1, <2>8 DEF Fits, Heir, CodePcs, FlowPcs, StartPcs, VerifyPcs
  <2>11. Owes(r, devs', codes')
    BY <1>0, <1>1, <2>2, <2>4, <2>8 DEF Owes
  <2>12. Answerable(d)
    BY <1>0, <1>1, <2>2, <2>4 DEF Answerable
  <2> QED BY <2>6, <2>7, <2>9, <2>10, <2>11, <2>12, OneStep
<1> QED BY <1>2, <1>3 DEF CodeConsume

\* The compensating delete, which may fail.
LEMMA RollbackStep ==
    ASSUME AgentInv, NEW p \in Procs, UNCHANGED <<ag, file, scene>>, Rollback(p) \/ RollbackFails(p)
    PROVE  AgentInv'
<1> DEFINE d == req[p].dev
           r == Answered(req[p], req[p].status)
           gone == [devs[d] EXCEPT !.st = "gone"]
           lost == [devs[d] EXCEPT !.lost = TRUE]
<1>0. req[p].pc = "rollback" /\ UNCHANGED codes /\ Answer(p, req[p].status)
  BY DEF Rollback, RollbackFails, At
<1>1. /\ Fits(req[p]) /\ req[p].status \in Statuses /\ req[p].op = "code"
      /\ d \in 1..Len(devs)
  BY <1>0, Placed DEF CodePcs, OwingPcs, Owes
<1>2. devs \in Seq(Device) /\ Len(devs) \in Nat /\ devs[d] \in Device
  BY <1>1 DEF AgentInv, Tables
<1>3. /\ gone \in Device /\ gone.st = "gone" /\ gone.from = devs[d].from
      /\ lost \in Device /\ lost.lost /\ lost.from = devs[d].from /\ lost.st = devs[d].st
  BY <1>2 DEF Device
<1>4. devs' = [devs EXCEPT ![d] = gone] \/ devs' = [devs EXCEPT ![d] = lost]
  BY <1>1, <1>2 DEF Rollback, RollbackFails, Deleted
<1> HIDE DEF gone, lost
<1>5. PICK e \in {gone, lost} : devs' = [devs EXCEPT ![d] = e]
  BY <1>4
<1>6. e \in Device /\ e.from = devs[d].from /\ (e.st = "gone" \/ e.lost)
  BY <1>3
<1>7. Grown /\ Len(devs') = Len(devs) /\ devs'[d] = e /\ \A x \in 1..Len(devs) : x # d => devs'[x] = devs[x]
  BY <1>0, <1>1, <1>5, <1>6, DevEdited
<1>8. d \in Rows' => Answerable(d)
  BY <1>6, <1>7 DEF Answerable, Rows
<1>9. RowsKeptOrNew
  <2> SUFFICES ASSUME NEW x \in Rows', x # d PROVE x \in Rows /\ devs'[x] = devs[x]
    BY <1>8 DEF RowsKeptOrNew
  <2> QED BY <1>7 DEF Rows
<1>10. Fits(r) /\ Heir(req[p], r) /\ Owes(r, devs', codes')
  BY <1>1, AnswerFits
<1>11. req' = [req EXCEPT ![p] = r]
  BY <1>0 DEF Answer
<1> HIDE DEF r
<1> QED BY <1>7, <1>8, <1>9, <1>10, <1>11, OneStep

\* The cache of a device is filled, or emptied.
LEMMA FillStep ==
    ASSUME AgentInv, NEW p \in Procs, UNCHANGED <<ag, file, scene>>, Fill(p)
    PROVE  AgentInv'
<1> DEFINE d == req[p].dev
           e == [devs[d] EXCEPT !.cached = req[p].row]
<1>0. /\ req[p].pc = "fill" /\ req[p].pc \in VerifyPcs /\ UNCHANGED codes /\ Compare(p, req[p].row)
      /\ devs' = [devs EXCEPT ![d].cached = req[p].row]
  BY DEF Fill, At, VerifyPcs
<1>1. PICK r : req' = [req EXCEPT ![p] = r] /\ Fits(r) /\ Heir(req[p], r) /\ \A ds, cs : Owes(r, ds, cs)
  BY <1>0, CompareFits
<1>2. ~Owing(p) /\ devs \in Seq(Device) /\ Len(devs) \in Nat /\ req[p].row \in Nat
  BY <1>0, Placed DEF Owing, AgentInv, Tables, Request
<1>3. CASE d \notin 1..Len(devs)
  <2>1. devs' = devs
    BY <1>0, <1>2, <1>3
  <2> QED BY <1>0, <1>1, <1>2, <2>1, SameTables
<1>4. CASE d \in 1..Len(devs)
  <2>1. devs[d] \in Device
    BY <1>2, <1>4
  <2>2. e \in Device /\ e.from = devs[d].from /\ e.lost = devs[d].lost /\ e.st = devs[d].st
    BY <1>2, <2>1 DEF Device
  <2>3. devs' = [devs EXCEPT ![d] = e]
    BY <1>0, <1>2, <1>4
  <2> HIDE DEF e
  <2>4. Grown /\ Len(devs') = Len(devs) /\ devs'[d] = e /\ \A x \in 1..Len(devs) : x # d => devs'[x] = devs[x]
    BY <1>0, <1>4, <2>2, <2>3, DevEdited
  <2>5. RowsKeptOrNew
    BY <2>2, <2>4 DEF RowsKeptOrNew, Rows
  <2> QED BY <1>1, <1>2, <2>4, <2>5, OneStep
<1> QED BY <1>3, <1>4

LEMMA InvalidateStep ==
    ASSUME AgentInv, NEW d \in 1..Len(devs), UNCHANGED <<ag, file, scene>>, Invalidate(d)
    PROVE  AgentInv'
<1> DEFINE e == [devs[d] EXCEPT !.cached = 0, !.evict = devs[d].evict - 1]
<1>1. devs \in Seq(Device) /\ devs[d] \in Device /\ devs[d].evict > 0 /\ UNCHANGED <<codes, req>>
  BY DEF AgentInv, Tables, Invalidate
<1>2. devs[d].evict - 1 \in Nat
  BY <1>1 DEF Device
<1>3. e \in Device /\ e.from = devs[d].from /\ e.lost = devs[d].lost /\ e.st = devs[d].st
  BY <1>1, <1>2 DEF Device
<1>4. devs' = [devs EXCEPT ![d] = e]
  BY <1>1 DEF Invalidate
<1> HIDE DEF e
<1>5. Grown /\ Len(devs') = Len(devs) /\ devs'[d] = e /\ \A x \in 1..Len(devs) : x # d => devs'[x] = devs[x]
  BY <1>1, <1>3, <1>4, DevEdited
<1>6. RowsKeptOrNew
  BY <1>3, <1>5 DEF RowsKeptOrNew, Rows
<1> QED BY <1>1, <1>5, <1>6, TableStep

\* The server stops: what its requests owed is lost, and whoever waits sees it.
LEMMA RestartStep ==
    ASSUME AgentInv, UNCHANGED <<ag, file, scene>>, Restart
    PROVE  AgentInv'
<1>0. Tables /\ Requests /\ Clients /\ NoOrphanDevice /\ req \in [Procs -> Request]
  BY DEF AgentInv, Requests
<1>1. devs \in Seq(Device) /\ Len(devs) \in Nat /\ UNCHANGED codes
  <2>1. devs \in Seq(Device)
    BY <1>0 DEF Tables
  <2>2. UNCHANGED codes
    BY DEF Restart
  <2> QED BY <2>1, <2>2
<1> DEFINE Ruined(d) == \E p \in Procs : Owing(p) /\ req[p].dev = d
           e(d) == [devs[d] EXCEPT !.lost = devs[d].lost \/ Ruined(d), !.cached = 0, !.evict = 0]
<1>2. ASSUME NEW d \in 1..Len(devs)
      PROVE  /\ e(d) \in Device /\ e(d).from = devs[d].from /\ e(d).st = devs[d].st /\ (devs[d].lost => e(d).lost)
             /\ Ruined(d) => e(d).lost
  <2>1. devs[d] \in Device
    BY <1>1
  <2>2. (devs[d].lost \/ Ruined(d)) \in BOOLEAN
    OBVIOUS
  <2> HIDE DEF Ruined
  <2> QED BY <2>1, <2>2 DEF Device
<1>3. devs' = [d \in 1..Len(devs) |-> e(d)]
  BY DEF Restart
<1> HIDE DEF e, Ruined
<1>4. devs' \in Seq(Device) /\ Len(devs') = Len(devs) /\ \A d \in 1..Len(devs) : devs'[d] = e(d)
  BY <1>1, <1>2, <1>3
<1>5. Grown
  <2>1. Tables'
    BY <1>0, <1>1, <1>4 DEF Tables
  <2> QED BY <1>1, <1>2, <1>4, <2>1 DEF Grown
<1>6. RowsKeptOrNew
  BY <1>2, <1>4 DEF RowsKeptOrNew, Rows
<1>7. ASSUME NEW p \in Procs
      PROVE  /\ req'[p] \in Request /\ Fits(req'[p]) /\ Owes(req'[p], devs', codes')
             /\ req[p].pc # "idle" /\ ~req[p].gone => req'[p].pc # "idle" /\ ~req'[p].gone /\ req'[p].op = req[p].op
  <2>1. req[p] \in Request /\ Fits(req[p]) /\ Owes(req[p], devs, codes)
    BY <1>0 DEF Requests
  <2>2. req'[p] = IF req[p].gone THEN NoReq ELSE IF Working(p) THEN [req[p] EXCEPT !.pc = "dropped"] ELSE req[p]
    BY DEF Restart
  <2>3. CASE req[p].gone
    BY <2>2, <2>3, NoReqFits
  <2>4. CASE ~req[p].gone /\ Working(p)
    <3>1. req'[p] = [req[p] EXCEPT !.pc = "dropped"]
      BY <2>2, <2>4
    <3>2. req'[p] \in Request /\ req'[p].pc = "dropped" /\ req'[p].gone = req[p].gone /\ req'[p].op = req[p].op
      BY <2>1, <3>1 DEF Request, RestPcs
    <3>3. Fits(req'[p]) /\ Owes(req'[p], devs', codes')
      BY <3>2 DEF Fits, Owes, CodePcs, FlowPcs, StartPcs, VerifyPcs, OwingPcs
    <3> QED BY <2>4, <3>2, <3>3
  <2>5. CASE ~req[p].gone /\ ~Working(p)
    <3>1. req'[p] = req[p]
      BY <2>2, <2>5
    <3> QED BY <1>0, <1>5, <2>1, <3>1, OwesKept
  <2> QED BY <2>3, <2>4, <2>5
<1>8. Requests'
  <2>1. DOMAIN req' = Procs /\ req' = [p \in Procs |-> req'[p]]
    BY DEF Restart
  <2>2. req' \in [Procs -> Request]
    BY <1>7, <2>1
  <2> QED BY <1>7, <2>2 DEF Requests
<1>9. Clients'
  <2>1. Waits'
    <3> SUFFICES ASSUME NEW a \in Agents, ag[a].pc = "wait"
                 PROVE  /\ ag[a].proc \in Procs
                        /\ req'[ag[a].proc].pc # "idle" /\ req'[ag[a].proc].op # None /\ ~req'[ag[a].proc].gone
                        /\ req'[ag[a].proc].op = "poll" => ag[a].arg \in Flows
                        /\ \A b \in Agents : ag[b].pc = "wait" /\ ag[b].proc = ag[a].proc => a = b
      BY DEF Waits
    <3> QED BY <1>0, <1>7 DEF Clients, Waits
  <2> QED BY <1>0, <2>1 DEF Clients
<1>10. ASSUME NEW p \in Procs, Owing(p), req[p].dev \in Rows' PROVE Answerable(req[p].dev)
  <2>1. Ruined(req[p].dev) /\ req[p].dev \in 1..Len(devs)
    BY <1>4, <1>10 DEF Ruined, Rows
  <2> QED BY <1>2, <1>4, <2>1 DEF Answerable
<1>11. NoOrphanDevice'
  BY <1>0, <1>5, <1>6, <1>10, NoOrphanKept
<1> QED BY <1>5, <1>8, <1>9, <1>11 DEF AgentInv, Grown

\* The provider, and time for the flows.
LEMMA OtherTables ==
    ASSUME AgentInv, UNCHANGED <<codes, devs, req, ag, file, scene>>
    PROVE  AgentInv'
<1>1. Grown
  <2>1. Tables' /\ Len(devs) \in Nat
    BY DEF AgentInv, Tables
  <2> QED BY <2>1 DEF Grown
<1>2. RowsKeptOrNew
  BY DEF RowsKeptOrNew, Rows
<1> QED BY <1>1, <1>2, TableStep

\* A code expires, is pruned or is minted; a redeemed one keeps its device.
LEMMA CodeEdited ==
    ASSUME AgentInv, NEW c \in Codes, NEW e \in Code, codes' = [codes EXCEPT ![c] = e],
           codes[c].dev # 0 => e.dev = codes[c].dev, e.st \in {"unminted", "unused"} => e.dev = 0,
           UNCHANGED <<devs, req, ag, file, scene>>
    PROVE  AgentInv'
<1>0. Tables /\ codes \in [Codes -> Code] /\ Len(devs) \in Nat
  BY DEF AgentInv, Tables
<1>1. codes' \in [Codes -> Code] /\ codes'[c] = e /\ \A x \in Codes : x # c => codes'[x] = codes[x]
  BY <1>0
<1>2. Tables'
  BY <1>0, <1>1 DEF Tables
<1>3. Grown
  BY <1>0, <1>1, <1>2 DEF Grown
<1>4. RowsKeptOrNew
  BY DEF RowsKeptOrNew, Rows
<1> QED BY <1>3, <1>4, TableStep

LEMMA CodeTimeStep ==
    ASSUME AgentInv, NEW c \in Codes, UNCHANGED <<ag, file, scene>>, CodeTime(c)
    PROVE  AgentInv'
<1> DEFINE late == [codes[c] EXCEPT !.live = FALSE]
           pruned == [codes[c] EXCEPT !.st = "pruned"]
<1>0. codes \in [Codes -> Code] /\ codes[c] \in Code /\ (codes[c].st \in {"unminted", "unused"} => codes[c].dev = 0)
  BY DEF AgentInv, Tables
<1>1. /\ late \in Code /\ late.dev = codes[c].dev /\ late.st = codes[c].st
      /\ pruned \in Code /\ pruned.dev = codes[c].dev /\ pruned.st = "pruned"
  BY <1>0 DEF Code
<1>2. UNCHANGED <<devs, req>> /\ (codes' = [codes EXCEPT ![c] = late] \/ codes' = [codes EXCEPT ![c] = pruned])
  BY <1>0 DEF CodeTime, ExpireCode, PruneCode
<1> HIDE DEF late, pruned
<1>3. CASE codes' = [codes EXCEPT ![c] = late]
  BY <1>0, <1>1, <1>2, <1>3, CodeEdited
<1>4. CASE codes' = [codes EXCEPT ![c] = pruned]
  BY <1>0, <1>1, <1>2, <1>4, CodeEdited
<1> QED BY <1>2, <1>3, <1>4

\* The owner mints codes and changes devices.
LEMMA OwnsStep ==
    ASSUME AgentInv, UNCHANGED <<ag, file, scene>>, Owns
    PROVE  AgentInv'
<1>0. S.labels \subseteq Labels
  BY SceneAssumption DEF AgentInv, S
<1>1. devs \in Seq(Device) /\ Len(devs) \in Nat /\ codes \in [Codes -> Code]
  BY DEF AgentInv, Tables
<1>1a. \A d \in Rows : devs[d] \in Device
  BY <1>1 DEF Rows
<1>2. UNCHANGED req
  BY DEF Owns, PageMintCode, ApiMintCode, Rename, SetEnabled, RotateSecret, Delete, Owner
<1>3. ASSUME NEW c \in Codes, NEW label \in S.labels, PageMintCode(c, label) \/ ApiMintCode(c, label)
      PROVE  AgentInv'
  <2> DEFINE e == [st |-> "unused", live |-> TRUE, label |-> label, dev |-> 0]
  <2>1. e \in Code /\ e.dev = 0
    BY <1>0 DEF Code
  <2>2. codes' = [codes EXCEPT ![c] = e] /\ codes[c].st = "unminted" /\ UNCHANGED devs
    BY <1>3 DEF PageMintCode, ApiMintCode, Minted
  <2> HIDE DEF e
  <2>3. codes[c].dev = 0
    BY <2>2 DEF AgentInv, Tables
  <2> QED BY <1>2, <2>1, <2>2, <2>3, CodeEdited
<1>4. ASSUME NEW d \in Rows, NEW e \in Device, e.from = devs[d].from, e.lost = devs[d].lost,
             devs' = [devs EXCEPT ![d] = e], UNCHANGED codes
      PROVE  AgentInv'
  <2>1. d \in 1..Len(devs)
    BY DEF Rows
  <2>2. Grown /\ Len(devs') = Len(devs) /\ devs'[d] = e /\ \A x \in 1..Len(devs) : x # d => devs'[x] = devs[x]
    BY <1>4, <2>1, DevEdited
  <2>3. RowsKeptOrNew
    BY <1>4, <2>2 DEF RowsKeptOrNew, Rows
  <2> QED BY <1>2, <2>2, <2>3, TableStep
<1>5. ASSUME NEW d \in Rows, NEW label \in S.labels, Rename(d, label)
      PROVE  AgentInv'
  <2> DEFINE e == [devs[d] EXCEPT !.label = label]
  <2>1. e \in Device /\ e.from = devs[d].from /\ e.lost = devs[d].lost
    BY <1>0, <1>1a DEF Device
  <2>2. devs' = [devs EXCEPT ![d] = e] /\ UNCHANGED codes
    BY <1>5 DEF Rename
  <2> HIDE DEF e
  <2> QED BY <1>4, <2>1, <2>2
<1>6. ASSUME NEW d \in Rows, NEW dis \in BOOLEAN, SetEnabled(d, dis)
      PROVE  AgentInv'
  <2> DEFINE e == [devs[d] EXCEPT !.dis = dis]
  <2>1. e \in Device /\ e.from = devs[d].from /\ e.lost = devs[d].lost
    BY <1>1a DEF Device
  <2>2. devs' = [devs EXCEPT ![d] = e] /\ UNCHANGED codes
    BY <1>6 DEF SetEnabled
  <2> HIDE DEF e
  <2> QED BY <1>4, <2>1, <2>2
<1>7. ASSUME NEW d \in Rows, RotateSecret(d)
      PROVE  AgentInv'
  <2> DEFINE e == [devs[d] EXCEPT !.secret = devs[d].secret + 1, !.evict = devs[d].evict + 1]
  <2>0. devs[d].secret + 1 \in Nat /\ devs[d].evict + 1 \in Nat
    <3>1. devs[d].secret \in Nat /\ devs[d].evict \in Nat
      BY <1>1a DEF Device
    <3> QED BY <3>1
  <2>1. e \in Device /\ e.from = devs[d].from /\ e.lost = devs[d].lost
    BY <1>1a, <2>0 DEF Device
  <2>2. devs' = [devs EXCEPT ![d] = e] /\ UNCHANGED codes
    BY <1>7 DEF RotateSecret
  <2> HIDE DEF e
  <2> QED BY <1>4, <2>1, <2>2
<1>8. ASSUME NEW d \in Rows, Delete(d)
      PROVE  AgentInv'
  <2> DEFINE e == [devs[d] EXCEPT !.st = "gone"]
  <2>1. e \in Device /\ e.from = devs[d].from /\ e.lost = devs[d].lost
    BY <1>1a DEF Device
  <2>2. devs' = [devs EXCEPT ![d] = e] /\ UNCHANGED codes
    BY <1>8 DEF Delete, Deleted
  <2> HIDE DEF e
  <2> QED BY <1>4, <2>1, <2>2
<1> QED BY <1>3, <1>5, <1>6, <1>7, <1>8 DEF Owns

\* Everything but the agents.
LEMMA ServerKeeps ==
    ASSUME AgentInv, UNCHANGED <<ag, file, scene>>, World \/ \E p \in Procs : ServerStep(p)
    PROVE  AgentInv'
<1>1. ASSUME NEW p \in Procs, RequestStep(p)
      PROVE  AgentInv'
  BY <1>1, ReadingSteps, FlowCreateStep, CodeCreateStep, FlowMintStep, CodeConsumeStep, RollbackStep, FillStep DEF RequestStep
<1>2. ASSUME NEW p \in Procs, Fail(p) \/ Cancelled(p)
      PROVE  AgentInv'
  <2>1. Working(p) /\ req[p].pc # "rollback" /\ req' = [req EXCEPT ![p] = Failed(req[p])] /\ UNCHANGED <<codes, devs>>
    BY <1>2 DEF Fail, Cancelled, Cancellable, At
  <2> QED BY <2>1, FailedStep
<1>3. ASSUME NEW p \in Procs, RollbackFails(p)
      PROVE  AgentInv'
  BY <1>3, RollbackStep
<1>4. CASE Restart
  BY <1>4, RestartStep
<1>5. CASE Discovered
  BY <1>5, OtherTables DEF Discovered
<1>6. ASSUME NEW f \in Flows, Decide(f) \/ FlowTime(f)
      PROVE  AgentInv'
  BY <1>6, OtherTables DEF Decide, FlowTime
<1> QED BY <1>1, <1>2, <1>3, <1>4, <1>5, <1>6, OwnsStep, CodeTimeStep, InvalidateStep DEF World, ServerStep

-----------------------------------------------------------------------------
(* The client processes *)

LEMMA NoAgentProcess ==
    /\ NoAgent \in Shape(NoTally, None) /\ Process(NoAgent) /\ NoAgent.pc = "idle"
    /\ NoCred \in Credentials
<1>1. NoCred \in Credentials
  BY DEF NoCred, Credentials
<1>2. "idle" \in AgentPcs /\ None \in Args
  BY DEF AgentPcs, Args
<1>3. NoAgent \in Shape(NoTally, None) /\ NoAgent.pc = "idle"
  BY <1>1, <1>2 DEF NoAgent, Shape
<1> HIDE DEF NoAgent
<1>4. NoAgent.tally = NoTally /\ NoAgent.end = None
  BY <1>3 DEF Shape
<1>5. Process(NoAgent)
  BY <1>3, <1>4 DEF Process
<1> QED BY <1>1, <1>3, <1>5

LEMMA ExitedProcess ==
    ASSUME NEW r, NEW why
    PROVE  Process(Exited(r, why)) /\ Exited(r, why).pc = "idle"
<1> DEFINE s == [NoAgent EXCEPT !.end = why]
<1>1. NoAgent \in Shape(NoTally, None) /\ NoAgent.pc = "idle"
  BY NoAgentProcess
<1>2. s \in Shape(s.tally, s.end) /\ s.pc = "idle"
  BY <1>1 DEF Shape
<1> HIDE DEF s
<1>3. Process(s) /\ s.pc = "idle"
  BY <1>2 DEF Process
<1> QED BY <1>3 DEF Exited, s

\* The process goes on to pc.
LEMMA TurnsProcess ==
    ASSUME NEW r, Process(r), NEW pc \in AgentPcs,
           pc = "code" => r.arg \in Codes, pc \in {"poll", "sleep"} => r.arg \in Flows, pc # "load"
    PROVE  Process([r EXCEPT !.pc = pc]) /\ [r EXCEPT !.pc = pc].pc = pc
<1> DEFINE s == [r EXCEPT !.pc = pc]
<1>1. r \in Shape(r.tally, r.end)
  BY DEF Process
<1>2. s \in Shape(s.tally, s.end) /\ s.pc = pc /\ s.arg = r.arg
  BY <1>1 DEF Shape
<1> HIDE DEF s
<1>3. Process(s)
  BY <1>2 DEF Process
<1> QED BY <1>2, <1>3 DEF s

LEMMA CycleProcess ==
    ASSUME NEW r, Process(r), NEW status
    PROVE  Process(AfterCycle(r, status)) /\ AfterCycle(r, status).pc # "wait"
<1> DEFINE t == [r EXCEPT !.pc = "rest", !.bad = Strikes(r, status)]
<1>1. r \in Shape(r.tally, r.end)
  BY DEF Process
<1>2. Strikes(r, status) \in Nat
  BY <1>1 DEF Shape, Strikes
<1>3. t \in Shape(t.tally, t.end) /\ t.pc = "rest"
  BY <1>1, <1>2 DEF Shape, AgentPcs
<1>4. AfterCycle(r, status) = t \/ \E why : AfterCycle(r, status) = Exited(r, why)
  BY DEF AfterCycle
<1> HIDE DEF t
<1>5. Process(t) /\ t.pc # "wait"
  BY <1>3 DEF Process
<1> QED BY <1>4, <1>5, ExitedProcess

\* What comes after an answer, or after none.
LEMMA AfterProcess ==
    ASSUME NEW r, Process(r), NEW op \in {"code", "start", "poll", "report"}, NEW status, NEW cred,
           op = "poll" => r.arg \in Flows,
           op = "start" /\ status = "200" => cred \in Flows,
           op # "start" => cred \in Credentials
    PROVE  Process(After(r, op, status, cred)) /\ After(r, op, status, cred).pc # "wait"
<1> DEFINE n == [r EXCEPT !.proc = None]
           s == After(r, op, status, cred)
<1> SUFFICES Process(s) /\ s.pc # "wait"
  OBVIOUS
<1>1. r \in Shape(r.tally, r.end)
  BY DEF Process
<1>2. n \in Shape(n.tally, n.end) /\ n.arg = r.arg /\ Process(n)
  <2>1. n \in Shape(n.tally, n.end) /\ n.arg = r.arg /\ n.pc = r.pc /\ n.cmd = r.cmd
    BY <1>1 DEF Shape
  <2> HIDE DEF n
  <2> QED BY <2>1 DEF Process
<1>3. \A why : Process(Exited(n, why)) /\ Exited(n, why).pc # "wait"
  BY ExitedProcess
<1>4. /\ op = "code" => s = AfterCode(n, status, cred)
      /\ op = "start" => s = AfterStart(n, status, cred)
      /\ op = "poll" => s = AfterPoll(n, status, cred)
      /\ op = "report" => s = AfterCycle(n, status)
  BY DEF After
<1> HIDE DEF n, s
<1>5. ASSUME cred \in Credentials
      PROVE  Process([n EXCEPT !.pc = "stat", !.cred = cred]) /\ [n EXCEPT !.pc = "stat", !.cred = cred].pc # "wait"
  <2> DEFINE t == [n EXCEPT !.pc = "stat", !.cred = cred]
  <2>1. t \in Shape(t.tally, t.end) /\ t.pc = "stat"
    BY <1>2, <1>5 DEF Shape, AgentPcs
  <2> HIDE DEF t
  <2>2. Process(t) /\ t.pc # "wait"
    BY <2>1 DEF Process
  <2> QED BY <2>2 DEF t
<1>6. CASE op = "code"
  BY <1>3, <1>4, <1>5, <1>6 DEF AfterCode
<1>7. CASE op = "start"
  <2> DEFINE t == [n EXCEPT !.pc = "poll", !.arg = cred]
  <2>1. ASSUME status = "200" PROVE Process(t) /\ t.pc # "wait"
    <3>1. cred \in Args
      BY <1>7, <2>1 DEF Args
    <3>2. t \in Shape(t.tally, t.end) /\ t.pc = "poll" /\ t.arg = cred
      BY <1>2, <3>1 DEF Shape, AgentPcs
    <3> HIDE DEF t
    <3> QED BY <1>7, <2>1, <3>2 DEF Process
  <2> QED BY <1>3, <1>4, <1>7, <2>1 DEF AfterStart
<1>8. CASE op = "poll"
  <2>1. ASSUME NEW g \in Nat
        PROVE  Process([n EXCEPT !.pc = "sleep", !.gw = g]) /\ [n EXCEPT !.pc = "sleep", !.gw = g].pc # "wait"
    <3> DEFINE t == [n EXCEPT !.pc = "sleep", !.gw = g]
    <3>1. t \in Shape(t.tally, t.end) /\ t.pc = "sleep" /\ t.arg = r.arg
      BY <1>2, <2>1 DEF Shape, AgentPcs
    <3> HIDE DEF t
    <3>2. Process(t) /\ t.pc # "wait"
      BY <1>8, <3>1 DEF Process
    <3> QED BY <3>2 DEF t
  <2>2. n.gw \in Nat
    BY <1>2 DEF Shape
  <2>3. n.gw + 1 \in Nat /\ 0 \in Nat
    BY <2>2
  <2>4. \/ s = [n EXCEPT !.pc = "stat", !.cred = cred]
        \/ s = [n EXCEPT !.pc = "sleep", !.gw = 0]
        \/ s = [n EXCEPT !.pc = "sleep", !.gw = n.gw + 1]
        \/ s = Exited(n, "failed")
    BY <1>4, <1>8 DEF AfterPoll
  <2> QED BY <1>3, <1>5, <1>8, <2>1, <2>3, <2>4
<1>9. CASE op = "report"
  BY <1>2, <1>4, <1>9, CycleProcess
<1> QED BY <1>6, <1>7, <1>8, <1>9

\* A step of a process that waits for nobody, before or after.
LEMMA AloneStep ==
    ASSUME AgentInv, NEW a \in Agents, NEW r, ag' = [ag EXCEPT ![a] = r], Process(r), r.pc # "wait",
           file' \in Credentials, UNCHANGED <<codes, devs, req, scene>>
    PROVE  AgentInv'
<1>0. Clients /\ DOMAIN ag = Agents
  BY DEF AgentInv, Clients
<1>1. DOMAIN ag' = Agents /\ ag'[a] = r /\ \A b \in Agents \ {a} : ag'[b] = ag[b]
  BY <1>0
<1>2. \A b \in Agents : Process(ag'[b])
  BY <1>0, <1>1 DEF Clients
<1>3. Waits'
  BY <1>0, <1>1 DEF Clients, Waits
<1>4. Clients'
  BY <1>1, <1>2, <1>3 DEF Clients
<1>5. Tables' /\ Requests' /\ NoOrphanDevice'
  BY DEF AgentInv, Tables, Requests, NoOrphanDevice, Rows, Owing
<1> QED BY <1>4, <1>5 DEF AgentInv

\* The operator starts a command.
LEMMA LaunchStep ==
    ASSUME AgentInv, NEW a \in Agents, UNCHANGED scene, Launch(a)
    PROVE  AgentInv'
<1>1. PICK c \in S.commands :
        ag' = [ag EXCEPT ![a] = [NoAgent EXCEPT !.pc = "load", !.cmd = c.cmd, !.force = c.force, !.arg = c.arg]]
  BY DEF Launch, Becomes
<1>2. c \in Command /\ (c.cmd = "code" => c.arg \in Codes)
  BY SceneAssumption DEF AgentInv, S
<1>3. c.cmd \in {None, "code", "oidc", "run", "once"} /\ c.force \in BOOLEAN /\ c.arg \in Args
  BY <1>2 DEF Command, Args
<1> DEFINE r == [NoAgent EXCEPT !.pc = "load", !.cmd = c.cmd, !.force = c.force, !.arg = c.arg]
<1>4. NoAgent \in Shape(NoTally, None)
  BY NoAgentProcess
<1>5. r \in Shape(r.tally, r.end) /\ r.pc = "load" /\ r.cmd = c.cmd /\ r.arg = c.arg
  BY <1>3, <1>4 DEF Shape, AgentPcs
<1>6. ag' = [ag EXCEPT ![a] = r]
  BY <1>1
<1> HIDE DEF r
<1>7. Process(r) /\ r.pc # "wait"
  BY <1>2, <1>5 DEF Process
<1>8. file' \in Credentials /\ UNCHANGED <<codes, devs, req>>
  BY DEF Launch, AgentInv, Clients
<1> QED BY <1>6, <1>7, <1>8, AloneStep

\* The steps without a request.
LEMMA AloneSteps ==
    ASSUME AgentInv, NEW a \in Agents, UNCHANGED scene,
           \/ LoadEnroll(a) \/ LoadRun(a) \/ Capabilities(a) \/ Sleep(a) \/ SaveStat(a) \/ SavePublish(a)
           \/ Discover(a) \/ TallyNext(a) \/ TallyEnd(a) \/ Rest(a)
    PROVE  AgentInv'
<1>0. Process(ag[a]) /\ file \in Credentials
  BY DEF AgentInv, Clients
<1>0a. ag[a] \in Shape(ag[a].tally, ag[a].end) /\ ag[a].cred \in Credentials
  BY <1>0 DEF Process, Shape
<1>1. ASSUME NEW why, Exit(a, why), file' \in Credentials, UNCHANGED <<codes, devs, req>>
      PROVE  AgentInv'
  <2> DEFINE r == Exited(ag[a], why)
  <2>1. ag' = [ag EXCEPT ![a] = r]
    BY <1>1 DEF Exit, Becomes
  <2>2. Process(r) /\ r.pc # "wait"
    BY ExitedProcess
  <2> HIDE DEF r
  <2> QED BY <1>1, <2>1, <2>2, AloneStep
<1>2. ASSUME NEW pc \in AgentPcs, pc \notin {"wait", "load"}, Turns(a, pc), UNCHANGED <<codes, devs, req, file>>,
             pc = "code" => ag[a].arg \in Codes, pc \in {"poll", "sleep"} => ag[a].arg \in Flows
      PROVE  AgentInv'
  <2> DEFINE r == [ag[a] EXCEPT !.pc = pc]
  <2>1. ag' = [ag EXCEPT ![a] = r]
    BY <1>2 DEF Turns, Becomes
  <2>2. Process(r) /\ r.pc # "wait"
    BY <1>0, <1>2, TurnsProcess
  <2> HIDE DEF r
  <2> QED BY <1>0, <1>2, <2>1, <2>2, AloneStep
<1>3. CASE LoadEnroll(a)
  <2>0. UNCHANGED <<codes, devs, req, file>> /\ ag[a].pc = "load" /\ {"code", "caps"} \subseteq AgentPcs
    BY <1>3 DEF LoadEnroll, Local, In, AgentPcs
  <2>1. CASE Exit(a, "exists")
    BY <1>0, <1>1, <2>0, <2>1
  <2>2. CASE ag[a].cmd = "code" /\ Turns(a, "code")
    BY <1>0, <1>2, <2>0, <2>2 DEF Process
  <2>3. CASE Turns(a, "caps")
    BY <1>2, <2>0, <2>3
  <2> QED BY <1>3, <2>1, <2>2, <2>3 DEF LoadEnroll
<1>4. CASE LoadRun(a)
  <2>0. UNCHANGED <<codes, devs, req, file>>
    BY <1>4 DEF LoadRun, Local
  <2>1. CASE Exit(a, "no_file")
    BY <1>0, <1>1, <2>0, <2>1
  <2>2. CASE Becomes(a, [ag[a] EXCEPT !.pc = "discover", !.cred = file])
    <3> DEFINE r == [ag[a] EXCEPT !.pc = "discover", !.cred = file]
    <3>1. r \in Shape(r.tally, r.end) /\ r.pc = "discover"
      BY <1>0, <1>0a DEF Shape, AgentPcs
    <3>2. ag' = [ag EXCEPT ![a] = r]
      BY <2>2 DEF Becomes
    <3> HIDE DEF r
    <3>3. Process(r) /\ r.pc # "wait"
      BY <3>1 DEF Process
    <3> QED BY <1>0, <2>0, <3>2, <3>3, AloneStep
  <2> QED BY <1>4, <2>1, <2>2 DEF LoadRun
<1>5. CASE Capabilities(a)
  <2>0. UNCHANGED <<codes, devs, req, file>> /\ "start" \in AgentPcs
    BY <1>5 DEF Capabilities, Local, AgentPcs
  <2>1. CASE Exit(a, "unsupported")
    BY <1>0, <1>1, <2>0, <2>1
  <2>2. CASE Turns(a, "start")
    BY <1>2, <2>0, <2>2
  <2> QED BY <1>5, <2>1, <2>2 DEF Capabilities
<1>6. CASE Sleep(a)
  <2>0. UNCHANGED <<codes, devs, req, file>> /\ "poll" \in AgentPcs /\ ag[a].pc = "sleep"
    BY <1>6 DEF Sleep, Local, AgentPcs, In
  <2>1. CASE Exit(a, "expired")
    BY <1>0, <1>1, <2>0, <2>1
  <2>2. CASE Turns(a, "poll")
    <3>1. ag[a].arg \in Flows
      BY <1>0, <2>0 DEF Process
    <3> QED BY <1>2, <2>0, <2>2, <3>1
  <2> QED BY <1>6, <2>1, <2>2 DEF Sleep
<1>7. CASE SaveStat(a)
  <2>0. UNCHANGED <<codes, devs, req, file>> /\ "publish" \in AgentPcs
    BY <1>7 DEF SaveStat, Local, AgentPcs
  <2>1. CASE Exit(a, "exists")
    BY <1>0, <1>1, <2>0, <2>1
  <2>2. CASE Turns(a, "publish")
    BY <1>2, <2>0, <2>2
  <2> QED BY <1>7, <2>1, <2>2 DEF SaveStat
<1>8. CASE SavePublish(a)
  <2>1. UNCHANGED <<codes, devs, req>> /\ file' \in Credentials /\ \E why : Exit(a, why)
    BY <1>0, <1>0a, <1>8 DEF SavePublish, Local
  <2> QED BY <1>1, <2>1
<1>9. CASE Discover(a) \/ TallyNext(a)
  <2>0. UNCHANGED <<codes, devs, req, file>>
    BY <1>9 DEF Discover, TallyNext, Local
  <2>1. PICK t : ag' = [ag EXCEPT ![a] = [ag[a] EXCEPT !.pc = "tally", !.tally = t]]
    <3>1. CASE Discover(a)
      BY <3>1 DEF Discover, Becomes
    <3>2. CASE TallyNext(a)
      <4>1. PICK t : ag' = [ag EXCEPT ![a] = [ag[a] EXCEPT !.tally = t]] /\ ag[a].pc = "tally"
        BY <3>2 DEF TallyNext, Becomes, In
      <4>2. [ag[a] EXCEPT !.tally = t] = [ag[a] EXCEPT !.pc = "tally", !.tally = t]
        BY <1>0a, <4>1 DEF Shape
      <4> QED BY <4>1, <4>2
    <3> QED BY <1>9, <3>1, <3>2
  <2> DEFINE r == [ag[a] EXCEPT !.pc = "tally", !.tally = t]
  <2>2. r \in Shape(r.tally, r.end) /\ r.pc = "tally"
    BY <1>0a DEF Shape, AgentPcs
  <2>3. ag' = [ag EXCEPT ![a] = r]
    BY <2>1
  <2> HIDE DEF r
  <2>4. Process(r) /\ r.pc # "wait"
    BY <2>2 DEF Process
  <2> QED BY <1>0, <2>0, <2>3, <2>4, AloneStep
<1>9a. CASE TallyEnd(a)
  <2>0. UNCHANGED <<codes, devs, req, file>> /\ "report" \in AgentPcs /\ ag[a].pc = "tally"
    BY <1>9a DEF TallyEnd, Local, AgentPcs, In
  <2>1. CASE Turns(a, "report")
    BY <1>2, <2>0, <2>1
  <2>2. CASE Becomes(a, AfterCycle([ag[a] EXCEPT !.tally = NoTally], "no_quorum"))
    <3> DEFINE r == [ag[a] EXCEPT !.tally = NoTally]
               n == AfterCycle(r, "no_quorum")
    <3>1. r \in Shape(r.tally, r.end) /\ r.pc = "tally"
      BY <1>0a, <2>0 DEF Shape
    <3> HIDE DEF r
    <3>2. Process(r)
      BY <3>1 DEF Process
    <3>3. Process(n) /\ n.pc # "wait"
      BY <3>2, CycleProcess
    <3>4. ag' = [ag EXCEPT ![a] = n]
      BY <2>2 DEF Becomes, r
    <3> HIDE DEF n
    <3> QED BY <1>0, <2>0, <3>3, <3>4, AloneStep
  <2> QED BY <1>9a, <2>1, <2>2 DEF TallyEnd
<1>10. CASE Rest(a)
  <2>1. UNCHANGED <<codes, devs, req, file>> /\ "discover" \in AgentPcs /\ Turns(a, "discover")
    BY <1>10 DEF Rest, Local, AgentPcs
  <2> QED BY <1>2, <2>1
<1> QED BY <1>3, <1>4, <1>5, <1>6, <1>7, <1>8, <1>9, <1>9a, <1>10

\* A process sends a request of its own to an idle handler.
LEMMA SendStep ==
    ASSUME AgentInv, NEW a \in Agents, UNCHANGED scene, Send(a)
    PROVE  AgentInv'
<1> DEFINE op == ag[a].pc
<1>0. /\ op \in {"code", "start", "poll", "report"} /\ UNCHANGED <<codes, devs, file>>
      /\ Clients /\ DOMAIN ag = Agents /\ Process(ag[a]) /\ file \in Credentials /\ Waits
  BY DEF Send, AgentInv, Clients
<1>1. PICK p \in Procs :
        /\ req[p].pc = "idle"
        /\ req' = [req EXCEPT ![p] = [NoReq EXCEPT !.op = op, !.pc = FirstStatement(op), !.arg = ag[a].arg,
                                                   !.dev = ag[a].cred.dev, !.secret = ag[a].cred.secret]]
        /\ ag' = [ag EXCEPT ![a] = [ag[a] EXCEPT !.pc = "wait", !.proc = p, !.tally = NoTally]]
  BY DEF Send, Becomes, At
<1>2. /\ ag[a] \in Shape(ag[a].tally, ag[a].end) /\ ag[a].arg \in Args
      /\ ag[a].cred.dev \in Nat /\ ag[a].cred.secret \in Nat
      /\ op = "code" => ag[a].arg \in Codes
      /\ op = "poll" => ag[a].arg \in Flows
  BY <1>0 DEF Process, Shape, Credentials
<1> DEFINE r == [NoReq EXCEPT !.op = op, !.pc = FirstStatement(op), !.arg = ag[a].arg,
                              !.dev = ag[a].cred.dev, !.secret = ag[a].cred.secret]
           w == [ag[a] EXCEPT !.pc = "wait", !.proc = p, !.tally = NoTally]
<1>3. /\ w \in Shape(w.tally, w.end) /\ w.pc = "wait" /\ w.proc = p /\ w.arg = ag[a].arg
  BY <1>2 DEF Shape, AgentPcs
<1>4. /\ NoReq \in Request /\ ~NoReq.gone
  BY NoReqFits DEF NoReq
<1>5. /\ FirstStatement(op) \in CodePcs \cup FlowPcs \cup StartPcs \cup VerifyPcs \cup RestPcs
      /\ FirstStatement(op) \in {"code_get", "flow_start", "flow_try", "checkin"}
      /\ FirstStatement(op) = "code_get" => op = "code"
      /\ FirstStatement(op) = "flow_start" => op = "start"
      /\ FirstStatement(op) = "flow_try" => op = "poll"
      /\ FirstStatement(op) = "checkin" => op = "report"
  BY <1>0 DEF FirstStatement, CodePcs, FlowPcs, StartPcs, VerifyPcs, RestPcs
<1>6. /\ r \in Request /\ r.pc = FirstStatement(op) /\ r.op = op /\ r.arg = ag[a].arg /\ ~r.gone
  <2>1. op \in {None, "code", "start", "poll", "report"}
    BY <1>0
  <2> QED BY <1>2, <1>4, <1>5, <2>1 DEF Request
<1>7. req' = [req EXCEPT ![p] = r] /\ ag' = [ag EXCEPT ![a] = w]
  BY <1>1
<1> HIDE DEF r, w, op
<1>8. Fits(r) /\ Owes(r, devs, codes)
  BY <1>2, <1>5, <1>6 DEF Fits, Owes, CodePcs, FlowPcs, StartPcs, VerifyPcs, OwingPcs
<1>9. ~Owing(p)
  BY <1>1 DEF Owing
<1>10. Tables' /\ Requests' /\ NoOrphanDevice'
  BY <1>0, <1>7, <1>8, <1>9, OneRequestAlone
<1>11. /\ DOMAIN ag' = Agents /\ ag'[a] = w /\ \A b \in Agents \ {a} : ag'[b] = ag[b]
       /\ req'[p] = r /\ \A q \in Procs \ {p} : req'[q] = req[q]
  <2>1. req \in [Procs -> Request]
    BY DEF AgentInv, Requests
  <2> QED BY <1>0, <1>7, <2>1
<1>12. Process(w)
  BY <1>3 DEF Process
<1>13. ASSUME NEW b \in Agents, b # a, ag[b].pc = "wait" PROVE ag[b].proc \in Procs /\ ag[b].proc # p
  BY <1>0, <1>1, <1>13 DEF Waits
<1>14. /\ r.pc # "idle" /\ r.op # None /\ (r.op = "poll" => w.arg \in Flows)
  BY <1>0, <1>2, <1>3, <1>5, <1>6 DEF None, op
<1>15. Waits'
  <2> SUFFICES ASSUME NEW b \in Agents, ag'[b].pc = "wait"
               PROVE  /\ ag'[b].proc \in Procs
                      /\ req'[ag'[b].proc].pc # "idle" /\ req'[ag'[b].proc].op # None /\ ~req'[ag'[b].proc].gone
                      /\ req'[ag'[b].proc].op = "poll" => ag'[b].arg \in Flows
                      /\ \A c \in Agents : ag'[c].pc = "wait" /\ ag'[c].proc = ag'[b].proc => b = c
    BY DEF Waits
  <2>1. CASE b = a
    BY <1>3, <1>6, <1>11, <1>13, <1>14, <2>1
  <2>2. CASE b # a
    BY <1>0, <1>3, <1>11, <1>13, <2>2 DEF Waits
  <2> QED BY <2>1, <2>2
<1>16. Clients'
  BY <1>0, <1>11, <1>12, <1>15 DEF Clients
<1> QED BY <1>10, <1>16 DEF AgentInv

\* A process stops waiting; its request is over, or goes on for nobody.
LEMMA PartStep ==
    ASSUME AgentInv, NEW a \in Agents, UNCHANGED <<codes, devs, file, scene>>, ag[a].pc = "wait",
           NEW r, ag' = [ag EXCEPT ![a] = r], Process(r), r.pc # "wait",
           \/ req' = [req EXCEPT ![ag[a].proc] = NoReq] /\ ~Working(ag[a].proc)
           \/ req' = [req EXCEPT ![ag[a].proc] = [req[ag[a].proc] EXCEPT !.gone = TRUE]]
    PROVE  AgentInv'
<1> DEFINE p == ag[a].proc
           g == [req[p] EXCEPT !.gone = TRUE]
<1>0. Clients /\ DOMAIN ag = Agents /\ file \in Credentials /\ Waits
  BY DEF AgentInv, Clients
<1>1. p \in Procs /\ \A b \in Agents : ag[b].pc = "wait" /\ ag[b].proc = p => a = b
  BY <1>0 DEF Waits
<1>2. Fits(req[p]) /\ Owes(req[p], devs, codes) /\ req[p] \in Request /\ req \in [Procs -> Request]
  BY <1>1, Placed
<1>3. /\ g \in Request /\ g.pc = req[p].pc /\ g.op = req[p].op /\ g.arg = req[p].arg /\ g.dev = req[p].dev
      /\ g.status = req[p].status
  BY <1>2 DEF Request
<1>4. req' = [req EXCEPT ![p] = g] \/ (req' = [req EXCEPT ![p] = NoReq] /\ ~Working(p))
  OBVIOUS
<1> HIDE DEF g, p
<1>5. Fits(g) /\ Owes(g, devs, codes)
  BY <1>2, <1>3 DEF Fits, Owes
<1>6. Tables' /\ Requests' /\ NoOrphanDevice'
  <2>1. CASE req' = [req EXCEPT ![p] = g]
    BY <1>1, <1>3, <1>5, <2>1, OneRequestAlone DEF Owing, OwingPcs
  <2>2. CASE req' = [req EXCEPT ![p] = NoReq] /\ ~Working(p)
    <3>1. ~Owing(p)
      BY <2>2 DEF Working, Owing
    <3> QED BY <1>1, <2>2, <3>1, NoReqFits, OneRequestAlone
  <2> QED BY <1>4, <2>1, <2>2
<1>7. /\ DOMAIN ag' = Agents /\ ag'[a] = r /\ \A b \in Agents \ {a} : ag'[b] = ag[b]
      /\ \A q \in Procs \ {p} : req'[q] = req[q]
  BY <1>0, <1>2, <1>4
<1>8. Waits'
  <2> SUFFICES ASSUME NEW b \in Agents, ag'[b].pc = "wait"
               PROVE  /\ ag'[b].proc \in Procs
                      /\ req'[ag'[b].proc].pc # "idle" /\ req'[ag'[b].proc].op # None /\ ~req'[ag'[b].proc].gone
                      /\ req'[ag'[b].proc].op = "poll" => ag'[b].arg \in Flows
                      /\ \A c \in Agents : ag'[c].pc = "wait" /\ ag'[c].proc = ag'[b].proc => b = c
    BY DEF Waits
  <2>1. b # a /\ ag'[b] = ag[b]
    BY <1>7
  <2>2. ag[b].proc \in Procs /\ ag[b].proc # p
    BY <1>0, <1>1, <2>1 DEF Waits
  <2> QED BY <1>0, <1>7, <2>1, <2>2 DEF Waits
<1>9. Clients'
  BY <1>0, <1>7, <1>8 DEF Clients
<1> QED BY <1>6, <1>9 DEF AgentInv

\* An answer, a broken connection, a timeout.
LEMMA AnsweredSteps ==
    ASSUME AgentInv, NEW a \in Agents, UNCHANGED scene, Receive(a) \/ Broken(a) \/ GiveUp(a)
    PROVE  AgentInv'
<1> DEFINE p == ag[a].proc
           q == req[p]
           cred == IF q.op = "start" THEN q.arg ELSE [dev |-> q.dev, secret |-> q.secret]
<1>0. ag[a].pc = "wait" /\ UNCHANGED <<codes, devs, file>>
  BY DEF Receive, Broken, GiveUp, In
<1>1. Process(ag[a]) /\ p \in Procs /\ q.pc # "idle" /\ q.op # None /\ (q.op = "poll" => ag[a].arg \in Flows)
  BY <1>0 DEF AgentInv, Clients, Waits
<1>2. Fits(q) /\ q \in Request
  BY <1>1, Placed
<1>3. q.op \in {"code", "start", "poll", "report"} /\ q.dev \in Nat /\ q.secret \in Nat
  BY <1>1, <1>2 DEF Request
<1>4. [dev |-> q.dev, secret |-> q.secret] \in Credentials /\ NoCred \in Credentials
  BY <1>3, NoAgentProcess DEF Credentials
<1>5. CASE Receive(a)
  <2>1. q.pc = "reply" /\ ag' = [ag EXCEPT ![a] = After(ag[a], q.op, q.status, cred)] /\ req' = [req EXCEPT ![p] = NoReq]
    BY <1>5 DEF Receive, Becomes
  <2>2. q.op = "start" /\ q.status = "200" => cred \in Flows
    BY <1>2, <2>1 DEF Fits
  <2>3. q.op # "start" => cred \in Credentials
    BY <1>4
  <2> HIDE DEF cred
  <2> DEFINE r == After(ag[a], q.op, q.status, cred)
  <2>4. Process(r) /\ r.pc # "wait"
    BY <1>1, <1>3, <2>2, <2>3, AfterProcess
  <2>5. ag' = [ag EXCEPT ![a] = r] /\ ~Working(p)
    BY <2>1 DEF Working
  <2> HIDE DEF r
  <2> QED BY <1>0, <2>1, <2>4, <2>5, PartStep
<1>6. CASE Broken(a) \/ GiveUp(a)
  <2> DEFINE r == After(ag[a], q.op, "lost", NoCred)
  <2>1. ag' = [ag EXCEPT ![a] = r]
    BY <1>6 DEF Broken, GiveUp, Becomes
  <2>2. Process(r) /\ r.pc # "wait"
    BY <1>1, <1>3, <1>4, AfterProcess
  <2>3. \/ req' = [req EXCEPT ![p] = NoReq] /\ ~Working(p)
        \/ req' = [req EXCEPT ![p] = [req[p] EXCEPT !.gone = TRUE]]
    <3>1. CASE Broken(a)
      BY <3>1 DEF Broken, Working
    <3>2. CASE GiveUp(a)
      BY <3>2 DEF GiveUp, Abandon
    <3> QED BY <1>6, <3>1, <3>2
  <2> HIDE DEF r
  <2> QED BY <1>0, <2>1, <2>2, <2>3, PartStep
<1> QED BY <1>5, <1>6

LEMMA KillStep ==
    ASSUME AgentInv, NEW a \in Agents, UNCHANGED scene, Kill(a)
    PROVE  AgentInv'
<1> DEFINE r == Exited(ag[a], "killed")
<1>1. ag' = [ag EXCEPT ![a] = r] /\ UNCHANGED <<codes, devs, file>> /\ file \in Credentials
  BY DEF Kill, Exit, Becomes, AgentInv, Clients
<1>2. Process(r) /\ r.pc # "wait"
  BY ExitedProcess
<1> HIDE DEF r
<1>3. CASE ag[a].pc = "wait"
  <2>1. \/ req' = [req EXCEPT ![ag[a].proc] = NoReq] /\ ~Working(ag[a].proc)
        \/ req' = [req EXCEPT ![ag[a].proc] = [req[ag[a].proc] EXCEPT !.gone = TRUE]]
    BY <1>3 DEF Kill, Abandon, In
  <2> QED BY <1>1, <1>2, <1>3, <2>1, PartStep
<1>4. CASE ag[a].pc # "wait"
  <2>1. UNCHANGED req
    BY <1>4 DEF Kill, In
  <2> QED BY <1>1, <1>2, <2>1, AloneStep
<1> QED BY <1>3, <1>4

-----------------------------------------------------------------------------
LEMMA AgentInvInit == Init => AgentInv
<1> SUFFICES ASSUME Init PROVE AgentInv
  OBVIOUS
<1>1. scene \in DOMAIN Scenes /\ codes = S.codes /\ devs = S.devs /\ file = S.file
  BY DEF Init
<1>2. /\ S.codes \in [Codes -> Code] /\ S.devs \in Seq(Device) /\ S.file \in Credentials
      /\ \A c \in Codes : S.codes[c].st \in {"unminted", "unused"} => S.codes[c].dev = 0
      /\ \A d \in 1..Len(S.devs) : S.devs[d].st = "row" /\ S.devs[d].from \in Codes /\ ~S.devs[d].lost =>
           S.codes[S.devs[d].from].dev = d
  BY <1>1, SceneAssumption DEF S
<1>3. Tables
  BY <1>1, <1>2 DEF Tables
<1>4. Requests
  <2>1. req = [p \in Procs |-> NoReq]
    BY DEF Init
  <2> QED BY <2>1, NoReqFits DEF Requests
<1>5. Clients
  <2>1. DOMAIN ag = Agents /\ \A a \in Agents : ag[a] = NoAgent
    BY DEF Init
  <2>2. \A a \in Agents : Process(ag[a]) /\ ag[a].pc # "wait"
    BY <2>1, NoAgentProcess
  <2> QED BY <1>1, <1>2, <2>1, <2>2 DEF Clients, Waits
<1>6. NoOrphanDevice
  BY <1>1, <1>2 DEF NoOrphanDevice, Rows
<1> QED BY <1>1, <1>3, <1>4, <1>5, <1>6 DEF AgentInv

LEMMA AgentInvNext == AgentInv /\ [Next]_vars => AgentInv'
<1> SUFFICES ASSUME AgentInv, [Next]_vars PROVE AgentInv'
  OBVIOUS
<1>1. CASE UNCHANGED vars
  BY <1>1, OtherTables DEF vars
<1>2. CASE UNCHANGED <<ag, file, scene>> /\ (World \/ \E p \in Procs : ServerStep(p))
  BY <1>2, ServerKeeps
<1>3. ASSUME NEW a \in Agents, UNCHANGED scene, Launch(a) \/ AgentStep(a) \/ GiveUp(a) \/ Kill(a)
      PROVE  AgentInv'
  BY <1>3, LaunchStep, AloneSteps, SendStep, AnsweredSteps, KillStep DEF AgentStep
<1> QED BY <1>1, <1>2, <1>3 DEF Next

(***************************************************************************)
(* Every device a code has left is the one the code records, is still in   *)
(* the hands of its request, or was lost with a compensation that failed   *)
(* (EnrollmentService.ConsumeCode, rollbackDevice), whoever races whom,    *)
(* whatever fails and whenever the client hangs up or the server restarts. *)
(***************************************************************************)
THEOREM NoOrphanDeviceAlways == Spec => []NoOrphanDevice
<1>1. AgentInv => NoOrphanDevice
  BY DEF AgentInv
<1> QED BY <1>1, AgentInvInit, AgentInvNext, PTL DEF Spec

-----------------------------------------------------------------------------
(* Device flows *)

SettlePcs == {"flow_login", "flow_mint", "flow_delete"}
Settling(p, f) == req[p].pc \in SettlePcs /\ req[p].arg = f

FlowTables ==
    /\ flows \in [Flows -> Flow] /\ idp \in [Flows -> {None, "asked", "approved", "denied", "spent"}]
    /\ spent \in [faults : Nat, owner : Nat, runs : Nat]

\* As long as nothing has failed nobody has hung up, and a row of a spent flow
\* is in the hands of the request that will delete it.
Unfailed ==
    spent.faults = 0 =>
        /\ \A p \in Procs : ~req[p].gone
        /\ \A f \in Flows : idp[f] = "spent" /\ flows[f].st = "row" => \E p \in Procs : Settling(p, f)

SettleInv == AgentInv /\ FlowTables /\ Unfailed

\* The step of one request, by what it does to the request it was.
LEMMA OneSettles ==
    ASSUME SettleInv, FlowTables', NEW p \in Procs, NEW r, req' = [req EXCEPT ![p] = r], UNCHANGED spent,
           r.gone => req[p].gone,
           \A f \in Flows : idp'[f] = "spent" /\ flows'[f].st = "row" =>
               \/ r.pc \in SettlePcs /\ r.arg = f
               \/ idp[f] = "spent" /\ flows[f].st = "row" /\ ~Settling(p, f)
    PROVE  Unfailed'
<1>0. req \in [Procs -> Request]
  BY DEF SettleInv, AgentInv, Requests
<1>1. req'[p] = r /\ \A q \in Procs : q # p => req'[q] = req[q]
  BY <1>0
<1> SUFFICES ASSUME spent.faults = 0
             PROVE  /\ \A q \in Procs : ~req'[q].gone
                    /\ \A f \in Flows : idp'[f] = "spent" /\ flows'[f].st = "row" => \E q \in Procs : Settling(q, f)'
  BY DEF Unfailed
<1>2. /\ \A q \in Procs : ~req[q].gone
      /\ \A f \in Flows : idp[f] = "spent" /\ flows[f].st = "row" => \E q \in Procs : Settling(q, f)
  BY DEF SettleInv, Unfailed
<1>3. \A q \in Procs : ~req'[q].gone
  BY <1>1, <1>2
<1>4. ASSUME NEW f \in Flows, idp'[f] = "spent", flows'[f].st = "row" PROVE \E q \in Procs : Settling(q, f)'
  <2>1. CASE r.pc \in SettlePcs /\ r.arg = f
    BY <1>1, <2>1 DEF Settling
  <2>2. CASE idp[f] = "spent" /\ flows[f].st = "row" /\ ~Settling(p, f)
    <3>1. PICK q \in Procs : Settling(q, f)
      BY <1>2, <2>2
    <3>2. q # p /\ req'[q] = req[q]
      BY <1>1, <2>2, <3>1
    <3> QED BY <3>1, <3>2 DEF Settling
  <2> QED BY <1>4, <2>1, <2>2
<1> QED BY <1>3, <1>4

\* The request a statement leaves has not hung up meanwhile.
Passes(p) == \E r : req' = [req EXCEPT ![p] = r] /\ (r.gone => req[p].gone)

LEMMA StatementPasses ==
    ASSUME AgentInv, NEW p \in Procs, NEW pc, NEW status, NEW d,
           \/ Answer(p, status) \/ Goto(p, pc)
           \/ req' = [req EXCEPT ![p].pc = pc, ![p].status = status]
           \/ req' = [req EXCEPT ![p].pc = pc, ![p].dev = d, ![p].secret = 1]
           \/ req' = [req EXCEPT ![p].pc = pc, ![p].row = d]
    PROVE  Passes(p)
<1>0. req[p] \in Request /\ req \in [Procs -> Request]
  BY Placed
<1> DEFINE s == [req[p] EXCEPT !.pc = "reply", !.status = status]
           t == [req[p] EXCEPT !.pc = pc]
           u == [req[p] EXCEPT !.pc = pc, !.status = status]
           v == [req[p] EXCEPT !.pc = pc, !.dev = d, !.secret = 1]
           w == [req[p] EXCEPT !.pc = pc, !.row = d]
<1>1. /\ s.gone = req[p].gone /\ t.gone = req[p].gone /\ u.gone = req[p].gone /\ v.gone = req[p].gone
      /\ w.gone = req[p].gone
  BY <1>0 DEF Request
<1>2. ~NoReq.gone
  BY DEF NoReq
<1>3. \/ req' = [req EXCEPT ![p] = NoReq] \/ req' = [req EXCEPT ![p] = s] \/ req' = [req EXCEPT ![p] = t]
      \/ req' = [req EXCEPT ![p] = u] \/ req' = [req EXCEPT ![p] = v]
      \/ req' = [req EXCEPT ![p] = w]
  BY <1>0 DEF Answer, Answered, Goto
<1> HIDE DEF s, t, u, v, w
<1> QED BY <1>1, <1>2, <1>3 DEF Passes

\* Statements that have to do with no settled flow.
LEMMA PlainSettles ==
    ASSUME SettleInv, NEW p \in Procs, Passes(p), req[p].pc \notin SettlePcs, FlowTables', UNCHANGED spent,
           \A f \in Flows : idp'[f] = "spent" /\ flows'[f].st = "row" => idp[f] = "spent" /\ flows[f].st = "row"
    PROVE  Unfailed'
<1>1. PICK r : req' = [req EXCEPT ![p] = r] /\ (r.gone => req[p].gone)
  BY DEF Passes
<1>2. \A f \in Flows : ~Settling(p, f)
  BY DEF Settling
<1> QED BY <1>1, <1>2, OneSettles

LEMMA StatementSettles ==
    ASSUME SettleInv, NEW p \in Procs, RequestStep(p), UNCHANGED spent
    PROVE  FlowTables' /\ Unfailed'
<1> USE DEF At, server
<1>0. AgentInv /\ FlowTables
  BY DEF SettleInv
<1>1. req[p] \in Request /\ req \in [Procs -> Request]
  BY <1>0, Placed
<1>2. ASSUME UNCHANGED <<flows, idp>>, req[p].pc \notin SettlePcs, Passes(p)
      PROVE  FlowTables' /\ Unfailed'
  <2>1. FlowTables'
    BY <1>0, <1>2 DEF FlowTables
  <2> QED BY <1>2, <2>1, PlainSettles
<1>3. CASE CodeGet(p) \/ CodeConflict(p) \/ CodeReread(p) \/ CodeConsume(p) \/ Rollback(p)
  <2>1. UNCHANGED <<flows, idp>> /\ req[p].pc \notin SettlePcs
    BY <1>3 DEF CodeGet, CodeConflict, CodeReread, CodeConsume, Rollback, SettlePcs
  <2>2. Passes(p)
    BY <1>0, <1>3, StatementPasses DEF CodeGet, CodeConflict, CodeReread, CodeConsume, Rollback, ToRollback
  <2> QED BY <1>2, <2>1, <2>2
<1>4. CASE CodeCreate(p)
  <2>1. UNCHANGED <<flows, idp>> /\ req[p].pc \notin SettlePcs
    BY <1>4 DEF CodeCreate, SettlePcs
  <2>2. Passes(p)
    BY <1>0, <1>4, StatementPasses DEF CodeCreate
  <2> QED BY <1>2, <2>1, <2>2
<1>5. CASE FlowStart(p) \/ FlowReread(p) \/ Checkin(p) \/ Lookup(p) \/ Fill(p) \/ Insert(p) \/ Apply(p)
  <2>1. UNCHANGED <<flows, idp>> /\ req[p].pc \notin SettlePcs
    BY <1>5 DEF FlowStart, FlowReread, Checkin, Lookup, Fill, Insert, Apply, SettlePcs
  <2>2. Passes(p)
    BY <1>0, <1>5, StatementPasses DEF FlowStart, FlowReread, Checkin, Lookup, Fill, Compare, Insert, Apply
  <2> QED BY <1>2, <2>1, <2>2
<1>6. CASE FlowCreate(p)
  <2>1. req[p].pc = "flow_create"
    BY <1>6 DEF FlowCreate
  <2>2. PICK x \in Flows : /\ flows' = [flows EXCEPT ![x] = [st |-> "row", live |-> TRUE, due |-> TRUE]]
                           /\ idp' = [idp EXCEPT ![x] = "asked"]
                           /\ req' = [req EXCEPT ![p] = Answered([req[p] EXCEPT !.arg = x], "200")]
    <3>1. \E x \in Flows : flows[x].st = "unborn"
      BY <1>6 DEF FlowCreate
    <3> DEFINE f == CHOOSE x \in Flows : flows[x].st = "unborn"
    <3>2. f \in Flows
      BY <3>1
    <3>3. /\ flows' = [flows EXCEPT ![f] = [st |-> "row", live |-> TRUE, due |-> TRUE]]
          /\ idp' = [idp EXCEPT ![f] = "asked"]
          /\ req' = [req EXCEPT ![p] = Answered([req[p] EXCEPT !.arg = f], "200")]
      BY <1>6 DEF FlowCreate, DeviceStart
    <3> HIDE DEF f
    <3> QED BY <3>2, <3>3
  <2> DEFINE r == Answered([req[p] EXCEPT !.arg = x], "200")
  <2>3. r.gone => req[p].gone
    BY <1>1 DEF Request, Answered, NoReq
  <2> HIDE DEF r
  <2>4. Passes(p)
    BY <2>2, <2>3 DEF Passes, r
  <2>5. FlowTables'
    BY <1>0, <2>2 DEF FlowTables, Flow
  <2>6. \A f \in Flows : idp'[f] = "spent" /\ flows'[f].st = "row" => idp[f] = "spent" /\ flows[f].st = "row"
    BY <1>0, <2>2 DEF FlowTables
  <2>7. req[p].pc \notin SettlePcs
    BY <2>1 DEF SettlePcs
  <2> QED BY <2>4, <2>5, <2>6, <2>7, PlainSettles
<1>7. CASE TryPoll(p)
  <2>1. req[p].pc = "flow_try" /\ UNCHANGED idp /\ \E pc : Goto(p, pc)
    BY <1>7 DEF TryPoll
  <2>2. req[p].pc \notin SettlePcs /\ req[p].arg \in Flows
    BY <1>0, <2>1, Placed DEF SettlePcs, FlowPcs
  <2>3. flows' = flows \/ flows' = [flows EXCEPT ![req[p].arg].due = FALSE]
    BY <1>7 DEF TryPoll
  <2>4. flows' \in [Flows -> Flow] /\ \A f \in Flows : flows'[f].st = flows[f].st
    <3> DEFINE x == req[p].arg
               e == [flows[x] EXCEPT !.due = FALSE]
    <3>1. flows \in [Flows -> Flow] /\ x \in Flows /\ flows[x] \in Flow
      BY <1>0, <2>2 DEF FlowTables
    <3>2. e \in Flow /\ e.st = flows[x].st
      BY <3>1 DEF Flow
    <3>3. flows' = flows \/ flows' = [flows EXCEPT ![x] = e]
      BY <2>3
    <3> HIDE DEF e, x
    <3> QED BY <3>1, <3>2, <3>3
  <2>5. FlowTables'
    BY <1>0, <2>1, <2>4 DEF FlowTables
  <2>6. Passes(p)
    BY <1>0, <2>1, StatementPasses
  <2> QED BY <2>1, <2>2, <2>4, <2>5, <2>6, PlainSettles
<1>8. CASE DevicePoll(p)
  <2>0. req[p].pc = "flow_ask" /\ UNCHANGED flows /\ req[p].pc \notin SettlePcs
    BY <1>8 DEF DevicePoll, SettlePcs
  <2>1. CASE UNCHANGED idp
    <3>1. Passes(p)
      BY <1>0, <1>8, StatementPasses DEF DevicePoll
    <3> QED BY <1>2, <2>0, <2>1, <3>1
  <2>2. CASE idp' = [idp EXCEPT ![req[p].arg] = "spent"] /\ Goto(p, "flow_login")
    <3> DEFINE r == [req[p] EXCEPT !.pc = "flow_login"]
    <3>1. req' = [req EXCEPT ![p] = r]
      BY <1>1, <2>2 DEF Goto
    <3>2. r.gone = req[p].gone /\ r.pc \in SettlePcs /\ r.arg = req[p].arg
      BY <1>1 DEF Request, SettlePcs
    <3> HIDE DEF r
    <3>3. FlowTables'
      BY <1>0, <2>0, <2>2 DEF FlowTables
    <3>4. ASSUME NEW f \in Flows, idp'[f] = "spent", f # r.arg PROVE idp[f] = "spent" /\ ~Settling(p, f)
      BY <1>0, <2>0, <2>2, <3>2, <3>4 DEF FlowTables, Settling
    <3> QED BY <2>0, <3>1, <3>2, <3>3, <3>4, OneSettles
  <2> QED BY <1>8, <2>1, <2>2 DEF DevicePoll
<1>9. CASE FlowLogin(p) \/ FlowMint(p)
  <2>0. UNCHANGED <<flows, idp>>
    BY <1>9 DEF FlowLogin, FlowMint
  <2>1. PICK r : /\ req' = [req EXCEPT ![p] = r]
                 /\ r \in {[req[p] EXCEPT !.pc = "flow_mint"],
                           [req[p] EXCEPT !.pc = "flow_delete", !.status = "401"],
                           [req[p] EXCEPT !.pc = "flow_delete", !.status = "500"],
                           [req[p] EXCEPT !.pc = "flow_delete", !.status = "200", !.dev = Len(devs) + 1, !.secret = 1]}
    BY <1>1, <1>9 DEF FlowLogin, FlowMint, Goto, AfterMintFailed
  <2>2. r.pc \in SettlePcs /\ r.arg = req[p].arg /\ r.gone = req[p].gone
    BY <1>1, <2>1 DEF Request, SettlePcs
  <2>3. FlowTables'
    BY <1>0, <2>0 DEF FlowTables
  <2>4. \A f \in Flows : idp'[f] = "spent" /\ flows'[f].st = "row" =>
          \/ r.pc \in SettlePcs /\ r.arg = f
          \/ idp[f] = "spent" /\ flows[f].st = "row" /\ ~Settling(p, f)
    BY <2>0, <2>2 DEF Settling
  <2>5. req' = [req EXCEPT ![p] = r] /\ (r.gone => req[p].gone)
    BY <2>1, <2>2
  <2> QED BY <2>3, <2>4, <2>5, OneSettles
<1>10. CASE FlowDelete(p)
  <2>0. req[p].pc = "flow_delete" /\ UNCHANGED idp /\ flows' = [flows EXCEPT ![req[p].arg].st = "gone"] /\ Answer(p, req[p].status)
    BY <1>10 DEF FlowDelete
  <2>1. req[p].arg \in Flows
    BY <1>0, <2>0, Placed DEF FlowPcs
  <2>2. /\ flows' \in [Flows -> Flow] /\ flows'[req[p].arg].st = "gone"
        /\ \A f \in Flows : f # req[p].arg => flows'[f] = flows[f]
    BY <1>0, <2>0, <2>1 DEF FlowTables, Flow
  <2>3. FlowTables'
    BY <1>0, <2>0, <2>2 DEF FlowTables
  <2>4. PICK r : req' = [req EXCEPT ![p] = r] /\ (r.gone => req[p].gone)
    BY <1>0, <2>0, StatementPasses DEF Passes
  <2>5. ASSUME NEW f \in Flows, idp'[f] = "spent", flows'[f].st = "row"
        PROVE  idp[f] = "spent" /\ flows[f].st = "row" /\ ~Settling(p, f)
    BY <2>0, <2>2, <2>5 DEF Settling
  <2> QED BY <2>3, <2>4, <2>5, OneSettles
<1> QED BY <1>3, <1>4, <1>5, <1>6, <1>7, <1>8, <1>9, <1>10 DEF RequestStep

\* Steps that leave the requests alone.
LEMMA RestSettles ==
    ASSUME SettleInv, FlowTables', UNCHANGED req, spent'.faults = spent.faults,
           \A f \in Flows : idp'[f] = "spent" /\ flows'[f].st = "row" => idp[f] = "spent" /\ flows[f].st = "row"
    PROVE  Unfailed'
BY DEF SettleInv, Unfailed, Settling

\* A fault is the end of the promise.
LEMMA FaultSettles ==
    ASSUME SettleInv, Fault
    PROVE  spent' \in [faults : Nat, owner : Nat, runs : Nat] /\ Unfailed'
<1>1. spent \in [faults : Nat, owner : Nat, runs : Nat] /\ spent' = [spent EXCEPT !.faults = spent.faults + 1]
  BY DEF SettleInv, FlowTables, Fault
<1>2. spent.faults \in Nat
  BY <1>1
<1>3. spent' \in [faults : Nat, owner : Nat, runs : Nat] /\ spent'.faults = spent.faults + 1
  BY <1>1, <1>2
<1>4. spent'.faults # 0
  BY <1>2, <1>3
<1> QED BY <1>3, <1>4 DEF Unfailed

LEMMA LostExchangeTyped ==
    ASSUME AgentInv, FlowTables, NEW p \in Procs, LostExchange(p)
    PROVE  idp' \in [Flows -> {None, "asked", "approved", "denied", "spent"}]
BY DEF LostExchange, FlowTables

\* Time, the provider, the owner, and what fails.
LEMMA WorldSettles ==
    ASSUME SettleInv, World
    PROVE  FlowTables' /\ Unfailed'
<1>0. FlowTables /\ AgentInv
  BY DEF SettleInv
<1>1. ASSUME NEW p \in Procs, Fail(p) \/ RollbackFails(p) PROVE FlowTables' /\ Unfailed'
  <2>1. Fault /\ UNCHANGED flows /\ (UNCHANGED idp \/ LostExchange(p))
    BY <1>1 DEF Fail, RollbackFails
  <2>2. idp' \in [Flows -> {None, "asked", "approved", "denied", "spent"}]
    BY <1>0, <2>1, LostExchangeTyped DEF FlowTables
  <2> QED BY <1>0, <2>1, <2>2, FaultSettles DEF FlowTables
<1>2. CASE Restart
  <2>1. Fault /\ UNCHANGED <<flows, idp>>
    BY <1>2 DEF Restart
  <2> QED BY <1>0, <2>1, FaultSettles DEF FlowTables
<1>3. CASE Discovered
  <2>1. UNCHANGED <<flows, idp, req, spent>>
    BY <1>3 DEF Discovered
  <2>2. FlowTables'
    BY <1>0, <2>1 DEF FlowTables
  <2> QED BY <2>1, <2>2, RestSettles
<1>4. CASE Owns
  <2>1. Owner
    BY <1>4 DEF Owns, PageMintCode, ApiMintCode, Rename, SetEnabled, RotateSecret, Delete
  <2>2. UNCHANGED <<flows, idp, req>> /\ spent' = [spent EXCEPT !.owner = spent.owner + 1]
    BY <2>1 DEF Owner
  <2>3. spent' \in [faults : Nat, owner : Nat, runs : Nat] /\ spent'.faults = spent.faults
    BY <1>0, <2>2 DEF FlowTables
  <2>4. FlowTables'
    BY <1>0, <2>2, <2>3 DEF FlowTables
  <2> QED BY <2>2, <2>3, <2>4, RestSettles
<1>5. ASSUME NEW x \in Flows, Decide(x) PROVE FlowTables' /\ Unfailed'
  <2>1. UNCHANGED <<flows, req, spent>> /\ \E s \in {"approved", "denied"} : idp' = [idp EXCEPT ![x] = s]
    BY <1>5 DEF Decide
  <2>2. FlowTables'
    BY <1>0, <2>1 DEF FlowTables
  <2>3. \A f \in Flows : idp'[f] = "spent" => idp[f] = "spent"
    BY <1>0, <2>1 DEF FlowTables
  <2> QED BY <2>1, <2>2, <2>3, RestSettles
<1>6. ASSUME NEW x \in Flows, FlowTime(x) PROVE FlowTables' /\ Unfailed'
  <2>1. UNCHANGED <<idp, req, spent>>
    BY <1>6 DEF FlowTime
  <2>2. \/ flows' = [flows EXCEPT ![x].due = TRUE] \/ flows' = [flows EXCEPT ![x].live = FALSE]
        \/ flows' = [flows EXCEPT ![x].st = "gone"]
    BY <1>6 DEF FlowTime, Due, ExpireFlow, PruneFlow
  <2>3. flows' \in [Flows -> Flow] /\ \A f \in Flows : flows'[f].st = "row" => flows[f].st = "row"
    <3> DEFINE due == [flows[x] EXCEPT !.due = TRUE]
               late == [flows[x] EXCEPT !.live = FALSE]
               gone == [flows[x] EXCEPT !.st = "gone"]
    <3>1. flows \in [Flows -> Flow] /\ flows[x] \in Flow
      BY <1>0 DEF FlowTables
    <3>2. /\ due \in Flow /\ due.st = flows[x].st /\ late \in Flow /\ late.st = flows[x].st
          /\ gone \in Flow /\ gone.st = "gone"
      BY <3>1 DEF Flow
    <3>3. flows' = [flows EXCEPT ![x] = due] \/ flows' = [flows EXCEPT ![x] = late] \/ flows' = [flows EXCEPT ![x] = gone]
      BY <2>2
    <3> HIDE DEF due, late, gone
    <3> QED BY <3>1, <3>2, <3>3
  <2>4. FlowTables'
    BY <1>0, <2>1, <2>3 DEF FlowTables
  <2> QED BY <2>1, <2>3, <2>4, RestSettles
<1>7. ASSUME NEW c \in Codes, CodeTime(c) PROVE FlowTables' /\ Unfailed'
  <2>1. UNCHANGED <<flows, idp, req, spent>>
    BY <1>7 DEF CodeTime
  <2>2. FlowTables'
    BY <1>0, <2>1 DEF FlowTables
  <2> QED BY <2>1, <2>2, RestSettles
<1>8. ASSUME NEW d \in 1..Len(devs), Invalidate(d) PROVE FlowTables' /\ Unfailed'
  <2>1. UNCHANGED <<flows, idp, req, spent>>
    BY <1>8 DEF Invalidate
  <2>2. FlowTables'
    BY <1>0, <2>1 DEF FlowTables
  <2> QED BY <2>1, <2>2, RestSettles
<1> QED BY <1>1, <1>2, <1>3, <1>4, <1>5, <1>6, <1>7, <1>8 DEF World

\* Nobody has hung up, so no statement is cancelled.
LEMMA CancelledSettles ==
    ASSUME SettleInv, NEW p \in Procs, Cancelled(p)
    PROVE  FlowTables' /\ Unfailed'
<1>1. AgentInv /\ FlowTables /\ req[p].gone /\ UNCHANGED <<spent, flows>> /\ LostExchange(p)
  BY DEF SettleInv, Cancelled, Quiet
<1>2. FlowTables'
  BY <1>1, LostExchangeTyped DEF FlowTables
<1>3. spent.faults # 0
  BY <1>1 DEF SettleInv, Unfailed
<1> QED BY <1>1, <1>2, <1>3 DEF Unfailed

LEMMA AgentSettles ==
    ASSUME SettleInv, NEW a \in Agents, Launch(a) \/ AgentStep(a) \/ GiveUp(a) \/ Kill(a)
    PROVE  FlowTables' /\ Unfailed'
<1>0. FlowTables /\ AgentInv /\ Clients /\ Waits /\ req \in [Procs -> Request]
  BY DEF SettleInv, AgentInv, Clients, Requests
<1>1. UNCHANGED <<flows, idp>>
  BY DEF Launch, AgentStep, GiveUp, Kill, LoadEnroll, LoadRun, Capabilities, Send, Receive, Broken, Sleep, SaveStat,
         SavePublish, Discover, TallyNext, TallyEnd, Rest, Local
<1>2. CASE Fault
  BY <1>0, <1>1, <1>2, FaultSettles DEF FlowTables
<1>3. CASE Launch(a)
  <2>1. UNCHANGED req /\ spent' = [spent EXCEPT !.runs = spent.runs + 1]
    BY <1>3 DEF Launch
  <2>2. spent' \in [faults : Nat, owner : Nat, runs : Nat] /\ spent'.faults = spent.faults
    BY <1>0, <2>1 DEF FlowTables
  <2>3. FlowTables'
    BY <1>0, <1>1, <2>2 DEF FlowTables
  <2> QED BY <1>1, <2>1, <2>2, <2>3, RestSettles
<1>4. CASE UNCHANGED <<req, spent>>
  <2>1. FlowTables'
    BY <1>0, <1>1, <1>4 DEF FlowTables
  <2> QED BY <1>1, <1>4, <2>1, RestSettles
<1>5. CASE Send(a)
  <2>1. PICK p \in Procs :
          /\ req[p].pc = "idle"
          /\ req' = [req EXCEPT ![p] = [NoReq EXCEPT !.op = ag[a].pc, !.pc = FirstStatement(ag[a].pc), !.arg = ag[a].arg,
                                                     !.dev = ag[a].cred.dev, !.secret = ag[a].cred.secret]]
    BY <1>5 DEF Send, At
  <2> DEFINE r == [NoReq EXCEPT !.op = ag[a].pc, !.pc = FirstStatement(ag[a].pc), !.arg = ag[a].arg,
                                !.dev = ag[a].cred.dev, !.secret = ag[a].cred.secret]
  <2>2. ~r.gone
    BY DEF NoReq
  <2> HIDE DEF r
  <2>3. Passes(p)
    BY <2>1, <2>2 DEF Passes, r
  <2>4. req[p].pc \notin SettlePcs /\ UNCHANGED spent
    BY <1>5, <2>1 DEF SettlePcs, Send
  <2>5. FlowTables'
    BY <1>0, <1>1, <2>4 DEF FlowTables
  <2> QED BY <1>1, <2>3, <2>4, <2>5, PlainSettles
<1>6. CASE Receive(a) \/ Broken(a)
  <2>1. /\ ag[a].proc \in Procs /\ req[ag[a].proc].pc \in {"reply", "dropped"} /\ UNCHANGED spent
        /\ req' = [req EXCEPT ![ag[a].proc] = NoReq]
    BY <1>0, <1>6 DEF Receive, Broken, In, Waits
  <2>2. req[ag[a].proc].pc \notin SettlePcs
    BY <2>1 DEF SettlePcs
  <2>3. ~NoReq.gone
    BY DEF NoReq
  <2>4. Passes(ag[a].proc)
    BY <2>1, <2>3 DEF Passes
  <2>5. FlowTables'
    BY <1>0, <1>1, <2>1 DEF FlowTables
  <2> QED BY <1>1, <2>1, <2>2, <2>4, <2>5, PlainSettles
<1>7. Fault \/ Launch(a) \/ Send(a) \/ Receive(a) \/ Broken(a) \/ UNCHANGED <<req, spent>>
  BY DEF AgentStep, GiveUp, Kill, LoadEnroll, LoadRun, Capabilities, Sleep, SaveStat, SavePublish, Discover, TallyNext, TallyEnd, Rest,
         Local, Quiet
<1> QED BY <1>2, <1>3, <1>4, <1>5, <1>6, <1>7

(***************************************************************************)
(* Until a statement or a connection fails, the row of a flow the provider *)
(* has settled is deleted, or a request is at work that will delete it     *)
(* (completeOIDCDevice).                                                   *)
(***************************************************************************)
THEOREM SpentFlowsGoneAlways == Spec => []SpentFlowsGone
<1>1. Init => SettleInv
  <2> SUFFICES ASSUME Init PROVE FlowTables /\ Unfailed
    BY AgentInvInit DEF SettleInv
  <2>1. /\ flows = [f \in Flows |-> [st |-> "unborn", live |-> TRUE, due |-> FALSE]]
        /\ idp = [f \in Flows |-> None] /\ spent = [faults |-> 0, owner |-> 0, runs |-> 0]
        /\ req = [p \in Procs |-> NoReq]
    BY DEF Init
  <2>2. FlowTables
    BY <2>1 DEF FlowTables, Flow
  <2>3. (\A p \in Procs : ~req[p].gone) /\ \A f \in Flows : flows[f].st # "row"
    BY <2>1 DEF NoReq
  <2> QED BY <2>2, <2>3 DEF Unfailed
<1>2. SettleInv /\ [Next]_vars => SettleInv'
  <2> SUFFICES ASSUME SettleInv, [Next]_vars PROVE FlowTables' /\ Unfailed'
    BY AgentInvNext DEF SettleInv
  <2>1. CASE UNCHANGED vars
    <3>1. FlowTables'
      BY <2>1 DEF SettleInv, FlowTables, vars
    <3> QED BY <2>1, <3>1, RestSettles DEF vars
  <2>2. CASE World
    BY <2>2, WorldSettles
  <2>3. ASSUME NEW p \in Procs, ServerStep(p) PROVE FlowTables' /\ Unfailed'
    BY <2>3, StatementSettles, CancelledSettles DEF ServerStep, Quiet
  <2>4. ASSUME NEW a \in Agents, Launch(a) \/ AgentStep(a) \/ GiveUp(a) \/ Kill(a) PROVE FlowTables' /\ Unfailed'
    BY <2>4, AgentSettles
  <2> QED BY <2>1, <2>2, <2>3, <2>4 DEF Next
<1>3. SettleInv => SpentFlowsGone
  BY DEF SettleInv, Unfailed, SpentFlowsGone, Settling, SettlePcs, Working
<1> QED BY <1>1, <1>2, <1>3, PTL DEF Spec

(***************************************************************************)
(* Credentials on disk are replaced only by a command run with --force     *)
(* (credentials.Save: Rename if forced, else Link).                        *)
(***************************************************************************)
THEOREM FileKeptAlways == Spec => FileKept
<1> DEFINE Forced == \E a \in Agents : In(a, "publish") /\ ag[a].force /\ file' = ag[a].cred /\ ag'[a].end = "saved"
<1>1. AgentInv /\ [Next]_vars => (file # NoCred /\ file' # file => Forced)
  <2> SUFFICES ASSUME AgentInv, [Next]_vars, file # NoCred, file' # file PROVE Forced
    OBVIOUS
  <2>1. PICK a \in Agents : SavePublish(a)
    BY DEF Next, vars, Launch, AgentStep, GiveUp, Kill, LoadEnroll, LoadRun, Capabilities, Send, Receive, Broken, Sleep,
           SaveStat, Discover, TallyNext, TallyEnd, Rest
  <2>2. In(a, "publish") /\ ag[a].force /\ file' = ag[a].cred /\ ag' = [ag EXCEPT ![a] = [NoAgent EXCEPT !.end = "saved"]]
    BY <2>1 DEF SavePublish, Replaces, Exit, Exited, Becomes
  <2>3. ag'[a] = [NoAgent EXCEPT !.end = "saved"]
    BY <2>2 DEF AgentInv, Clients
  <2>4. ag'[a].end = "saved"
    BY <2>3 DEF NoAgent
  <2> QED BY <2>2, <2>4
<1> QED BY <1>1, AgentInvInit, AgentInvNext, PTL DEF Spec, FileKept

-----------------------------------------------------------------------------
(* Discovery *)

Tallies == [counts : [Known -> Nat], left : SUBSET Known, top : Nat, winner : Known \cup {None}, tie : BOOLEAN]

\* What the loop knows of the addresses it has met, or need not meet: none has
\* more than top, the winner has top, and without a tie nobody else has.
Leads(t) ==
    /\ t \in Tallies
    /\ \A x \in Known \ t.left : t.counts[x] <= t.top
    /\ t.top > 0 => t.winner \in Known \ t.left /\ t.counts[t.winner] = t.top
    /\ t.top > 0 /\ ~t.tie => \A x \in Known \ (t.left \cup {t.winner}) : t.counts[x] < t.top

Wins(t) ==
    /\ t.winner \in Known /\ t.counts[t.winner] >= Quorum
    /\ \A x \in Known \ {t.winner} : t.counts[x] < t.counts[t.winner]

\* Before the first address.
LEMMA CountsLead ==
    ASSUME NEW answers
    PROVE  LET n == Count(answers) IN Leads([NoTally EXCEPT !.counts = n, !.left = Heard(n)])
<1> DEFINE n == Count(answers)
           t == [NoTally EXCEPT !.counts = n, !.left = Heard(n)]
<1>1. ASSUME NEW x \in Known PROVE Cardinality({p \in Providers : answers[p] = x}) \in Nat
  <2> DEFINE T == {p \in Providers : answers[p] = x}
  <2>1. IsFiniteSet(Providers) /\ T \subseteq Providers
    BY QuorumAssumption
  <2> HIDE DEF T
  <2>2. IsFiniteSet(T)
    BY <2>1, FS_Subset
  <2>3. Cardinality(T) \in Nat
    BY <2>2, FS_CardinalityType
  <2> QED BY <2>3 DEF T
<1>2. n \in [Known -> Nat]
  BY <1>1 DEF Count
<1> HIDE DEF n
<1>3. Heard(n) \subseteq Known /\ \A x \in Known \ Heard(n) : n[x] = 0
  BY <1>2 DEF Heard
<1>4. t.counts = n /\ t.left = Heard(n) /\ t.top = 0 /\ t \in Tallies
  BY <1>2, <1>3 DEF NoTally, Tallies
<1> HIDE DEF t
<1>5. Leads(t)
  BY <1>3, <1>4 DEF Leads
<1> QED BY <1>5 DEF t, n

\* One more address.
LEMMA MetLeads ==
    ASSUME NEW t, Leads(t), NEW x \in t.left
    PROVE  Leads(Met(t, x))
<1> DEFINE n == t.counts[x]
           rest == [t EXCEPT !.left = t.left \ {x}]
           better == [rest EXCEPT !.top = n, !.winner = x, !.tie = FALSE]
           tied == [rest EXCEPT !.tie = TRUE]
<1>1. t \in Tallies /\ x \in Known /\ n \in Nat /\ t.top \in Nat /\ t.left \subseteq Known
  BY DEF Leads, Tallies
<1>2. /\ rest \in Tallies /\ rest.left = t.left \ {x} /\ rest.counts = t.counts /\ rest.top = t.top
      /\ rest.winner = t.winner /\ rest.tie = t.tie
  BY <1>1 DEF Tallies
<1>3. /\ better \in Tallies /\ better.left = t.left \ {x} /\ better.counts = t.counts /\ better.top = n
      /\ better.winner = x /\ better.tie = FALSE
  BY <1>1 DEF Tallies
<1>4. /\ tied \in Tallies /\ tied.left = t.left \ {x} /\ tied.counts = t.counts /\ tied.top = t.top
      /\ tied.winner = t.winner /\ tied.tie = TRUE
  BY <1>1 DEF Tallies
<1>5. Met(t, x) = IF n > t.top THEN better ELSE IF n = t.top THEN tied ELSE rest
  BY DEF Met, Better
<1> HIDE DEF n, rest, better, tied
<1>6. /\ \A y \in Known \ (t.left \ {x}) : y = x \/ y \in Known \ t.left
      /\ \A y \in Known : t.counts[y] \in Nat
      /\ n = t.counts[x]
  BY <1>1 DEF Tallies, n
<1>7. CASE n > t.top
  <2>1. \A y \in Known \ t.left : t.counts[y] < n
    BY <1>1, <1>6, <1>7 DEF Leads
  <2>2. Leads(better)
    BY <1>1, <1>3, <1>6, <1>7, <2>1 DEF Leads
  <2> QED BY <1>5, <1>7, <2>2
<1>8. CASE n = t.top
  <2>1. tied \in Tallies
    BY <1>4
  <2>2. \A y \in Known \ tied.left : tied.counts[y] <= tied.top
    <3>1. \A y \in Known \ t.left : t.counts[y] <= t.top
      BY DEF Leads
    <3>2. ASSUME NEW y \in Known \ tied.left PROVE t.counts[y] <= t.top
      <4>1. y = x \/ y \in Known \ t.left
        BY <1>4, <1>6
      <4>2. CASE y = x
        <5>1. t.counts[y] = t.top
          BY <1>6, <1>8, <4>2
        <5> QED BY <1>1, <5>1
      <4> QED BY <3>1, <4>1, <4>2
    <3> QED BY <1>4, <3>2
  <2>3. tied.top > 0 => tied.winner \in Known \ tied.left /\ tied.counts[tied.winner] = tied.top
    BY <1>4 DEF Leads
  <2>4. Leads(tied)
    BY <1>4, <2>1, <2>2, <2>3 DEF Leads
  <2> QED BY <1>1, <1>5, <1>8, <2>4
<1>9. CASE n < t.top
  <2>1. Leads(rest)
    BY <1>1, <1>2, <1>6, <1>9 DEF Leads
  <2> QED BY <1>1, <1>5, <1>9, <2>1
<1> QED BY <1>1, <1>7, <1>8, <1>9

\* After the last.
LEMMA LeaderWins ==
    ASSUME NEW t, Leads(t), t.left = {}, t.top >= Quorum, ~t.tie
    PROVE  Wins(t)
<1>1. Quorum \in Nat /\ Quorum > 0 /\ t.top \in Nat
  <2>1. IsFiniteSet(Providers)
    BY QuorumAssumption
  <2>2. Cardinality(Providers) \in Nat
    BY <2>1, FS_CardinalityType
  <2> QED BY <2>2, QuorumAssumption DEF Leads, Tallies
<1> QED BY <1>1 DEF Leads, Wins

\* A process at work on its counts leads, one that reports has won.
Lawful(r) == (r.pc = "tally" => Leads(r.tally)) /\ (r.pc = "report" => Wins(r.tally))

LEMMA CycleRests ==
    ASSUME NEW r, Process(r), NEW status
    PROVE  AfterCycle(r, status).pc \notin {"tally", "report"}
<1> DEFINE t == [r EXCEPT !.pc = "rest", !.bad = Strikes(r, status)]
<1>1. t.pc = "rest"
  BY DEF Process, Shape
<1>2. AfterCycle(r, status) = t \/ \E why : AfterCycle(r, status) = Exited(r, why)
  BY DEF AfterCycle
<1> QED BY <1>1, <1>2, ExitedProcess

LEMMA AfterRests ==
    ASSUME NEW r, Process(r), NEW op \in {"code", "start", "poll", "report"}, NEW status, NEW cred
    PROVE  After(r, op, status, cred).pc \notin {"tally", "report"}
<1> DEFINE n == [r EXCEPT !.proc = None]
           s == After(r, op, status, cred)
<1> SUFFICES s.pc \notin {"tally", "report"}
  OBVIOUS
<1>1. r \in Shape(r.tally, r.end)
  BY DEF Process
<1>2. n \in Shape(n.tally, n.end) /\ Process(n)
  <2>1. n \in Shape(n.tally, n.end) /\ n.arg = r.arg /\ n.pc = r.pc /\ n.cmd = r.cmd
    BY <1>1 DEF Shape
  <2> HIDE DEF n
  <2> QED BY <2>1 DEF Process
<1>3. \A why : Exited(n, why).pc \notin {"tally", "report"}
  BY ExitedProcess
<1>4. /\ op = "code" => s = AfterCode(n, status, cred)
      /\ op = "start" => s = AfterStart(n, status, cred)
      /\ op = "poll" => s = AfterPoll(n, status, cred)
      /\ op = "report" => s = AfterCycle(n, status)
  BY DEF After
<1> HIDE DEF n, s
<1>5. CASE op \in {"code", "start"}
  BY <1>2, <1>3, <1>4, <1>5 DEF AfterCode, AfterStart, Shape
<1>6. CASE op = "poll"
  <2>1. \/ s = [n EXCEPT !.pc = "stat", !.cred = cred]
        \/ \E g : s = [n EXCEPT !.pc = "sleep", !.gw = g]
        \/ s = Exited(n, "failed")
    BY <1>4, <1>6 DEF AfterPoll
  <2> QED BY <1>2, <1>3, <2>1 DEF Shape
<1>7. CASE op = "report"
  BY <1>2, <1>4, <1>7, CycleRests
<1> QED BY <1>5, <1>6, <1>7

\* A step of a process keeps it lawful.
LEMMA StepsLawful ==
    ASSUME AgentInv, NEW a \in Agents, Lawful(ag[a]), Launch(a) \/ AgentStep(a) \/ GiveUp(a) \/ Kill(a)
    PROVE  \E r : ag' = [ag EXCEPT ![a] = r] /\ Lawful(r)
<1>0. Process(ag[a]) /\ ag[a] \in Shape(ag[a].tally, ag[a].end)
  BY DEF AgentInv, Clients, Process
<1> DEFINE Goal == \E r : ag' = [ag EXCEPT ![a] = r] /\ Lawful(r)
<1>1. ASSUME NEW r, r.pc \notin {"tally", "report"}, ag' = [ag EXCEPT ![a] = r] PROVE Goal
  BY <1>1 DEF Lawful
<1>2. ASSUME NEW why, Exit(a, why) PROVE Goal
  <2>1. Exited(ag[a], why).pc = "idle"
    BY ExitedProcess
  <2> QED BY <1>1, <1>2, <2>1 DEF Exit, Becomes
<1>3. ASSUME NEW pc, pc \notin {"tally", "report"}, Turns(a, pc) PROVE Goal
  <2>1. [ag[a] EXCEPT !.pc = pc].pc = pc
    BY <1>0 DEF Shape
  <2> QED BY <1>1, <1>3, <2>1 DEF Turns, Becomes
<1>4. CASE Launch(a)
  <2>1. PICK c :
          ag' = [ag EXCEPT ![a] = [NoAgent EXCEPT !.pc = "load", !.cmd = c.cmd, !.force = c.force, !.arg = c.arg]]
    BY <1>4 DEF Launch, Becomes
  <2>2. [NoAgent EXCEPT !.pc = "load", !.cmd = c.cmd, !.force = c.force, !.arg = c.arg].pc = "load"
    BY DEF NoAgent
  <2> QED BY <1>1, <2>1, <2>2
<1>5. CASE LoadEnroll(a) \/ Capabilities(a) \/ Sleep(a) \/ SaveStat(a) \/ SavePublish(a) \/ Rest(a) \/ Kill(a)
  <2>1. (\E why : Exit(a, why)) \/ \E pc \in {"code", "caps", "start", "poll", "publish", "discover"} : Turns(a, pc)
    BY <1>5 DEF LoadEnroll, Capabilities, Sleep, SaveStat, SavePublish, Rest, Kill
  <2> QED BY <1>2, <1>3, <2>1
<1>6. CASE LoadRun(a)
  <2>1. [ag[a] EXCEPT !.pc = "discover", !.cred = file].pc = "discover"
    BY <1>0 DEF Shape
  <2> QED BY <1>1, <1>2, <1>6, <2>1 DEF LoadRun, Becomes
<1>7. CASE Send(a)
  <2>1. PICK p : ag' = [ag EXCEPT ![a] = [ag[a] EXCEPT !.pc = "wait", !.proc = p, !.tally = NoTally]]
    BY <1>7 DEF Send, Becomes
  <2>2. [ag[a] EXCEPT !.pc = "wait", !.proc = p, !.tally = NoTally].pc = "wait"
    BY <1>0 DEF Shape
  <2> QED BY <1>1, <2>1, <2>2
<1>8. CASE Receive(a) \/ Broken(a) \/ GiveUp(a)
  <2>0. ag[a].pc = "wait"
    BY <1>8 DEF Receive, Broken, GiveUp, In
  <2>1. ag[a].proc \in Procs /\ req[ag[a].proc].op # None
    BY <2>0 DEF AgentInv, Clients, Waits
  <2>2. req[ag[a].proc].op \in {"code", "start", "poll", "report"}
    BY <2>1, Placed DEF Request
  <2>3. \E status, cred : ag' = [ag EXCEPT ![a] = After(ag[a], req[ag[a].proc].op, status, cred)]
    BY <1>8 DEF Receive, Broken, GiveUp, Becomes
  <2>4. PICK status, cred : ag' = [ag EXCEPT ![a] = After(ag[a], req[ag[a].proc].op, status, cred)]
    BY <2>3
  <2>5. After(ag[a], req[ag[a].proc].op, status, cred).pc \notin {"tally", "report"}
    BY <1>0, <2>2, AfterRests
  <2> QED BY <1>1, <2>4, <2>5
<1>9. CASE Discover(a)
  <2>1. PICK answers \in Answers :
          ag' = [ag EXCEPT ![a] = [ag[a] EXCEPT !.pc = "tally",
                                                !.tally = [NoTally EXCEPT !.counts = Count(answers), !.left = Heard(Count(answers))]]]
    BY <1>9 DEF Discover, Becomes
  <2> DEFINE t == [NoTally EXCEPT !.counts = Count(answers), !.left = Heard(Count(answers))]
             r == [ag[a] EXCEPT !.pc = "tally", !.tally = t]
  <2>2. Leads(t)
    BY CountsLead
  <2>3. ag' = [ag EXCEPT ![a] = r]
    BY <2>1
  <2> HIDE DEF t
  <2>4. r.pc = "tally" /\ r.tally = t
    BY <1>0 DEF Shape
  <2> HIDE DEF r
  <2> QED BY <2>2, <2>3, <2>4 DEF Lawful
<1>10. CASE TallyNext(a)
  <2>1. PICK x \in ag[a].tally.left : ag' = [ag EXCEPT ![a] = [ag[a] EXCEPT !.tally = Met(ag[a].tally, x)]]
    BY <1>10 DEF TallyNext, Becomes
  <2> DEFINE t == Met(ag[a].tally, x)
             r == [ag[a] EXCEPT !.tally = t]
  <2>2. ag[a].pc = "tally" /\ Leads(ag[a].tally)
    BY <1>10 DEF TallyNext, In, Lawful
  <2>3. Leads(t)
    BY <2>2, MetLeads
  <2>4. ag' = [ag EXCEPT ![a] = r]
    BY <2>1
  <2> HIDE DEF t
  <2>5. r.pc = "tally" /\ r.tally = t
    BY <1>0, <2>2 DEF Shape
  <2> HIDE DEF r
  <2> QED BY <2>3, <2>4, <2>5 DEF Lawful
<1>11. CASE TallyEnd(a)
  <2>0. ag[a].pc = "tally" /\ Leads(ag[a].tally) /\ ag[a].tally.left = {}
    BY <1>11 DEF TallyEnd, In, Lawful
  <2>1. CASE ag[a].tally.top >= Quorum /\ ~ag[a].tally.tie /\ Turns(a, "report")
    <3> DEFINE r == [ag[a] EXCEPT !.pc = "report"]
    <3>1. Wins(ag[a].tally)
      BY <2>0, <2>1, LeaderWins
    <3>2. r.pc = "report" /\ r.tally = ag[a].tally
      BY <1>0 DEF Shape
    <3>3. ag' = [ag EXCEPT ![a] = r]
      BY <2>1 DEF Turns, Becomes
    <3> HIDE DEF r
    <3> QED BY <3>1, <3>2, <3>3 DEF Lawful
  <2>2. CASE Becomes(a, AfterCycle([ag[a] EXCEPT !.tally = NoTally], "no_quorum"))
    <3> DEFINE r == [ag[a] EXCEPT !.tally = NoTally]
    <3>1. r \in Shape(r.tally, r.end) /\ r.pc = "tally"
      BY <1>0, <2>0 DEF Shape
    <3>2. ag' = [ag EXCEPT ![a] = AfterCycle(r, "no_quorum")]
      BY <2>2 DEF Becomes
    <3> HIDE DEF r
    <3>3. Process(r)
      BY <3>1 DEF Process
    <3>4. AfterCycle(r, "no_quorum").pc \notin {"tally", "report"}
      BY <3>3, CycleRests
    <3> QED BY <1>1, <3>2, <3>4
  <2> QED BY <1>11, <2>1, <2>2 DEF TallyEnd
<1> QED BY <1>4, <1>5, <1>6, <1>7, <1>8, <1>9, <1>10, <1>11 DEF AgentStep

(***************************************************************************)
(* Whatever the providers say, however many addresses they split over, and *)
(* in whatever order Go reads the map of counts, the address of a report   *)
(* has a quorum behind it and strictly more votes than any other address   *)
(* (discoverFamily), for any finite set of providers, any addresses and    *)
(* any quorum NewDiscoverer accepts.                                       *)
(***************************************************************************)
THEOREM QuorumSoundAlways == Spec => []QuorumSound
<1> DEFINE AllLawful == \A a \in Agents : Lawful(ag[a])
<1>1. Init => AllLawful
  BY NoAgentProcess DEF Init, Lawful
<1>2. AgentInv /\ AllLawful /\ [Next]_vars => AllLawful'
  <2> SUFFICES ASSUME AgentInv, AllLawful, [Next]_vars PROVE AllLawful'
    OBVIOUS
  <2>1. CASE UNCHANGED ag
    BY <2>1
  <2>2. ASSUME NEW a \in Agents, Launch(a) \/ AgentStep(a) \/ GiveUp(a) \/ Kill(a)
        PROVE  AllLawful'
    <3>1. PICK r : ag' = [ag EXCEPT ![a] = r] /\ Lawful(r)
      BY <2>2, StepsLawful
    <3>2. ag'[a] = r /\ \A b \in Agents \ {a} : ag'[b] = ag[b]
      BY <3>1 DEF AgentInv, Clients
    <3> QED BY <3>1, <3>2
  <2> QED BY <2>1, <2>2 DEF Next, vars
<1>3. AllLawful => QuorumSound
  BY DEF Lawful, Wins, QuorumSound, In
<1> QED BY <1>1, <1>2, <1>3, AgentInvInit, AgentInvNext, PTL DEF Spec
=============================================================================
