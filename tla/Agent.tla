------------------------------- MODULE Agent --------------------------------
(***************************************************************************)
(* diyddns-client against the server of Enrollment: `enroll` with a code   *)
(* or with the device flow (cmd/diyddns-client/enroll.go, client/enroll),  *)
(* the credentials file (client/credentials), and `run`: discovery by      *)
(* quorum, signed check-ins and the polling loop (client/ipdiscovery,      *)
(* client/checkin, client/poller).                                         *)
(*                                                                         *)
(* The agents are processes on one host and share its credentials file.    *)
(* Sleeps are of any length: intervals and backoffs are left out, so every *)
(* order they allow is a behaviour.                                        *)
(***************************************************************************)
EXTENDS Enrollment

CONSTANTS
    Agents,     \* client processes
    Providers,  \* lookup providers of one address family
    Elsewhere,  \* addresses of that family other than the host's
    Quorum      \* how many of them must agree

\* NewDiscoverer refuses anything else.
ASSUME QuorumAssumption == IsFiniteSet(Providers) /\ Quorum \in 1..Cardinality(Providers) /\ None \notin Elsewhere

\* The host's address and the others.
Known == {"own"} \cup Elsewhere

Credentials == [dev : Nat, secret : Nat]
Command == [cmd : {"code", "oidc", "run", "once"}, force : BOOLEAN, arg : Codes \cup {None}]

\* A situation begins with tables the server can have: a code that has not been
\* redeemed names no device, and a device of a code is the one the code names.
ASSUME SceneAssumption ==
    /\ Codes \cap Flows = {} /\ DeviceLabel \in Labels
    /\ \A n \in DOMAIN Scenes :
         LET s == Scenes[n] IN
         /\ s.codes \in [Codes -> Code] /\ s.devs \in Seq(Device) /\ s.file \in Credentials
         /\ \A c \in Codes : s.codes[c].st \in {"unminted", "unused"} => s.codes[c].dev = 0
         /\ \A d \in 1..Len(s.devs) : s.devs[d].st = "row" /\ s.devs[d].from \in Codes /\ ~s.devs[d].lost =>
              s.codes[s.devs[d].from].dev = d
         /\ s.commands \subseteq Command /\ \A c \in s.commands : c.cmd = "code" => c.arg \in Codes
         /\ s.labels \subseteq Labels /\ s.says \subseteq Known \cup {None}

VARIABLES
    ag,    \* the agents
    file   \* credentials.json: device and secret, or NoCred

vars == <<codes, devs, flows, idp, ready, req, spent, scene, ag, file>>

NoCred == [dev |-> 0, secret |-> 0]

\* discoverFamily's variables: counts, what is left of the loop over them, and
\* the loop's top, winner and tie.
NoTally == [counts |-> [x \in Known |-> 0], left |-> {}, top |-> 0, winner |-> None, tie |-> FALSE]

\* cmd: what was typed; proc: the request waited for; cred: the credential held;
\* bad: consecutive 401s; gw: consecutive 502s; tally: the discovery at work.
NoAgent == [pc |-> "idle", cmd |-> None, force |-> FALSE, arg |-> None, proc |-> None, cred |-> NoCred,
            bad |-> 0, gw |-> 0, tally |-> NoTally, end |-> None]

unauthorizedLimit == 3
maxConsecutiveBadGateway == 3

-----------------------------------------------------------------------------
(* A step of an agent *)

In(a, pc) == ag[a].pc = pc
Local == UNCHANGED <<codes, devs, flows, idp, ready, req, spent>>
Becomes(a, r) == ag' = [ag EXCEPT ![a] = r]
Turns(a, pc) == Becomes(a, [ag[a] EXCEPT !.pc = pc])

\* The command ends; "end" says how.
Exited(r, why) == [NoAgent EXCEPT !.end = why]
Exit(a, why) == Becomes(a, Exited(ag[a], why))

\* The operator starts a command.
Launch(a) ==
    /\ In(a, "idle") /\ spent.runs < S.runs
    /\ \E c \in S.commands :
         Becomes(a, [NoAgent EXCEPT !.pc = "load", !.cmd = c.cmd, !.force = c.force, !.arg = c.arg])
    /\ spent' = [spent EXCEPT !.runs = @ + 1]
    /\ UNCHANGED <<codes, devs, flows, idp, ready, req, file>>

\* credentials.Load, by its result.
Found == file # NoCred

\* finishEnroll refuses before the server is asked.
LoadEnroll(a) ==
    /\ In(a, "load") /\ ag[a].cmd \in {"code", "oidc"}
    /\ IF ~ag[a].force /\ Found THEN Exit(a, "exists")
       ELSE Turns(a, IF ag[a].cmd = "code" THEN "code" ELSE "caps")
    /\ Local /\ UNCHANGED file

\* run needs the file, and never looks at it again.
LoadRun(a) ==
    /\ In(a, "load") /\ ag[a].cmd \in {"run", "once"}
    /\ IF Found THEN Becomes(a, [ag[a] EXCEPT !.pc = "discover", !.cred = file]) ELSE Exit(a, "no_file")
    /\ Local /\ UNCHANGED file

\* runOIDCEnroll asks for the capabilities first.
Capabilities(a) ==
    /\ In(a, "caps")
    /\ IF DeviceEnabled THEN Turns(a, "start") ELSE Exit(a, "unsupported")
    /\ Local /\ UNCHANGED file

-----------------------------------------------------------------------------
(* Requests *)

FirstStatement(pc) ==
    CASE pc = "code" -> "code_get" [] pc = "start" -> "flow_start" [] pc = "poll" -> "flow_try" [] pc = "report" -> "checkin"

Send(a) ==
    /\ ag[a].pc \in {"code", "start", "poll", "report"}
    /\ In(a, "start") => \E f \in Flows : flows[f].st = "unborn"
    /\ \E p \in Procs :
         /\ At(p, "idle")
         /\ req' = [req EXCEPT ![p] = [NoReq EXCEPT !.op = ag[a].pc, !.pc = FirstStatement(ag[a].pc), !.arg = ag[a].arg,
                                                    !.dev = ag[a].cred.dev, !.secret = ag[a].cred.secret]]
         /\ Becomes(a, [ag[a] EXCEPT !.pc = "wait", !.proc = p, !.tally = NoTally])
    /\ UNCHANGED <<codes, devs, flows, idp, ready, spent, file>>

\* DeviceCodeEnroll: 502 is tolerated, a slow_down only slows, the rest ends it.
AfterPoll(r, status, cred) ==
    CASE status = "200" -> [r EXCEPT !.pc = "stat", !.cred = cred]
      [] status \in {"pending", "slow_down"} -> [r EXCEPT !.pc = "sleep", !.gw = 0]
      [] status = "502" /\ r.gw + 1 < maxConsecutiveBadGateway -> [r EXCEPT !.pc = "sleep", !.gw = @ + 1]
      [] OTHER -> Exited(r, "failed")

\* Mutated form of Strikes: the count starts again whenever a cycle fails.
StrikesReset(r, status) == IF status = "401" THEN 1 ELSE 0

\* Poller.Run: only consecutive 401s count.
Strikes(r, status) == IF status = "401" THEN r.bad + 1 ELSE 0
AfterCycle(r, status) ==
    LET n == [r EXCEPT !.pc = "rest", !.bad = Strikes(r, status)] IN
    IF r.cmd = "once" THEN Exited(r, status)
    ELSE IF n.bad >= unauthorizedLimit THEN Exited(r, "rejected") ELSE n

\* Everything but success ends the other two.
AfterCode(r, status, cred) == IF status = "200" THEN [r EXCEPT !.pc = "stat", !.cred = cred] ELSE Exited(r, "failed")
AfterStart(r, status, flow) == IF status = "200" THEN [r EXCEPT !.pc = "poll", !.arg = flow] ELSE Exited(r, "failed")

After(r, op, status, cred) ==
    LET n == [r EXCEPT !.proc = None] IN
    CASE op = "code" -> AfterCode(n, status, cred)
      [] op = "start" -> AfterStart(n, status, cred)
      [] op = "poll" -> AfterPoll(n, status, cred)
      [] op = "report" -> AfterCycle(n, status)

Receive(a) ==
    /\ In(a, "wait")
    /\ LET p == ag[a].proc
           r == req[p]
       IN /\ r.pc = "reply"
          /\ Becomes(a, After(ag[a], r.op, r.status, IF r.op = "start" THEN r.arg ELSE [dev |-> r.dev, secret |-> r.secret]))
          /\ req' = [req EXCEPT ![p] = NoReq]
    /\ UNCHANGED <<codes, devs, flows, idp, ready, spent, file>>

\* The connection breaks with the server.
Broken(a) ==
    /\ In(a, "wait") /\ req[ag[a].proc].pc = "dropped"
    /\ Becomes(a, After(ag[a], req[ag[a].proc].op, "lost", NoCred))
    /\ req' = [req EXCEPT ![ag[a].proc] = NoReq]
    /\ UNCHANGED <<codes, devs, flows, idp, ready, spent, file>>

\* The request's context is cancelled and its answer discarded.
Abandon(p) == req' = [req EXCEPT ![p] = IF Working(p) THEN [@ EXCEPT !.gone = TRUE] ELSE NoReq]

\* The client's timeout, also for an answer that is on its way.
GiveUp(a) ==
    /\ In(a, "wait") /\ Fault
    /\ Becomes(a, After(ag[a], req[ag[a].proc].op, "lost", NoCred))
    /\ Abandon(ag[a].proc)
    /\ UNCHANGED <<codes, devs, flows, idp, ready, file>>

\* The process is interrupted or killed, wherever it is.
Kill(a) ==
    /\ ~In(a, "idle") /\ Fault
    /\ Exit(a, "killed")
    /\ IF In(a, "wait") THEN Abandon(ag[a].proc) ELSE UNCHANGED req
    /\ UNCHANGED <<codes, devs, flows, idp, ready, file>>

-----------------------------------------------------------------------------
(* Enrolling: the poll loop and the file *)

\* The next poll, or the deadline of the flow.
Sleep(a) ==
    /\ In(a, "sleep")
    /\ \/ Turns(a, "poll")
       \/ ~flows[ag[a].arg].live /\ Exit(a, "expired")
    /\ Local /\ UNCHANGED file

\* credentials.Save looks first ...
SaveStat(a) ==
    /\ In(a, "stat")
    /\ IF ~ag[a].force /\ file # NoCred THEN Exit(a, "exists") ELSE Turns(a, "publish")
    /\ Local /\ UNCHANGED file

\* Mutated form of Replaces: the finished file is moved into place.
ReplacesAlways(a) == TRUE

\* ... and publishes with Rename if forced, else with Link, which never replaces.
Replaces(a) == ag[a].force \/ file = NoCred
SavePublish(a) ==
    /\ In(a, "publish")
    /\ IF Replaces(a) THEN file' = ag[a].cred /\ Exit(a, "saved") ELSE Exit(a, "exists") /\ UNCHANGED file
    /\ Local

-----------------------------------------------------------------------------
(* Running: discovery *)

\* A provider says an address of this family, the host's or another, or nothing
\* of use: an error, a timeout, text that is no such address.
Answers == [Providers -> S.says]
Count(answers) == [x \in Known |-> Cardinality({p \in Providers : answers[p] = x})]
Heard(counts) == {x \in Known : counts[x] > 0}

\* discoverFamily asks everyone and counts.
Discover(a) ==
    /\ In(a, "discover")
    /\ \E answers \in Answers :
         /\ IF \A p \in Providers : answers[p] = "own" THEN Quiet ELSE Fault
         /\ LET n == Count(answers) IN
            Becomes(a, [ag[a] EXCEPT !.pc = "tally", !.tally = [NoTally EXCEPT !.counts = n, !.left = Heard(n)]])
    /\ UNCHANGED <<codes, devs, flows, idp, ready, req, file>>

\* Mutated form of Better: a tie goes to the address met last.
BetterOrEqual(n, top) == n >= top

\* It goes through the map of counts in whatever order Go chooses.
Better(n, top) == n > top
Met(t, x) ==
    LET n == t.counts[x]
        rest == [t EXCEPT !.left = @ \ {x}]
    IN IF Better(n, t.top) THEN [rest EXCEPT !.top = n, !.winner = x, !.tie = FALSE]
       ELSE IF n = t.top THEN [rest EXCEPT !.tie = TRUE] ELSE rest
TallyNext(a) ==
    /\ In(a, "tally")
    /\ \E x \in ag[a].tally.left : Becomes(a, [ag[a] EXCEPT !.tally = Met(@, x)])
    /\ Local /\ UNCHANGED file

\* A family without quorum is left out of the report; with none there is none.
TallyEnd(a) ==
    /\ In(a, "tally") /\ ag[a].tally.left = {}
    /\ IF ag[a].tally.top >= Quorum /\ ~ag[a].tally.tie THEN Turns(a, "report")
       ELSE Becomes(a, AfterCycle([ag[a] EXCEPT !.tally = NoTally], "no_quorum"))
    /\ Local /\ UNCHANGED file

Rest(a) == In(a, "rest") /\ Turns(a, "discover") /\ Local /\ UNCHANGED file

-----------------------------------------------------------------------------
Init ==
    /\ scene \in DOMAIN Scenes
    /\ codes = S.codes /\ devs = S.devs /\ file = S.file /\ ready = S.ready
    /\ flows = [f \in Flows |-> [st |-> "unborn", live |-> TRUE, due |-> FALSE]]
    /\ idp = [f \in Flows |-> None]
    /\ req = [p \in Procs |-> NoReq]
    /\ ag = [a \in Agents |-> NoAgent]
    /\ spent = [faults |-> 0, owner |-> 0, runs |-> 0]

AgentStep(a) ==
    \/ LoadEnroll(a) \/ LoadRun(a) \/ Capabilities(a) \/ Send(a) \/ Receive(a) \/ Broken(a) \/ Sleep(a)
    \/ SaveStat(a) \/ SavePublish(a) \/ Discover(a) \/ TallyNext(a) \/ TallyEnd(a) \/ Rest(a)

ServerStep(p) == (RequestStep(p) /\ Quiet) \/ Cancelled(p)
World ==
    \/ \E p \in Procs : Fail(p) \/ RollbackFails(p)
    \/ Restart \/ Discovered \/ Owns \/ \E d \in 1..Len(devs) : Invalidate(d)
    \/ \E f \in Flows : Decide(f) \/ FlowTime(f)
    \/ \E c \in Codes : CodeTime(c)

Next ==
    /\ \/ \E a \in Agents : Launch(a) \/ AgentStep(a) \/ GiveUp(a) \/ Kill(a)
       \/ (\E p \in Procs : ServerStep(p)) /\ UNCHANGED <<ag, file>>
       \/ World /\ UNCHANGED <<ag, file>>
    /\ UNCHANGED scene

Spec == Init /\ [][Next]_vars

\* A client process runs on, and the server answers or the client's timeout does.
FairSpec ==
    /\ Spec
    /\ \A a \in Agents : WF_vars(AgentStep(a) /\ UNCHANGED scene)
    /\ \A p \in Procs : WF_vars(ServerStep(p) /\ UNCHANGED <<ag, file, scene>>)

-----------------------------------------------------------------------------
(* Properties *)

(***************************************************************************)
(* A code leaves one device at most: every device enrolled with a code is  *)
(* the one the code records, or its request is still at work on it, or the *)
(* compensating delete itself failed or the server stopped before it.      *)
(* Lost races, pruned codes and clients that hang up in the middle are     *)
(* covered (ConsumeCode, rollbackDevice).                                  *)
(***************************************************************************)
NoOrphanDevice ==
    \A d \in Rows : devs[d].from \in Codes /\ ~devs[d].lost =>
        \/ codes[devs[d].from].dev = d
        \/ \E p \in Procs : Owing(p) /\ req[p].dev = d

(***************************************************************************)
(* A device flow the provider has settled is deleted on every outcome, a   *)
(* refused account and a taken label included, unless a statement or the   *)
(* connection failed (completeOIDCDevice).                                 *)
(***************************************************************************)
SpentFlowsGone ==
    spent.faults = 0 =>
        \A f \in Flows : idp[f] = "spent" /\ flows[f].st = "row" => \E p \in Procs : Working(p) /\ req[p].arg = f

(***************************************************************************)
(* Without --force the credentials on disk are never replaced, however     *)
(* many enroll commands run at once: what replaces them is the credential  *)
(* of a forced command, which ends with it (credentials.Save).             *)
(***************************************************************************)
FileKept ==
    [][file # NoCred /\ file' # file =>
         \E a \in Agents : In(a, "publish") /\ ag[a].force /\ file' = ag[a].cred /\ ag'[a].end = "saved"]_vars

(***************************************************************************)
(* The address reported has a quorum and strictly more votes than any      *)
(* other, in whatever order the map of counts is read (discoverFamily).    *)
(***************************************************************************)
QuorumSound ==
    \A a \in Agents : In(a, "report") =>
        LET t == ag[a].tally IN
        /\ t.winner \in Known /\ t.counts[t.winner] >= Quorum
        /\ \A x \in Known \ {t.winner} : t.counts[x] < t.counts[t.winner]

(***************************************************************************)
(* An agent whose credential the server refuses from some time on, since   *)
(* it was rotated and evicted, disabled or deleted for good, stops, and    *)
(* does not go on asking: transient failures in between start the count    *)
(* again, and they are finitely many (Poller.Run).  What the server        *)
(* refuses is what Verify refuses: while the replaced secret is cached     *)
(* again, the agent that holds it is not refused and runs on.              *)
(***************************************************************************)
Running(a) == ag[a].cmd = "run" /\ ag[a].cred # NoCred
StopsWhenRejected ==
    \A a \in Agents : []<>(~Running(a) \/ Accepts(ag[a].cred.dev, ag[a].cred.secret))
=============================================================================
