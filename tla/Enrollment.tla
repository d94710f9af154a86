----------------------------- MODULE Enrollment -----------------------------
(***************************************************************************)
(* How a device gets its secret: EnrollmentService with one-time codes and *)
(* with the OIDC device flow (api/enroll.go, api/enroll_oidc.go), and what *)
(* the owner does with the device afterwards (DeviceService).  Everything  *)
(* is one account's: a label is unique among its devices.                  *)
(*                                                                         *)
(* A request is a record in req[p]; pc names the statement it is about to  *)
(* run.  When the client is gone the request goes on under a cancelled     *)
(* context (gone): each statement may then fail, and nobody reads the      *)
(* answer.  Expiry and the poll interval are flags that time changes.      *)
(***************************************************************************)
EXTENDS Integers, Sequences, FiniteSets

CONSTANTS
    Codes,   \* enrollment codes
    Flows,   \* device flows
    Labels,  \* what a device can be called
    Procs,   \* goroutines that serve agents
    Scenes   \* the situations to look at: tables, commands, bounds

VARIABLES
    codes,  \* enrollment_codes
    devs,   \* devices, by id
    flows,  \* oidc_device_flows
    idp,    \* what the provider knows of each device code
    ready,  \* oidc.Manager: discovery has succeeded
    req,    \* the requests
    spent,  \* bounds: faults met, owner's changes, commands started
    scene   \* the name of the situation, fixed from the start

server == <<codes, devs, flows, idp, ready>>

S == Scenes[scene]
None == "none"
DeviceLabel == "device"   \* cmp.Or(meta.Hostname, "device"): the API sends no hostname

Code == [st : {"unminted", "unused", "used", "pruned"}, live : BOOLEAN, label : Labels, dev : Nat]
Flow == [st : {"unborn", "row", "gone"}, live : BOOLEAN, due : BOOLEAN]

\* "cached" is the secret the verifier holds for the device, 0 for none, and
\* "evict" the calls of Invalidate still to come: memory, not the row.  "from" is
\* the code or flow the device was enrolled with; "lost" marks a device whose
\* compensating delete failed or was never reached: history.
Device == [st : {"row", "gone"}, label : Labels, secret : Nat, dis : BOOLEAN, cached : Nat, evict : Nat,
           from : Codes \cup Flows \cup {None}, lost : BOOLEAN]

\* secret: what the credential holds; row: the secret of the row that was read.
NoReq == [op |-> None, pc |-> "idle", arg |-> None, dev |-> 0, secret |-> 0, row |-> 0, gone |-> FALSE, status |-> None]

-----------------------------------------------------------------------------
(* A step of a request *)

At(p, pc) == req[p].pc = pc
Fault == spent.faults < S.faults /\ spent' = [spent EXCEPT !.faults = @ + 1]
Quiet == UNCHANGED spent

Goto(p, pc) == req' = [req EXCEPT ![p].pc = pc]

\* The answer waits for the agent, or for nobody.
Answered(r, status) == IF r.gone THEN NoReq ELSE [r EXCEPT !.pc = "reply", !.status = status]
Answer(p, status) == req' = [req EXCEPT ![p] = Answered(@, status)]

\* UNIQUE (user_id, label)
Free(label) == \A d \in 1..Len(devs) : devs[d].st = "row" => devs[d].label # label

\* createSealedDevice: a new id and a new secret.
Created(label, from) ==
    Append(devs, [st |-> "row", label |-> label, secret |-> 1, dis |-> FALSE, cached |-> 0, evict |-> 0,
                  from |-> from, lost |-> FALSE])
Deleted(d) == [devs EXCEPT ![d].st = "gone"]

-----------------------------------------------------------------------------
(* EnrollmentService.ConsumeCode *)

\* Unknown, used and expired codes get the same 401.
CodeGet(p) ==
    /\ At(p, "code_get")
    /\ LET c == codes[req[p].arg] IN
       IF c.st = "unused" /\ c.live THEN Goto(p, "code_create") ELSE Answer(p, "401")
    /\ UNCHANGED server

CodeCreate(p) ==
    /\ At(p, "code_create")
    /\ LET c == req[p].arg IN
       IF Free(codes[c].label)
         THEN /\ devs' = Created(codes[c].label, c)
              /\ req' = [req EXCEPT ![p].pc = "code_consume", ![p].dev = Len(devs) + 1, ![p].secret = 1]
         ELSE Goto(p, "code_conflict") /\ UNCHANGED devs
    /\ UNCHANGED <<codes, flows, idp, ready>>

\* conflictRejection: another redemption of this code, or another device?
CodeConflict(p) ==
    /\ At(p, "code_conflict")
    /\ Answer(p, IF codes[req[p].arg].st = "used" THEN "401" ELSE "409")
    /\ UNCHANGED server

\* The expiry is compared with the time of the look before, so only another
\* redemption or the pruner can have taken the code since.
CanConsume(c) == codes[c].st = "unused"
ToRollback(p) == req' = [req EXCEPT ![p].pc = "rollback", ![p].status = "401"]
CodeConsume(p) ==
    /\ At(p, "code_consume")
    /\ LET c == req[p].arg IN
       IF CanConsume(c)
         THEN /\ codes' = [codes EXCEPT ![c].st = "used", ![c].dev = req[p].dev]
              /\ Goto(p, "code_reread")
         ELSE ToRollback(p) /\ UNCHANGED codes
    /\ UNCHANGED <<devs, flows, idp, ready>>

\* Consume returns the row it reads back.
CodeReread(p) ==
    /\ At(p, "code_reread")
    /\ IF codes[req[p].arg].st = "pruned" THEN ToRollback(p) ELSE Answer(p, "200")
    /\ UNCHANGED server

Rollback(p) ==
    /\ At(p, "rollback")
    /\ devs' = Deleted(req[p].dev)
    /\ Answer(p, req[p].status)
    /\ UNCHANGED <<codes, flows, idp, ready>>

-----------------------------------------------------------------------------
(* The OIDC device flow *)

DeviceEnabled == ready
DeviceStart(f) == idp' = [idp EXCEPT ![f] = "asked"]

\* startOIDCDevice.
FlowStart(p) ==
    /\ At(p, "flow_start")
    /\ IF DeviceEnabled THEN Goto(p, "flow_create") ELSE Answer(p, "501")
    /\ UNCHANGED server
FlowCreate(p) ==
    /\ At(p, "flow_create")
    /\ \E x \in Flows : flows[x].st = "unborn"
    /\ LET f == CHOOSE x \in Flows : flows[x].st = "unborn" IN
       /\ flows' = [flows EXCEPT ![f] = [st |-> "row", live |-> TRUE, due |-> TRUE]]
       /\ DeviceStart(f)
       /\ req' = [req EXCEPT ![p] = Answered([@ EXCEPT !.arg = f], "200")]
    /\ UNCHANGED <<codes, devs, ready>>

\* TryPoll stamps the row if a poll is due ...
TryPoll(p) ==
    /\ At(p, "flow_try")
    /\ LET f == req[p].arg
           allowed == flows[f].st = "row" /\ flows[f].live /\ flows[f].due
       IN /\ flows' = IF allowed THEN [flows EXCEPT ![f].due = FALSE] ELSE flows
          /\ Goto(p, IF allowed THEN "flow_allowed" ELSE IF flows[f].live THEN "flow_paced" ELSE "flow_late")
    /\ UNCHANGED <<codes, devs, idp, ready>>

\* ... and reads it again: gone, or too soon.  The time is the one it began with.
FlowReread(p) ==
    /\ At(p, "flow_allowed") \/ At(p, "flow_paced") \/ At(p, "flow_late")
    /\ IF flows[req[p].arg].st # "row" \/ At(p, "flow_late") THEN Answer(p, "410")
       ELSE IF At(p, "flow_paced") THEN Answer(p, "slow_down") ELSE Goto(p, "flow_ask")
    /\ UNCHANGED server

\* DevicePoll, once discovery has succeeded.  A device code is exchanged once;
\* what the provider says of a spent one is an error like any other, and so is
\* no answer (Fail).
DevicePoll(p) ==
    /\ At(p, "flow_ask")
    /\ LET f == req[p].arg IN
       \/ ~ready /\ UNCHANGED idp /\ Answer(p, "502")
       \/ ready /\ idp[f] = "asked" /\ UNCHANGED idp /\ \E s \in {"pending", "slow_down"} : Answer(p, s)
       \/ ready /\ idp[f] = "spent" /\ UNCHANGED idp /\ Answer(p, "502")
       \/ ready /\ idp[f] = "denied" /\ UNCHANGED idp /\ req' = [req EXCEPT ![p].pc = "flow_delete", ![p].status = "410"]
       \/ ready /\ idp[f] = "approved" /\ idp' = [idp EXCEPT ![f] = "spent"] /\ Goto(p, "flow_login")
    /\ UNCHANGED <<codes, devs, flows, ready>>

\* LoginOrLink finds, links or creates the account, or refuses.
FlowLogin(p) ==
    /\ At(p, "flow_login")
    /\ \/ Goto(p, "flow_mint")
       \/ req' = [req EXCEPT ![p].pc = "flow_delete", ![p].status = "401"]
    /\ UNCHANGED server

\* Mutated form of AfterMintFailed: the row is left to the pruner.
AfterMintFailed500(r) == Answered(r, "500")

\* A taken label ends the flow too.
AfterMintFailed(r) == [r EXCEPT !.pc = "flow_delete", !.status = "500"]
FlowMint(p) ==
    /\ At(p, "flow_mint")
    /\ IF Free(DeviceLabel)
         THEN /\ devs' = Created(DeviceLabel, req[p].arg)
              /\ req' = [req EXCEPT ![p].pc = "flow_delete", ![p].status = "200", ![p].dev = Len(devs) + 1, ![p].secret = 1]
         ELSE req' = [req EXCEPT ![p] = AfterMintFailed(@)] /\ UNCHANGED devs
    /\ UNCHANGED <<codes, flows, idp, ready>>

FlowDelete(p) ==
    /\ At(p, "flow_delete")
    /\ flows' = [flows EXCEPT ![req[p].arg].st = "gone"]
    /\ Answer(p, req[p].status)
    /\ UNCHANGED <<codes, devs, idp, ready>>

-----------------------------------------------------------------------------
(* Check-in, as the agent sees it (HmacVerifier and DeviceFeed have the rest) *)

\* What Verify would say now: the secret in the cache counts, however old it is.
Accepts(d, secret) ==
    /\ d \in 1..Len(devs) /\ devs[d].st = "row" /\ ~devs[d].dis
    /\ secret = IF devs[d].cached # 0 THEN devs[d].cached ELSE devs[d].secret

\* Verify reads the row ...
Checkin(p) ==
    /\ At(p, "checkin")
    /\ LET d == req[p].dev IN
       IF d \in 1..Len(devs) /\ devs[d].st = "row" /\ ~devs[d].dis
         THEN req' = [req EXCEPT ![p].pc = "lookup", ![p].row = devs[d].secret]
         ELSE Answer(p, "401")
    /\ UNCHANGED server

\* ... compares with the cached secret, or opens and caches the one of the row
\* it has read, which may have been replaced since (secretFor) ...
Compare(p, secret) == IF secret = req[p].secret THEN Goto(p, "nonce") ELSE Answer(p, "401")
Lookup(p) ==
    /\ At(p, "lookup")
    /\ LET s == devs[req[p].dev].cached IN IF s = 0 THEN Goto(p, "fill") ELSE Compare(p, s)
    /\ UNCHANGED server
Fill(p) ==
    /\ At(p, "fill")
    /\ devs' = [devs EXCEPT ![req[p].dev].cached = req[p].row]
    /\ Compare(p, req[p].row)
    /\ UNCHANGED <<codes, flows, idp, ready>>

\* ... and records the signature; then the handler writes the row, if it is there.
Insert(p) == At(p, "nonce") /\ Goto(p, "apply") /\ UNCHANGED server
Apply(p) == At(p, "apply") /\ Answer(p, IF devs[req[p].dev].st = "row" THEN "200" ELSE "500") /\ UNCHANGED server

-----------------------------------------------------------------------------
(* Failures *)

\* Mutated form of Cancellable: the compensating delete runs on the request's context.
CancellableAll(pc) == TRUE

\* rollbackDevice is detached from the request; everything else is not.
Cancellable(pc) == pc # "rollback"

\* Where a failed statement leads: to the compensation, to the answer a failed
\* re-read gives, past a best-effort delete, or to a 500 or 502.  Whatever goes
\* wrong while a request is verified is a 401.
Failed(r) ==
    CASE r.pc \in {"code_consume", "code_reread"} -> [r EXCEPT !.pc = "rollback", !.status = "500"]
      [] r.pc = "code_conflict" -> Answered(r, "409")
      [] r.pc \in {"checkin", "lookup", "fill", "nonce"} -> Answered(r, "401")
      [] r.pc = "flow_delete" -> Answered(r, r.status)
      [] r.pc \in {"flow_start", "flow_ask"} -> Answered(r, "502")
      [] r.pc = "flow_login" -> [r EXCEPT !.pc = "flow_delete", !.status = "401"]
      [] r.pc = "flow_mint" -> AfterMintFailed(r)
      [] OTHER -> Answered(r, "500")

Working(p) == req[p].pc \notin {"idle", "reply", "dropped"}

\* An exchange the provider has answered is spent although nobody got it.
Exchanged(p) == At(p, "flow_ask") /\ ready /\ idp[req[p].arg] = "approved"
LostExchange(p) ==
    idp' = IF Exchanged(p) THEN [idp EXCEPT ![req[p].arg] = "spent"] ELSE idp

Fail(p) ==
    /\ Working(p) /\ ~At(p, "rollback") /\ Fault
    /\ req' = [req EXCEPT ![p] = Failed(@)]
    /\ (LostExchange(p) \/ UNCHANGED idp)
    /\ UNCHANGED <<codes, devs, flows, ready>>
Cancelled(p) ==
    /\ Working(p) /\ req[p].gone /\ Cancellable(req[p].pc) /\ Quiet
    /\ req' = [req EXCEPT ![p] = Failed(@)]
    /\ LostExchange(p)
    /\ UNCHANGED <<codes, devs, flows, ready>>

\* The orphan is logged with its id.
RollbackFails(p) ==
    /\ At(p, "rollback") /\ Fault
    /\ devs' = [devs EXCEPT ![req[p].dev].lost = TRUE]
    /\ Answer(p, req[p].status)
    /\ UNCHANGED <<codes, flows, idp, ready>>

\* The server stops; the requests it had are gone and nobody compensates.  The
\* cache goes with it.
Owing(p) == req[p].pc \in {"code_consume", "code_reread", "rollback"}
Restart ==
    /\ Fault
    /\ devs' = [d \in 1..Len(devs) |->
                  [devs[d] EXCEPT !.lost = @ \/ \E p \in Procs : Owing(p) /\ req[p].dev = d, !.cached = 0, !.evict = 0]]
    /\ req' = [p \in Procs |-> IF req[p].gone THEN NoReq
                            ELSE IF Working(p) THEN [req[p] EXCEPT !.pc = "dropped"] ELSE req[p]]
    /\ ready' = FALSE
    /\ UNCHANGED <<codes, flows, idp>>

-----------------------------------------------------------------------------
(* The provider, time, and the owner *)

\* Manager.Discover, retried until it succeeds.
Discovered == ~ready /\ ready' = TRUE /\ UNCHANGED <<codes, devs, flows, idp, req, spent>>
Decide(f) ==
    /\ idp[f] = "asked"
    /\ \E s \in {"approved", "denied"} : idp' = [idp EXCEPT ![f] = s]
    /\ UNCHANGED <<codes, devs, flows, ready, req, spent>>

Due(f) == flows[f].st = "row" /\ ~flows[f].due /\ flows' = [flows EXCEPT ![f].due = TRUE]
ExpireFlow(f) == S.expiry /\ flows[f].st = "row" /\ flows[f].live /\ flows' = [flows EXCEPT ![f].live = FALSE]
PruneFlow(f) == flows[f].st = "row" /\ ~flows[f].live /\ flows' = [flows EXCEPT ![f].st = "gone"]
FlowTime(f) == (Due(f) \/ ExpireFlow(f) \/ PruneFlow(f)) /\ UNCHANGED <<codes, devs, idp, ready, req, spent>>

ExpireCode(c) == S.expiry /\ codes[c].st # "unminted" /\ codes[c].live /\ codes' = [codes EXCEPT ![c].live = FALSE]
PruneCode(c) == codes[c].st \in {"unused", "used"} /\ ~codes[c].live /\ codes' = [codes EXCEPT ![c].st = "pruned"]
CodeTime(c) == (ExpireCode(c) \/ PruneCode(c)) /\ UNCHANGED <<devs, flows, idp, ready, req, spent>>

\* The owner changes something, a bounded number of times.
Owner == spent.owner < S.owner /\ spent' = [spent EXCEPT !.owner = @ + 1] /\ UNCHANGED <<flows, idp, ready, req>>

\* The page refuses a label in use, the API does not ask.
Minted(c, label) == codes' = [codes EXCEPT ![c] = [st |-> "unused", live |-> TRUE, label |-> label, dev |-> 0]]
PageMintCode(c, label) == codes[c].st = "unminted" /\ Free(label) /\ Minted(c, label) /\ Owner /\ UNCHANGED devs
ApiMintCode(c, label) == codes[c].st = "unminted" /\ Minted(c, label) /\ Owner /\ UNCHANGED devs

Rows == {d \in 1..Len(devs) : devs[d].st = "row"}
Rename(d, label) == Free(label) /\ devs' = [devs EXCEPT ![d].label = label] /\ Owner /\ UNCHANGED codes
SetEnabled(d, dis) == devs[d].dis # dis /\ devs' = [devs EXCEPT ![d].dis = dis] /\ Owner /\ UNCHANGED codes
RotateSecret(d) == devs' = [devs EXCEPT ![d].secret = @ + 1, ![d].evict = @ + 1] /\ Owner /\ UNCHANGED codes
Delete(d) == devs' = Deleted(d) /\ Owner /\ UNCHANGED codes

Owns ==
    \/ \E c \in Codes, label \in S.labels : PageMintCode(c, label) \/ ApiMintCode(c, label)
    \/ \E d \in Rows : (\E label \in S.labels : Rename(d, label)) \/ SetEnabled(d, TRUE) \/ SetEnabled(d, FALSE)
                       \/ RotateSecret(d) \/ Delete(d)

\* The rest of RotateSecret, after its statement.
Invalidate(d) ==
    /\ devs[d].evict > 0
    /\ devs' = [devs EXCEPT ![d].cached = 0, ![d].evict = @ - 1]
    /\ UNCHANGED <<codes, flows, idp, ready, req, spent>>

\* A request's own statements.
RequestStep(p) ==
    \/ CodeGet(p) \/ CodeCreate(p) \/ CodeConflict(p) \/ CodeConsume(p) \/ CodeReread(p) \/ Rollback(p)
    \/ FlowStart(p) \/ FlowCreate(p) \/ TryPoll(p) \/ FlowReread(p) \/ DevicePoll(p) \/ FlowLogin(p) \/ FlowMint(p)
    \/ FlowDelete(p)
    \/ Checkin(p) \/ Lookup(p) \/ Fill(p) \/ Insert(p) \/ Apply(p)
=============================================================================
