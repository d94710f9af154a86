---------------------------- MODULE Registration ----------------------------
(***************************************************************************)
(* How an account gets credentials: registration links (GrantService),     *)
(* passkey ceremonies (PasskeyService) and the first administrator         *)
(* (BootstrapService), on top of Accounts; with failing statements,        *)
(* restarts and expiry.                                                    *)
(*                                                                         *)
(* A ceremony is a sealed challenge given to the client and brought back;  *)
(* that the client signed it is a step that may be refused.  The map of    *)
(* challenges already used is the process's and dies with it.              *)
(***************************************************************************)
EXTENDS Accounts

\* What a cookie is sealed under: passkey ceremonies share one.
Challenge == [aad : {"webauthn", "claim", "oidc"}, user : Accounts \cup {Nobody}, handle : Nat,
              addr : Addresses \cup {NoAddr}, used : BOOLEAN]

\* The request ends and its challenge cookie is set.
Give(p, aad, u, handle, addr) ==
    /\ chals' = Append(chals, [aad |-> aad, user |-> u, handle |-> handle, addr |-> addr, used |-> FALSE])
    /\ call' = [call EXCEPT ![p] = NoCall]
    /\ UNCHANGED <<db, mu, spent, scene>>

\* rand.Read: a number nobody has.
NewHandle == Len(chals) + 1

-----------------------------------------------------------------------------
(* Passkeys *)

OIDCStart(p) == Handles(p, "oidc_start", "api") /\ Give(p, "oidc", Nobody, 0, NoAddr)

ApiLoginBegin(p) == Handles(p, "login_begin", "api") /\ Give(p, "webauthn", Nobody, 0, NoAddr)
ApiLoginFinish(p) == Handles(p, "login_finish", "api") /\ Goto(p, "claim")
ApiPasskeyBegin(p) == Handles(p, "pk_begin", "api") /\ Step(p, [call[p] EXCEPT !.pc = "begin", !.tgt = call[p].me], db)
ApiPasskeyFinish(p) == Handles(p, "pk_finish", "api") /\ Step(p, [call[p] EXCEPT !.pc = "claim", !.tgt = call[p].me], db)
ApiPasskeyRemove(p) == Handles(p, "pk_remove", "api") /\ Goto(p, "owned")
ApiPasskeyRename(p) == Handles(p, "pk_rename", "api") /\ Goto(p, "owned")

\* PasskeyService.BeginRegister: the account's handle, or a new one that is not yet stored.
BeginRegister(p) ==
    /\ At(p, "begin")
    /\ LET c == call[p]
           h == db.users[c.tgt].handle
       IN IF c.tgt \in Rows(db)
            THEN Give(p, "webauthn", c.tgt, IF h = 0 THEN NewHandle ELSE h, NoAddr)
            ELSE Reply(p)

\* openSession takes the cookie of any passkey ceremony.  Finishing a registration
\* goes by the cookie's tag, and a forged one leads to an opener that refuses it.
OpenedBy(c) == IF c.op = "reg_finish" THEN {"webauthn", "claim"} ELSE {"webauthn"}

\* openSession or openClaim, then claimChallenge: once per challenge and process.
ClaimChallenge(p) ==
    /\ At(p, "claim")
    /\ LET c == call[p] IN
       IF chals[c.ref].aad \in OpenedBy(c) /\ ~chals[c.ref].used
         THEN /\ chals' = [chals EXCEPT ![c.ref].used = TRUE]
              /\ call' = [call EXCEPT ![p].pc = IF c.op = "login_finish" THEN "signer" ELSE "verify"]
              /\ UNCHANGED <<db, mu, spent, scene>>
         ELSE Reply(p)

\* resolveSigner: the user by the handle the authenticator sends ...
Signer(p) ==
    /\ At(p, "signer")
    /\ LET c == call[p]
           us == GetByWebAuthnHandle(db, db.creds[c.tok].handle)
       IN IF us = {} THEN Reply(p)
          ELSE \E u \in us : Step(p, [c EXCEPT !.pc = "signer_creds", !.tgt = u, !.row = db.users[u]], db)

\* ... then the user's credentials; verification; a disabled account is refused.
SignerCreds(p) ==
    /\ At(p, "signer_creds")
    /\ Try(p, call[p].tok \in Of(db.creds, call[p].tgt) /\ ~call[p].row.dis, To(call[p], "touch_cred"), db)
TouchCredential(p) ==
    At(p, "touch_cred") /\ Try(p, GetCredential(db, call[p].tok), To(call[p], "new_session"), db)

\* GetByID (there is no account yet in a claim) and verifyRegistration, which
\* the client may fail.
Verify(p) ==
    /\ At(p, "verify")
    /\ LET c == call[p]
           claim == chals[c.ref].aad = "claim"
       IN \E ok \in BOOLEAN :
            Try(p, ok /\ (claim \/ c.tgt \in Rows(db)),
                To(c, IF claim THEN "consume_boot" ELSE IF c.op = "pk_finish" THEN "set_handle" ELSE "consume"), db)

\* persistCredential: the handle, then the credential.
SetHandle(p) ==
    /\ At(p, "set_handle")
    /\ LET c == call[p] IN
       Try(p, CanSetHandle(db, c.tgt, chals[c.ref].handle), To(c, "create_cred"),
           SetWebAuthnHandle(db, c.tgt, chals[c.ref].handle))
PersistCredential(p) ==
    /\ At(p, "create_cred")
    /\ LET c == call[p]
           g == IF c.op = "reg_finish" /\ chals[c.ref].aad = "webauthn" THEN c.tok ELSE 0
       IN Try(p, c.tgt \in Rows(db), IF c.op = "pk_finish" THEN NoCall ELSE To(c, "new_session"),
              CreateCredential(db, c.tgt, chals[c.ref].handle, g))

\* PasskeyService.Rename (nothing depends on the name) and Remove.
OwnedCredential(p) ==
    /\ At(p, "owned")
    /\ Try(p, call[p].ref \in Of(db.creds, call[p].me),
           To(call[p], IF call[p].op = "pk_rename" THEN "rename" ELSE "remove_row"), db)
Rename(p) == At(p, "rename") /\ Reply(p)
RemoveRow(p) ==
    /\ At(p, "remove_row")
    /\ LET c == call[p] IN Try(p, c.me \in Rows(db), [c EXCEPT !.pc = "remove_count", !.row = db.users[c.me]], db)
RemoveCount(p) ==
    /\ At(p, "remove_count")
    /\ Try(p, CountCreds(db, call[p].me) > 1 \/ call[p].row.sub # Nobody, To(call[p], "remove"), db)
Remove(p) == At(p, "remove") /\ Step(p, NoCall, DeleteCredential(db, call[p].ref))

-----------------------------------------------------------------------------
(* Registration links: minting *)

\* AdminService.CreateUserInvite, second half: GrantService.IssueInvite.
Issue(p, reason, replaces, pc) ==
    LET c == call[p] IN
    Try(p, c.tgt \in Rows(db), [c EXCEPT !.pc = pc, !.tok = Len(db.grants) + 1],
        CreateGrant(db, c.tgt, reason, replaces))
IssueInvite(p) == At(p, "issue_invite") /\ Issue(p, "invite", FALSE, "deliver")

\* ReissueInvite only for an account that cannot sign in.
IsRegistered(r, n) == n > 0 \/ r.sub # Nobody
Registered(p) ==
    /\ At(p, "registered")
    /\ LET c == call[p] IN
       Try(p, c.tgt \in Rows(db) /\ ~IsRegistered(c.row, CountCreds(db, c.tgt)), To(c, "lock"), db)

\* IssueRecovery ends the account's passkeys first.
RevokeAll(p) == At(p, "revoke_all") /\ Step(p, To(call[p], "lock"), DeleteAllByUser(db, call[p].tgt))

\* Mutated form of MayLock: deleting and minting are left to interleave.
MayLockAlways(p) == TRUE

MayLock(p) == mu = Nobody
ReplaceLock(p) ==
    /\ At(p, "lock") /\ MayLock(p)
    /\ mu' = p
    /\ call' = [call EXCEPT ![p].pc = "replace"]
    /\ UNCHANGED <<db, chals, spent, scene>>
ReplaceDelete(p) == At(p, "replace") /\ Step(p, To(call[p], "mint"), DeleteUnusedByUser(db, call[p].tgt))

\* Mutated form of Unlocked: an early return keeps the mutex.
UnlockedOnSuccess(p) == IF mu = p /\ call'[p].pc # "idle" THEN Nobody ELSE mu

\* The mutex is released by a defer, whatever happens.
Unlocked(p) == IF mu = p THEN Nobody ELSE mu
ReplaceMint(p) ==
    /\ At(p, "mint")
    /\ LET c == call[p] IN
       IF c.tgt \in Rows(db)
         THEN /\ call' = [call EXCEPT ![p].pc = "recipient", ![p].tok = Len(db.grants) + 1]
              /\ db' = CreateGrant(db, c.tgt, IF c.op = "recovery" THEN "recovery" ELSE "invite", TRUE)
         ELSE /\ call' = [call EXCEPT ![p] = NoCall]
              /\ UNCHANGED db
    /\ mu' = Unlocked(p)
    /\ UNCHANGED <<chals, spent, scene>>

\* Mutated form of Recipient: the row the handler looked up is recent enough.
RecipientSeen(p) == call[p].row

\* recipientAfterMint: who the account's mailbox is now.
Recipient(p) == db.users[call[p].tgt]
RecipientAfterMint(p) ==
    /\ At(p, "recipient")
    /\ LET c == call[p] IN
       Try(p, c.tgt \in Rows(db) /\ ~Recipient(p).dis, [c EXCEPT !.pc = "deliver", !.row = Recipient(p)], db)

Deliver(p) == At(p, "deliver") /\ Step(p, NoCall, [db EXCEPT !.grants[call[p].tok].to = call[p].row.email])

\* RequestSelfServiceRecovery: a goroutine that outlives its request.
RecoverFind(p) ==
    /\ Handles(p, "recover", "api")
    /\ LET us == {u \in GetByEmail(db, call[p].addr) : ~db.users[u].dis} IN
       IF us = {} THEN Reply(p)
       ELSE \E u \in us : Step(p, [call[p] EXCEPT !.pc = "recover_count", !.tgt = u, !.row = db.users[u]], db)
RecoverCount(p) == At(p, "recover_count") /\ Try(p, CountCreds(db, call[p].tgt) > 0, To(call[p], "recover_mint"), db)
RecoverMint(p) == At(p, "recover_mint") /\ Issue(p, "recovery", FALSE, "deliver")

-----------------------------------------------------------------------------
(* Registration links and the first administrator: redeeming *)

AdminExists(d) == \E u \in Rows(d) : d.users[u].role = "admin"

RegisterBegin(p) == Handles(p, "reg_begin", "api") /\ Goto(p, "lookup")
RegisterFinish(p) ==
    /\ Handles(p, "reg_finish", "api")
    /\ Goto(p, IF chals[call[p].ref].aad = "claim" THEN "no_admin" ELSE "valid")

\* ClassifyRegistration: a live grant with its account, or else the first run.
LookupGrant(p) ==
    /\ At(p, "lookup")
    /\ Goto(p, IF call[p].tok > 0 /\ Redeemable(db, call[p].tok) THEN "grant_user" ELSE "first_run")
GrantUser(p) ==
    At(p, "grant_user") /\ Goto(p, IF db.grants[call[p].tok].user \in Rows(db) THEN "valid" ELSE "first_run")
FirstRun(p) == At(p, "first_run") /\ Try(p, ~AdminExists(db), To(call[p], "no_admin"), db)

\* validGrant, in RedeemBegin and again in RedeemFinish.
ValidGrant(p) ==
    /\ At(p, "valid")
    /\ LET c == call[p] IN
       Try(p, c.tok > 0 /\ Redeemable(db, c.tok),
           [c EXCEPT !.pc = IF c.op = "reg_begin" THEN "begin" ELSE "claim", !.tgt = db.grants[c.tok].user], db)

\* Mutated form of RevokesOld: issuing a recovery has revoked them already.
RevokesOldNever(g) == FALSE

RevokesOld(g) == g.reason = "recovery"
ConsumeGrant(p) ==
    /\ At(p, "consume")
    /\ LET c == call[p] IN
       Try(p, Redeemable(db, c.tok), To(c, IF RevokesOld(db.grants[c.tok]) THEN "revoke_old" ELSE "set_handle"),
           Consume(db, c.tok))
RevokeOld(p) == At(p, "revoke_old") /\ Step(p, To(call[p], "set_handle"), DeleteAllByUser(db, call[p].tgt))

\* BeginClaim and FinishClaim both look for an administrator first.
NoAdminYet(p) ==
    /\ At(p, "no_admin")
    /\ Try(p, ~AdminExists(db), To(call[p], IF call[p].op = "reg_begin" THEN "boot_token" ELSE "claim"), db)
BootToken(p) ==
    /\ At(p, "boot_token")
    /\ IF BootHash(db) > 0 /\ BootHash(db) = call[p].ref
         THEN Give(p, "claim", Nobody, NewHandle, call[p].addr)
         ELSE Reply(p)

ConsumeBootstrap(p) ==
    At(p, "consume_boot") /\ Try(p, BootOpen(db), To(call[p], "create_admin"), ConsumeBoot(db))
CreateAdmin(p) ==
    /\ At(p, "create_admin")
    /\ LET a == chals[call[p].ref].addr IN
       Try(p, CanCreate(db, a, Nobody), [call[p] EXCEPT !.pc = "set_handle", !.tgt = NewId(db)],
           Create(db, a, "admin", Nobody, "claim"))

-----------------------------------------------------------------------------
(* Requests, faults and time *)

\* The tokens, challenges and rows a client may name, old ones included.
Refs(op) ==
    IF op \in {"oidc", "pk_finish", "login_finish", "reg_finish"} THEN 1..Len(chals)
    ELSE IF op \in {"pk_remove", "pk_rename"} THEN 1..Len(db.creds)
    ELSE IF op = "key_revoke" THEN 1..Len(db.keys)
    ELSE IF op = "reg_begin" THEN 0..db.boot.token ELSE {0}
Toks(op) ==
    IF op \in {"reg_begin", "reg_finish"} THEN 0..Len(db.grants)
    ELSE IF op = "login_finish" THEN 1..Len(db.creds)
    ELSE IF op = "email_confirm" THEN 1..Len(db.mails) ELSE {0}
Sids(a) ==
    IF a.op \in OpenOps THEN {0}
    ELSE IF a.door = "key" THEN {i \in 1..Len(db.keys) : db.keys[i].user = a.me}
    ELSE {i \in 1..Len(db.sessions) : db.sessions[i].user = a.me}

Arrive(p) ==
    /\ At(p, "idle") /\ p \in S.procs /\ spent.calls < S.calls
    /\ \E a \in S.asks : \E sid \in Sids(a), ref \in Refs(a.op), tok \in Toks(a.op) :
         call' = [call EXCEPT ![p] =
             [op |-> a.op, door |-> a.door, me |-> a.me, tgt |-> a.tgt, addr |-> a.addr, role |-> a.role, dis |-> a.dis,
              sub |-> a.sub, verified |-> a.verified, pc |-> FirstCheck(a.op, a.door),
              sid |-> sid, ref |-> ref, tok |-> tok, row |-> NoUser, admins |-> NotCounted]]
    /\ spent' = [spent EXCEPT !.calls = @ + 1]
    /\ UNCHANGED <<db, chals, mu, scene>>

Fault == spent.faults < S.faults /\ spent' = [spent EXCEPT !.faults = @ + 1]

\* A statement fails and the request with it; only the provider's address is
\* optional, and a session is opened without it.  Waiting for the mutex cannot
\* fail, a mail that does is RequestUnsent, and a slide is Slide.
Fail(p) ==
    /\ call[p].pc \notin {"idle", "lock", "mail_confirm", "slide"} /\ Fault
    /\ call' = [call EXCEPT ![p] = IF call[p].op = "oidc" /\ @.pc \in {"sync_list", "sync_set", "drop"}
                                     THEN To(@, "new_session") ELSE NoCall]
    /\ mu' = Unlocked(p)
    /\ UNCHANGED <<db, chals, scene>>

\* BootstrapService.Startup, before the listener opens.
Startup(d) == IF AdminExists(d) \/ BootOpen(d) THEN d ELSE SetTokenHash(d)

Restart ==
    /\ Fault
    /\ call' = [p \in Procs |-> NoCall]
    /\ chals' = [i \in 1..Len(chals) |-> [chals[i] EXCEPT !.used = FALSE]]
    /\ mu' = Nobody
    /\ db' = Startup(db)
    /\ UNCHANGED scene

\* Time: a link, a pending change or a session expires, and the pruner comes by.
ExpireGrant(i) == db.grants[i].live /\ db' = [db EXCEPT !.grants[i].live = FALSE]
ExpirePending(u) == db.users[u].plive /\ db' = [db EXCEPT !.users[u].plive = FALSE]
ExpireSession(i) == db.sessions[i].live /\ db' = [db EXCEPT !.sessions[i].live = FALSE]
Expire ==
    /\ S.expiry /\ Fault
    /\ \/ \E i \in 1..Len(db.grants) : ExpireGrant(i)
       \/ \E u \in Accounts : ExpirePending(u)
       \/ \E i \in 1..Len(db.sessions) : ExpireSession(i)
    /\ UNCHANGED <<chals, mu, call, scene>>

\* The sweeps are separate statements, and one may fail without the others.
Prune ==
    /\ \E after \in {PruneSessions(db), PruneGrants(db), ClearExpiredPendingEmails(db)} : after # db /\ db' = after
    /\ UNCHANGED <<chals, mu, call, spent, scene>>

-----------------------------------------------------------------------------
\* Tables a server may come up with: links belong to rows (a foreign key), a pending
\* change to its mail, and Startup leaves a token only where nobody administers.
\* What is history, not columns, starts empty.
Consistent(d) ==
    /\ \A i \in 1..Len(d.grants) :
         /\ d.grants[i].st = "unused" => d.grants[i].user \in Rows(d)
         /\ ~d.grants[i].replaces /\ d.grants[i].upto = 0
    /\ \A i \in 1..Len(d.creds) : d.creds[i].grant = 0
    /\ \A u \in Accounts : d.users[u].plive =>
         d.users[u].ptok \in 1..Len(d.mails) /\ d.mails[d.users[u].ptok] = d.users[u].pend
    /\ d.boot.open => ~AdminExists(d)

\* CreateUserInvite refuses a role that is none before its first statement.
ASSUME SceneAssumption ==
    /\ Nobody \notin Procs /\ Nobody \notin Accounts
    /\ \A n \in DOMAIN Scenes :
         LET s == Scenes[n] IN
         /\ s.db \in Tables /\ Consistent(s.db)
         /\ s.chals \in Seq(Challenge) /\ s.procs \subseteq Procs /\ IsFiniteSet(s.procs)
         /\ \A a \in s.asks : a \in Ask /\ (a.op = "invite" => a.role # "keep")
         /\ s.calls \in Nat /\ s.faults \in Nat

Init ==
    /\ scene \in DOMAIN Scenes
    /\ db = S.db /\ chals = S.chals
    /\ mu = Nobody
    /\ call = [p \in Procs |-> NoCall]
    /\ spent = [calls |-> 0, faults |-> 0]

RegistrationStep(p) ==
    \/ OIDCStart(p) \/ ApiLoginBegin(p) \/ ApiLoginFinish(p) \/ ApiPasskeyBegin(p) \/ ApiPasskeyFinish(p) \/ ApiPasskeyRemove(p)
    \/ ApiPasskeyRename(p) \/ Rename(p)
    \/ BeginRegister(p) \/ ClaimChallenge(p) \/ Signer(p) \/ SignerCreds(p) \/ TouchCredential(p)
    \/ Verify(p) \/ SetHandle(p) \/ PersistCredential(p)
    \/ OwnedCredential(p) \/ RemoveRow(p) \/ RemoveCount(p) \/ Remove(p)
    \/ IssueInvite(p) \/ Registered(p) \/ RevokeAll(p) \/ ReplaceLock(p) \/ ReplaceDelete(p) \/ ReplaceMint(p)
    \/ RecipientAfterMint(p) \/ Deliver(p) \/ RecoverFind(p) \/ RecoverCount(p) \/ RecoverMint(p)
    \/ RegisterBegin(p) \/ RegisterFinish(p) \/ LookupGrant(p) \/ GrantUser(p) \/ FirstRun(p) \/ ValidGrant(p)
    \/ ConsumeGrant(p) \/ RevokeOld(p) \/ NoAdminYet(p) \/ BootToken(p) \/ ConsumeBootstrap(p) \/ CreateAdmin(p)

CallStep(p) == AccountStep(p) \/ RegistrationStep(p)

Next ==
    \/ \E p \in Procs : Arrive(p) \/ CallStep(p) \/ Fail(p)
    \/ Restart \/ Expire \/ Prune

Spec == Init /\ [][Next]_vars

-----------------------------------------------------------------------------
(* Properties *)

(***************************************************************************)
(* Types; and replaceMu is held only by a request that is between its      *)
(* delete and its mint: no early return, failure or restart leaves it      *)
(* locked, so no later request waits for ever.                             *)
(***************************************************************************)
TypeOK ==
    /\ db \in Tables
    /\ chals \in Seq(Challenge)
    /\ mu \in Procs \cup {Nobody}
    /\ call \in [Procs -> Call]
    /\ spent \in [calls : 0..S.calls, faults : 0..S.faults]
    /\ mu # Nobody => call[mu].pc \in {"replace", "mint"}

(***************************************************************************)
(* An account has at most one link that was minted to replace its links,   *)
(* however many administrators press the button at once: what replaceMu is *)
(* for (ReissueInvite, IssueRecovery).                                     *)
(***************************************************************************)
OneReplacement ==
    \A u \in Accounts : Cardinality({i \in Unused(db, u) : db.grants[i].replaces}) <= 1

(***************************************************************************)
(* A link that an administrator replaced and that still works was mailed   *)
(* to the address the account has, unless a change of address is about to  *)
(* delete it (recipientAfterMint against applyChanged).  A statement that  *)
(* fails between the two leaves the link until it expires, as the code's   *)
(* log line says.                                                          *)
(***************************************************************************)
AdminLinksCurrent ==
    spent.faults = 0 =>
        \A i \in 1..Len(db.grants) :
            LET g == db.grants[i] IN
            g.st = "unused" /\ g.replaces /\ g.to # NoAddr =>
                \/ NormalizeAddress(g.to) = NormalizeAddress(db.users[g.user].email)
                \/ \E p \in Procs : At(p, "drop") /\ call[p].tgt = g.user

(***************************************************************************)
(* A registration link registers at most one credential, although two      *)
(* redemptions may both have found it valid (RedeemFinish).                *)
(***************************************************************************)
GrantOnce ==
    \A g \in 1..Len(db.grants) : Cardinality({i \in 1..Len(db.creds) : db.creds[i].grant = g}) <= 1

(***************************************************************************)
(* When a recovery link has registered its credential, none of the         *)
(* account's credentials from before the redemption is left, whether an    *)
(* administrator issued it or the user asked for it (RedeemFinish).        *)
(***************************************************************************)
RecoveryReplaces ==
    \A i \in 1..Len(db.creds) :
        db.creds[i].grant > 0 /\ db.grants[db.creds[i].grant].reason = "recovery" =>
            \A j \in 1..db.grants[db.creds[i].grant].upto :
                db.creds[j].user = db.creds[i].user => db.creds[j].st = "gone"

(***************************************************************************)
(* Confirming a change gives the account the address that very link was    *)
(* sent to, never one requested later or by another request in flight      *)
(* (ConfirmPendingEmail).                                                  *)
(***************************************************************************)
ConfirmedAddress ==
    [][\A p \in Procs : At(p, "confirm") /\ call'[p].pc = "drop" =>
          db'.users[call[p].me].email = db.mails[call[p].tok]]_vars

(***************************************************************************)
(* An identity is linked only to an account that, at that moment, is not   *)
(* an administrator and still has the mailbox the provider vouched for:    *)
(* LinkOIDC against role changes and address changes after the lookup.     *)
(* The link may rewrite how the mailbox is spelled, never which one it is. *)
(***************************************************************************)
LinkedWhileEligible ==
    [][\A u \in Rows(db) : db.users[u].sub # db'.users[u].sub =>
          \/ u \notin Rows(db)'
          \/ /\ db.users[u].role = "user"
             /\ NormalizeAddress(db'.users[u].email) = NormalizeAddress(db.users[u].email)]_vars

(***************************************************************************)
(* An administrator is claimed with the setup token only while nobody      *)
(* administers, so never twice: two claims at once, restarts and a token   *)
(* minted anew included (Bootstrap.Consume, Startup).                      *)
(***************************************************************************)
OneFirstAdmin ==
    [][\A u \in Accounts : db.users[u].by # "claim" /\ db'.users[u].by = "claim" => ~AdminExists(db)]_vars

(***************************************************************************)
(* The last administrator who can sign in is demoted, disabled or deleted  *)
(* only by a request that did count the administrators and whose count was *)
(* out of date when it wrote: no path is without the guard                 *)
(* (guardLastAdmin), and it holds against every order of requests and      *)
(* against callers that lost their role after they were authenticated,     *)
(* except a change between its own count and its own write.                *)
(***************************************************************************)
LastAdminGuarded ==
    [][EnabledAdmins(db) # {} /\ EnabledAdmins(db)' = {} =>
          \E p \in Procs : /\ call[p] # call'[p]
                           /\ call[p].admins \notin {NotCounted, EnabledAdmins(db)}]_vars

(***************************************************************************)
(* What ErrLastAdmin is documented to rule out: no operation leaves zero   *)
(* enabled administrators where there was one.                             *)
(***************************************************************************)
AdminRemains == [][EnabledAdmins(db) # {} => EnabledAdmins(db)' # {}]_vars

(***************************************************************************)
(* Without overlap, provider sign-ups and claims, a mailbox belongs to one *)
(* account in whatever spelling, those waiting for confirmation included   *)
(* (addressHeld).                                                          *)
(***************************************************************************)
Holds(u) == {db.users[u].email[1]} \cup (IF db.users[u].plive THEN {db.users[u].pend[1]} ELSE {})
OneAccountPerMailbox ==
    Cardinality(S.procs) = 1 /\ (\A a \in S.asks : a.op \notin {"oidc", "reg_finish"}) =>
        \A u, v \in Rows(db) : u # v => Holds(u) \cap Holds(v) = {}
=============================================================================
