------------------------------ MODULE Accounts ------------------------------
(***************************************************************************)
(* Requests about accounts: how one is authenticated (auth/session.go,     *)
(* api/authmw.go, webui/auth.go), the handlers of both doors (JSON API and *)
(* web pages), and the services behind them: AdminService,                 *)
(* EmailChangeService, OIDCService, APIKeyService.  Registration adds      *)
(* grants, passkeys and the first administrator, and the specification.    *)
(*                                                                         *)
(* A request is a record in call[p]; pc names the statement it is about to *)
(* run, and between two statements anything may happen.  Reads keep what   *)
(* they saw in row.  An error return is a request that ends: Fail, in      *)
(* Registration, may strike before any statement.                          *)
(***************************************************************************)
EXTENDS AccountStore

CONSTANTS
    Procs,    \* goroutines that serve requests
    Scenes    \* the situations to look at: tables, requests, processes, bounds

VARIABLES
    db,     \* the tables
    chals,  \* sealed challenge cookies given out, and whether claimChallenge has seen them
    mu,     \* who holds GrantService.replaceMu
    call,   \* the requests
    spent,  \* bounds: requests made, faults met
    scene   \* the name of the situation, fixed from the start

vars == <<db, chals, mu, call, spent, scene>>

S == Scenes[scene]

SessionOps == {"logout", "read", "key_mint", "key_revoke", "email_request", "email_cancel", "email_confirm",
               "pk_begin", "pk_finish", "pk_remove", "pk_rename"}
AdminOps == {"invite", "update", "toggle", "delete", "recovery", "reinvite", "set_email"}
OpenOps == {"oidc_start", "oidc", "login_begin", "login_finish", "recover", "reg_begin", "reg_finish"}
Ops == SessionOps \cup AdminOps \cup OpenOps

\* What a client chooses: the operation, by which door, as whom and about whom.
Ask == [op : Ops, door : {"api", "page", "key"}, me : Accounts \cup {Nobody}, tgt : Accounts \cup {Nobody},
        addr : Addresses \cup {NoAddr}, role : {"keep", "admin", "user"}, dis : {"keep", "on", "off"},
        sub : Subjects \cup {Nobody}, verified : BOOLEAN]

\* What a request that has not counted the administrators holds instead of their set.
NotCounted == {Nobody}

NoCall == [op |-> "none", door |-> "api", me |-> Nobody, tgt |-> Nobody, addr |-> NoAddr, role |-> "keep",
           dis |-> "keep", sub |-> Nobody, verified |-> FALSE,
           pc |-> "idle", sid |-> 0, ref |-> 0, tok |-> 0, row |-> NoUser, admins |-> NotCounted]

\* The statement a request is about to run.
Pcs == {"idle", "session", "user", "slide", "key", "key_user", "handler"}
       \cup {"mint_key", "owned_key", "revoke_key"}
       \cup {"get_target", "guard_role", "guard_dis", "set_role", "set_dis", "end_sessions", "guard_delete", "delete"}
       \cup {"invite_list", "invite_create", "issue_invite", "registered", "revoke_all", "lock", "replace", "mint",
             "recipient", "deliver", "recover_count", "recover_mint"}
       \cup {"request_check", "set_pending", "mail_confirm", "withdraw", "cancel", "confirm", "set_list", "set_email", "drop"}
       \cup {"complete_auth", "find_linked", "sync_list", "sync_set", "find_email", "find_legacy", "link", "signup", "new_session"}
       \cup {"begin", "claim", "signer", "signer_creds", "touch_cred", "verify", "set_handle", "create_cred",
             "owned", "rename", "remove_row", "remove_count", "remove"}
       \cup {"lookup", "grant_user", "first_run", "valid", "consume", "revoke_old",
             "no_admin", "boot_token", "consume_boot", "create_admin"}

Call == [op : Ops \cup {"none"}, door : {"api", "page", "key"}, me : Accounts \cup {Nobody}, tgt : Accounts \cup {Nobody},
         addr : Addresses \cup {NoAddr}, role : {"keep", "admin", "user"}, dis : {"keep", "on", "off"},
         sub : Subjects \cup {Nobody}, verified : BOOLEAN,
         pc : Pcs, sid : Nat, ref : Nat, tok : Nat, row : User, admins : SUBSET (Accounts \cup {Nobody})]

-----------------------------------------------------------------------------
(* A step of a request *)

At(p, pc) == call[p].pc = pc
To(c, pc) == [c EXCEPT !.pc = pc]
Step(p, c, tables) ==
    /\ call' = [call EXCEPT ![p] = c]
    /\ db' = tables
    /\ UNCHANGED <<chals, mu, spent, scene>>
Goto(p, pc) == Step(p, To(call[p], pc), db)
Reply(p) == Step(p, NoCall, db)

\* A statement or a check that goes through, or ends the request.
Try(p, ok, c, tables) == IF ok THEN Step(p, c, tables) ELSE Reply(p)
Handles(p, op, door) == At(p, "handler") /\ call[p].op = op /\ call[p].door = door

\* The target's row, or 404.
WithTarget(p, ok, pc) ==
    LET c == call[p] IN
    Try(p, c.tgt \in Rows(db) /\ ok, [c EXCEPT !.pc = pc, !.row = db.users[c.tgt]], db)

-----------------------------------------------------------------------------
(* Authentication.  The CSRF token comes with the session: a request without *)
(* it is refused before it reaches its handler and changes nothing.          *)

\* An Authorization header is the only credential looked at; else the cookie is.
FirstCheck(op, door) == IF op \in OpenOps THEN "handler" ELSE IF door = "key" THEN "key" ELSE "session"

\* sessions.GetByID and the expiry.
AuthSession(p) ==
    /\ At(p, "session")
    /\ Try(p, GetSession(db, call[p].sid) /\ db.sessions[call[p].sid].live, To(call[p], "user"), db)

\* APIKeyService.Authenticate.
AuthKey(p) ==
    /\ At(p, "key")
    /\ Try(p, GetKey(db, call[p].sid), To(call[p], "key_user"), db)

\* Who passes the administrators' doors, with the row it was authenticated by.
Permitted(c) == c.op \in AdminOps => c.row.role = "admin"
Admitted(c) == IF Permitted(c) THEN To(c, "handler") ELSE NoCall

\* A key's owner is never an administrator: no key is minted with that scope.
AuthKeyUser(p) ==
    /\ At(p, "key_user")
    /\ LET c == call[p]
           r == db.users[c.me]
       IN Try(p, c.me \in Rows(db) /\ ~r.dis, Admitted([c EXCEPT !.row = [r EXCEPT !.role = "user"]]), db)

\* users.GetByID: the row the handler is given as the caller.  The expiry slides
\* once in a while.
AuthUser(p) ==
    /\ At(p, "user")
    /\ LET c == [call[p] EXCEPT !.row = db.users[call[p].me]] IN
       \/ Try(p, c.me \in Rows(db) /\ ~c.row.dis, Admitted(c), db)
       \/ c.me \in Rows(db) /\ ~c.row.dis /\ Step(p, To(c, "slide"), db)

\* A slide that fails is passed over.
Slide(p) ==
    /\ At(p, "slide")
    /\ \E ok \in BOOLEAN :
         Step(p, Admitted(call[p]), IF ok /\ GetSession(db, call[p].sid) THEN TouchSession(db, call[p].sid) ELSE db)

-----------------------------------------------------------------------------
(* Sessions and API keys *)

Whoami(p) == At(p, "handler") /\ call[p].op = "read" /\ Reply(p)
Logout(p) == Handles(p, "logout", "api") /\ Step(p, NoCall, DeleteSession(db, call[p].sid))

Inserted(u, tables) == IF u \in Rows(db) THEN tables ELSE db

ApiKeyMint(p) == Handles(p, "key_mint", "api") /\ Goto(p, "mint_key")
PageKeyMint(p) == Handles(p, "key_mint", "page") /\ Goto(p, "mint_key")
MintKey(p) == At(p, "mint_key") /\ Step(p, NoCall, Inserted(call[p].me, CreateKey(db, call[p].me)))

ApiKeyRevoke(p) == Handles(p, "key_revoke", "api") /\ Goto(p, "owned_key")
PageKeyRevoke(p) == Handles(p, "key_revoke", "page") /\ Goto(p, "owned_key")
OwnedKey(p) ==
    /\ At(p, "owned_key")
    /\ Try(p, GetKey(db, call[p].ref) /\ db.keys[call[p].ref].user = call[p].me, To(call[p], "revoke_key"), db)
RevokeKey(p) == At(p, "revoke_key") /\ Step(p, NoCall, DeleteKey(db, call[p].ref))

-----------------------------------------------------------------------------
(* AdminService: the handlers *)

ApiUpdateUser(p) == Handles(p, "update", "api") /\ Goto(p, "get_target")
ApiDeleteUser(p) == Handles(p, "delete", "api") /\ Goto(p, "guard_delete")
ApiCreateUser(p) == Handles(p, "invite", "api") /\ Goto(p, "invite_list")
ApiSetUserEmail(p) == Handles(p, "set_email", "api") /\ WithTarget(p, TRUE, "set_list")
ApiReissueInvite(p) == Handles(p, "reinvite", "api") /\ WithTarget(p, TRUE, "registered")
ApiIssueRecovery(p) == Handles(p, "recovery", "api") /\ WithTarget(p, TRUE, "revoke_all")

PageUserSetEnabled(p) == Handles(p, "toggle", "page") /\ WithTarget(p, TRUE, "get_target")

\* Only the fields that differ from the row just read are sent on.
OnOff(b) == IF b THEN "on" ELSE "off"
PageUserUpdate(p) ==
    /\ Handles(p, "update", "page")
    /\ LET c == call[p]
           r == db.users[c.tgt]
           n == [c EXCEPT !.role = IF @ = r.role THEN "keep" ELSE @,
                          !.dis = IF @ = OnOff(r.dis) THEN "keep" ELSE @]
       IN Try(p, c.tgt \in Rows(db) /\ (n.role # "keep" \/ n.dis # "keep"), To(n, "get_target"), db)

\* The address must be typed as the row read has it.
Typed(p) == call[p].addr = db.users[call[p].tgt].email
PageUserDelete(p) == Handles(p, "delete", "page") /\ WithTarget(p, Typed(p), "guard_delete")
PageUserRecovery(p) == Handles(p, "recovery", "page") /\ WithTarget(p, Typed(p), "revoke_all")
PageUserReinvite(p) == Handles(p, "reinvite", "page") /\ WithTarget(p, TRUE, "registered")
PageUserEmail(p) == Handles(p, "set_email", "page") /\ WithTarget(p, TRUE, "set_list")
PageUserInvite(p) == Handles(p, "invite", "page") /\ Goto(p, "invite_list")

(* AdminService: UpdateUser, DeleteUser *)

GetTarget(p) == At(p, "get_target") /\ WithTarget(p, TRUE, "guard_role")

EnabledAdmins(d) == {u \in Rows(d) : IsEnabledAdmin(d.users[u])}

\* Mutated form of LastAdmin: compares for none, not for one.
LastAdminOffByOne(d, u) == u \in EnabledAdmins(d) /\ Cardinality(EnabledAdmins(d)) < 1

LastAdmin(d, u) == u \in EnabledAdmins(d) /\ Cardinality(EnabledAdmins(d)) <= 1

\* Not oneself, and not the last one.
Guarded(p) == call[p].tgt # call[p].me /\ ~LastAdmin(db, call[p].tgt)

\* The request goes on with the administrators it has counted.
Counted(p, pc) == [call[p] EXCEPT !.pc = pc, !.admins = EnabledAdmins(db)]

\* guardUpdateUser lists the users for each of the two changes.
GuardRole(p) ==
    /\ At(p, "guard_role")
    /\ IF call[p].role = "user" THEN Try(p, Guarded(p), Counted(p, "guard_dis"), db) ELSE Goto(p, "guard_dis")
GuardDisabled(p) ==
    /\ At(p, "guard_dis")
    /\ IF call[p].dis = "on" THEN Try(p, Guarded(p), Counted(p, "set_role"), db) ELSE Goto(p, "set_role")

ApplyRole(p) ==
    /\ At(p, "set_role")
    /\ LET c == call[p] IN
       IF c.role = "keep" THEN Goto(p, "set_dis")
       ELSE Try(p, c.tgt \in Rows(db), To(c, "set_dis"), SetRole(db, c.tgt, c.role))

\* A disabled account loses its sessions in a statement of its own.
ApplyDisabled(p) ==
    /\ At(p, "set_dis")
    /\ LET c == call[p] IN
       Try(p, c.dis # "keep" /\ c.tgt \in Rows(db), IF c.dis = "on" THEN To(c, "end_sessions") ELSE NoCall,
           SetDisabled(db, c.tgt, c.dis = "on"))
EndSessions(p) == At(p, "end_sessions") /\ Step(p, NoCall, DeleteSessionsByUser(db, call[p].tgt))

GuardDelete(p) == At(p, "guard_delete") /\ Try(p, Guarded(p), Counted(p, "delete"), db)
DeleteTarget(p) ==
    At(p, "delete") /\ Try(p, call[p].tgt \in Rows(db), NoCall, DeleteUser(db, call[p].tgt))

-----------------------------------------------------------------------------
(* Addresses: who holds one *)

\* Mutated form of Held: an address somebody is waiting to confirm is free.
HeldStored(d, a, u) == \E v \in Rows(d) \ {u} : EqualFold(NormalizeAddress(d.users[v].email), a)

\* addressHeld, in any spelling, pending ones included.
Held(d, a, u) ==
    \E v \in Rows(d) \ {u} : \/ EqualFold(NormalizeAddress(d.users[v].email), a)
                             \/ d.users[v].plive /\ EqualFold(d.users[v].pend, a)

\* AdminService.CreateUserInvite; the grant is IssueInvite's, in Registration.
InviteList(p) == At(p, "invite_list") /\ Try(p, ~Held(db, call[p].addr, Nobody), To(call[p], "invite_create"), db)
InviteCreate(p) ==
    /\ At(p, "invite_create")
    /\ LET c == call[p]
           new == Create(db, c.addr, c.role, Nobody, "invite")
       IN Try(p, CanCreate(db, c.addr, Nobody),
              [c EXCEPT !.pc = "issue_invite", !.tgt = NewId(db), !.row = new.users[NewId(db)]], new)

-----------------------------------------------------------------------------
(* EmailChangeService *)

ApiEmailRequest(p) == Handles(p, "email_request", "api") /\ Goto(p, "request_check")
PageEmailRequest(p) == Handles(p, "email_request", "page") /\ Goto(p, "request_check")
ApiEmailCancel(p) == Handles(p, "email_cancel", "api") /\ Goto(p, "cancel")
PageEmailCancel(p) == Handles(p, "email_cancel", "page") /\ Goto(p, "cancel")
ApiEmailConfirm(p) == Handles(p, "email_confirm", "api") /\ Goto(p, "confirm")
PageEmailConfirm(p) == Handles(p, "email_confirm", "page") /\ Goto(p, "confirm")

\* validateRequest; a change already pending for that address is not sent again.
RequestCheck(p) ==
    /\ At(p, "request_check")
    /\ LET c == call[p] IN
       Try(p, /\ c.row.sub = Nobody /\ ~SameText(c.addr, c.row.email)
              /\ ~Held(db, c.addr, c.me)
              /\ ~(EqualFold(c.row.pend, c.addr) /\ c.row.plive), To(c, "set_pending"), db)

RequestPend(p) ==
    At(p, "set_pending") /\ Try(p, call[p].me \in Rows(db), To(call[p], "mail_confirm"),
                                SetPendingEmail(db, call[p].me, call[p].addr))

\* The confirmation goes out, or the change is withdrawn.
RequestMailed(p) == At(p, "mail_confirm") /\ Reply(p)
RequestUnsent(p) ==
    /\ At(p, "mail_confirm") /\ spent.faults < S.faults
    /\ call' = [call EXCEPT ![p] = To(@, "withdraw")]
    /\ spent' = [spent EXCEPT !.faults = @ + 1]
    /\ UNCHANGED <<db, chals, mu, scene>>
RequestWithdraw(p) ==
    At(p, "withdraw") /\ Try(p, call[p].me \in Rows(db), NoCall, ClearPendingEmail(db, call[p].me))

\* By the caller's row: nothing pending there, nothing to do.
Cancel(p) ==
    At(p, "cancel") /\ Try(p, call[p].row.pend # NoAddr /\ call[p].me \in Rows(db), NoCall,
                           ClearPendingEmail(db, call[p].me))

Confirm(p) ==
    /\ At(p, "confirm")
    /\ LET c == call[p] IN
       Try(p, c.row.sub = Nobody /\ CanConfirm(db, c.me, c.tok), [c EXCEPT !.pc = "drop", !.tgt = c.me],
           ConfirmPendingEmail(db, c.me))

SetList(p) ==
    /\ At(p, "set_list")
    /\ LET c == call[p] IN
       Try(p, ~SameText(c.addr, c.row.email) /\ ~Held(db, c.addr, c.tgt), To(c, "set_email"), db)
AdminSet(p) ==
    At(p, "set_email") /\ Try(p, CanSetEmail(db, call[p].tgt, call[p].addr), To(call[p], "drop"),
                              SetEmail(db, call[p].tgt, call[p].addr))

\* applyChanged: links mailed to the old address end here.
ApplyChanged(p) ==
    /\ At(p, "drop")
    /\ Step(p, IF call[p].op = "oidc" THEN To(call[p], "new_session") ELSE NoCall, 
            DeleteUnusedByUser(db, call[p].tgt))

-----------------------------------------------------------------------------
(* OIDCService.LoginOrLink *)

\* The callback must bring the sealed cookie of a sign-in that was started here,
\* which nothing else opens; the exchange with the provider may be refused.
OIDCCallback(p) ==
    /\ Handles(p, "oidc", "api")
    /\ Try(p, chals[call[p].ref].aad = "oidc", To(call[p], "complete_auth"), db)
CompleteAuth(p) ==
    At(p, "complete_auth") /\ \E ok \in BOOLEAN : Try(p, ok, To(call[p], "find_linked"), db)

\* A linked account signs in, and takes over the provider's address.
FindLinked(p) ==
    /\ At(p, "find_linked")
    /\ LET c == call[p] IN
       IF GetByOIDC(db, c.sub) = {} THEN Goto(p, "find_email")
       ELSE \E u \in GetByOIDC(db, c.sub) :
              Try(p, ~db.users[u].dis,
                  [c EXCEPT !.tgt = u, !.row = db.users[u],
                            !.pc = IF SameText(c.addr, db.users[u].email) THEN "new_session" ELSE "sync_list"], db)

SyncList(p) ==
    /\ At(p, "sync_list")
    /\ Goto(p, IF Held(db, call[p].addr, call[p].tgt) THEN "new_session" ELSE "sync_set")
SyncSet(p) ==
    /\ At(p, "sync_set")
    /\ LET c == call[p] IN
       IF CanSetEmail(db, c.tgt, c.addr) THEN Step(p, To(c, "drop"), SetEmail(db, c.tgt, c.addr))
                                         ELSE Goto(p, "new_session")

\* findByEmail: by key, then through the list for a row that was stored uncanonically.
FindEmail(p, us, otherwise) ==
    LET c == call[p] IN
    IF us = {} THEN Goto(p, otherwise)
    ELSE \E u \in us : LET r == db.users[u] IN
           Try(p, c.verified /\ r.role # "admin" /\ r.sub = Nobody, [c EXCEPT !.pc = "link", !.tgt = u, !.row = r], db)
FindByEmail(p) == At(p, "find_email") /\ FindEmail(p, GetByEmail(db, call[p].addr), "find_legacy")
FindLegacy(p) ==
    /\ At(p, "find_legacy")
    /\ FindEmail(p, {u \in Rows(db) : NormalizeAddress(db.users[u].email) = call[p].addr}, "signup")

Link(p) ==
    /\ At(p, "link")
    /\ LET c == call[p] IN
       Try(p, CanLinkOIDC(db, c.tgt, c.row, c.addr, c.sub), To(c, "new_session"), LinkOIDC(db, c.tgt, c.addr, c.sub))
Signup(p) ==
    /\ At(p, "signup")
    /\ LET c == call[p] IN
       Try(p, CanCreate(db, c.addr, c.sub), [c EXCEPT !.pc = "new_session", !.tgt = NewId(db)],
           Create(db, c.addr, "user", c.sub, "oidc"))

\* SessionManager.Create, the last step of every way in.
OpenSession(p) ==
    At(p, "new_session") /\ Step(p, NoCall, Inserted(call[p].tgt, CreateSession(db, call[p].tgt)))

AccountStep(p) ==
    \/ AuthSession(p) \/ AuthKey(p) \/ AuthKeyUser(p) \/ AuthUser(p) \/ Slide(p) \/ Whoami(p) \/ Logout(p)
    \/ ApiKeyMint(p) \/ PageKeyMint(p) \/ MintKey(p) \/ ApiKeyRevoke(p) \/ PageKeyRevoke(p) \/ OwnedKey(p) \/ RevokeKey(p)
    \/ ApiUpdateUser(p) \/ ApiDeleteUser(p) \/ ApiCreateUser(p) \/ ApiSetUserEmail(p) \/ ApiReissueInvite(p)
    \/ ApiIssueRecovery(p) \/ PageUserSetEnabled(p) \/ PageUserUpdate(p) \/ PageUserDelete(p) \/ PageUserRecovery(p)
    \/ PageUserReinvite(p) \/ PageUserEmail(p) \/ PageUserInvite(p)
    \/ GetTarget(p) \/ GuardRole(p) \/ GuardDisabled(p) \/ ApplyRole(p) \/ ApplyDisabled(p) \/ EndSessions(p)
    \/ GuardDelete(p) \/ DeleteTarget(p) \/ InviteList(p) \/ InviteCreate(p)
    \/ ApiEmailRequest(p) \/ PageEmailRequest(p) \/ ApiEmailCancel(p) \/ PageEmailCancel(p)
    \/ ApiEmailConfirm(p) \/ PageEmailConfirm(p)
    \/ RequestCheck(p) \/ RequestPend(p) \/ RequestMailed(p) \/ RequestUnsent(p) \/ RequestWithdraw(p)
    \/ Cancel(p) \/ Confirm(p) \/ SetList(p) \/ AdminSet(p) \/ ApplyChanged(p)
    \/ OIDCCallback(p) \/ CompleteAuth(p) \/ FindLinked(p) \/ SyncList(p) \/ SyncSet(p) \/ FindByEmail(p) \/ FindLegacy(p)
    \/ Link(p) \/ Signup(p) \/ OpenSession(p)
=============================================================================
