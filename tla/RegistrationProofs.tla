------------------------- MODULE RegistrationProofs -------------------------
(***************************************************************************)
(* Accounts, links, passkeys and the first administrator, proved for any   *)
(* number of accounts, requests in flight and situations.                  *)
(*                                                                         *)
(* A request is described by the statement it is at (Fits, Names); only    *)
(* then can a step be described without its request: it moves one request  *)
(* on and leaves the tables of the argument alone (Calm), writes one       *)
(* account's row (AccountWrite), is one of the few statements the          *)
(* properties are about (Busy), or no request moves (Meanwhile).  Each     *)
(* property has an invariant over this one: RedeemInv follows a link from  *)
(* Consume to its credential, LinkInv and MailInv follow a replacement     *)
(* from the delete to the mailbox, PendInv ties a pending address to its   *)
(* mail, FirstInv an open setup token to the absence of administrators,    *)
(* and MailboxInv an address about to be written to the look that found it *)
(* free.                                                                   *)
(***************************************************************************)
EXTENDS Registration, FiniteSetTheorems, TLAPS

-----------------------------------------------------------------------------
(* What a request is, by the statement it is at *)

\* The request has counted, and not the account alone.
Spared(c) == c.admins # NotCounted /\ c.admins # {c.tgt}

Fits(c) ==
    /\ c \in Call
    /\ c.op = "invite" => c.role # "keep"
    /\ c.pc \in {"get_target", "guard_role", "guard_dis", "set_role"} => c.op \in AdminOps
    /\ c.pc \in {"invite_list", "invite_create"} => c.op = "invite"
    /\ c.pc \in {"lookup", "grant_user", "first_run", "boot_token"} => c.op = "reg_begin"
    /\ c.pc \in {"valid", "no_admin"} => c.op \in {"reg_begin", "reg_finish"}
    /\ c.pc = "claim" => c.op \in {"login_finish", "pk_finish", "reg_finish"}
    /\ c.pc \in {"verify", "set_handle", "create_cred"} => c.op \in {"pk_finish", "reg_finish"}
    /\ c.pc \in {"consume", "revoke_old", "consume_boot", "create_admin"} => c.op = "reg_finish"
    /\ c.pc = "guard_dis" /\ c.role = "user" => Spared(c)
    /\ c.pc = "set_role" /\ (c.role = "user" \/ c.dis = "on") => Spared(c)
    /\ c.pc = "set_dis" /\ c.dis = "on" => Spared(c)
    /\ c.pc = "delete" => Spared(c)
    /\ c.pc = "link" => c.row.role = "user" /\ NormalizeAddress(c.row.email) = NormalizeAddress(c.addr)

\* The rows and challenges it names exist, and the challenge is one it can open.
Names(c, gs, ch) ==
    /\ c.op \in {"login_finish", "pk_finish", "reg_finish"} => c.ref \in 1..Len(ch)
    /\ c.op \in {"reg_begin", "reg_finish"} => c.tok \in 0..Len(gs)
    /\ c.pc \in {"recipient", "deliver"} => c.tok \in 1..Len(gs)
    /\ c.pc = "recipient" => gs[c.tok].user = c.tgt
    /\ c.pc \in {"verify", "set_handle", "create_cred"} => ch[c.ref].aad \in OpenedBy(c)
    /\ c.pc \in {"consume", "revoke_old"} => ch[c.ref].aad = "webauthn"
    /\ c.pc \in {"consume_boot", "create_admin"} => ch[c.ref].aad = "claim"
    /\ c.pc = "no_admin" /\ c.op = "reg_finish" => ch[c.ref].aad = "claim"
    /\ /\ c.op = "reg_finish" /\ ch[c.ref].aad = "webauthn"
       /\ c.pc \in {"claim", "verify", "consume", "revoke_old", "set_handle", "create_cred"}
       => c.tok \in 1..Len(gs) /\ gs[c.tok].user = c.tgt

Mutex == \A p \in Procs : call[p].pc \in {"replace", "mint"} <=> mu = p

RequestInv ==
    /\ scene \in DOMAIN Scenes
    /\ TypeOK /\ Mutex
    /\ \A p \in Procs : Fits(call[p]) /\ Names(call[p], db.grants, chals)

-----------------------------------------------------------------------------
(* Redeeming a link *)

\* It has consumed its link and is to register one credential.
Holding(c, ch) ==
    /\ c.op = "reg_finish" /\ ch[c.ref].aad = "webauthn"
    /\ c.pc \in {"revoke_old", "set_handle", "create_cred"}

\* Of the credentials from before a recovery, none is left.
Replaced(g, cs) ==
    g.reason = "recovery" => \A j \in 1..g.upto : cs[j].user = g.user => cs[j].st = "gone"

Redeems(c, gs, cs, ch) ==
    /\ Holding(c, ch) => gs[c.tok].st # "unused" /\ \A i \in 1..Len(cs) : cs[i].grant # c.tok
    /\ Holding(c, ch) /\ c.pc # "revoke_old" => Replaced(gs[c.tok], cs)

\* A credential's link is used up, and no other credential's.
Registered1(gs, cs) ==
    /\ \A g \in 1..Len(gs) : gs[g].upto <= Len(cs)
    /\ \A i \in 1..Len(cs) : cs[i].grant > 0 =>
         /\ cs[i].grant <= Len(gs) /\ gs[cs[i].grant].st # "unused" /\ gs[cs[i].grant].user = cs[i].user
         /\ Replaced(gs[cs[i].grant], cs)
         /\ \A j \in 1..Len(cs) : cs[j].grant = cs[i].grant => i = j

RedeemInv ==
    /\ Registered1(db.grants, db.creds)
    /\ \A p \in Procs : Redeems(call[p], db.grants, db.creds, chals)
    /\ \A p, q \in Procs : Holding(call[p], chals) /\ Holding(call[q], chals) /\ call[p].tok = call[q].tok => p = q

-----------------------------------------------------------------------------
(* Replacing a link *)

\* The links that work and were minted to replace others.
Replacements(gs) == {i \in 1..Len(gs) : gs[i].st = "unused" /\ gs[i].replaces}

Dropping(u) == \E p \in Procs : At(p, "drop") /\ call[p].tgt = u

LinkInv ==
    /\ \A i \in 1..Len(db.grants) : db.grants[i].st = "unused" => db.grants[i].user \in Rows(db)
    /\ \A i, j \in Replacements(db.grants) : db.grants[i].user = db.grants[j].user => i = j
    /\ \A p \in Procs : At(p, "mint") => \A i \in Replacements(db.grants) : db.grants[i].user # call[p].tgt

MailInv ==
    /\ AdminLinksCurrent
    /\ spent.faults = 0 =>
         \A p \in Procs : At(p, "deliver") =>
            LET g == db.grants[call[p].tok] IN
            g.st = "unused" /\ g.replaces =>
                NormalizeAddress(call[p].row.email) = NormalizeAddress(db.users[g.user].email) \/ Dropping(g.user)

-----------------------------------------------------------------------------
(* Pending addresses and the first administrator *)

\* The account's token is the one mailed to the address it waits for.
Pended(r, ms) == r.plive => r.ptok \in 1..Len(ms) /\ ms[r.ptok] = r.pend
PendInv == \A u \in Accounts : Pended(db.users[u], db.mails)

\* Past authentication, as an administrator.
Authority(c) ==
    /\ c.op \in AdminOps
    /\ c.pc \notin {"idle", "session", "user", "key", "key_user"}
    /\ c.pc = "slide" => c.row.role = "admin"

\* Nobody administers yet: the token can be consumed, or somebody has just done so.
Vacant == db.boot.open \/ \E p \in Procs : At(p, "create_admin")
FirstInv ==
    /\ Vacant => ~AdminExists(db) /\ \A p \in Procs : ~Authority(call[p])
    /\ \A p, q \in Procs : At(p, "create_admin") => ~db.boot.open /\ (At(q, "create_admin") => p = q)
-----------------------------------------------------------------------------
(* The statements: which tables they leave alone, and what they write *)

\* Only users, mails, sessions and keys may differ.
Apart(d, e) == e \in Tables /\ e.grants = d.grants /\ e.creds = d.creds /\ e.boot = d.boot

\* u's row becomes r.
Rewrites(d, e, u, r) == Apart(d, e) /\ e.mails = d.mails /\ r \in User /\ e.users = [d.users EXCEPT ![u] = r]

LEMMA TablesFields ==
    ASSUME NEW d \in Tables
    PROVE  /\ d.users \in [Accounts -> User] /\ d.grants \in Seq(Grant) /\ d.creds \in Seq(Credential)
           /\ d.sessions \in Seq(Owned) /\ d.keys \in Seq(Owned) /\ d.mails \in Seq(Addresses \cup {NoAddr})
           /\ d.boot \in [token : Nat, open : BOOLEAN]
           /\ Len(d.grants) \in Nat /\ Len(d.creds) \in Nat /\ Len(d.mails) \in Nat
BY DEF Tables

LEMMA UsersSet ==
    ASSUME NEW d \in Tables, NEW us \in [Accounts -> User]
    PROVE  /\ Apart(d, [d EXCEPT !.users = us])
           /\ [d EXCEPT !.users = us].users = us /\ [d EXCEPT !.users = us].mails = d.mails
BY DEF Tables, Apart

LEMMA GrantsSet ==
    ASSUME NEW d \in Tables, NEW gs \in Seq(Grant)
    PROVE  /\ [d EXCEPT !.grants = gs] \in Tables /\ [d EXCEPT !.grants = gs].grants = gs
           /\ [d EXCEPT !.grants = gs].users = d.users /\ [d EXCEPT !.grants = gs].mails = d.mails
           /\ [d EXCEPT !.grants = gs].creds = d.creds /\ [d EXCEPT !.grants = gs].boot = d.boot
BY DEF Tables

LEMMA CredsSet ==
    ASSUME NEW d \in Tables, NEW cs \in Seq(Credential)
    PROVE  /\ [d EXCEPT !.creds = cs] \in Tables /\ [d EXCEPT !.creds = cs].creds = cs
           /\ [d EXCEPT !.creds = cs].users = d.users /\ [d EXCEPT !.creds = cs].mails = d.mails
           /\ [d EXCEPT !.creds = cs].grants = d.grants /\ [d EXCEPT !.creds = cs].boot = d.boot
BY DEF Tables

LEMMA BootSet ==
    ASSUME NEW d \in Tables, NEW b \in [token : Nat, open : BOOLEAN]
    PROVE  /\ [d EXCEPT !.boot = b] \in Tables /\ [d EXCEPT !.boot = b].boot = b
           /\ [d EXCEPT !.boot = b].users = d.users /\ [d EXCEPT !.boot = b].mails = d.mails
           /\ [d EXCEPT !.boot = b].grants = d.grants /\ [d EXCEPT !.boot = b].creds = d.creds
BY DEF Tables

\* Sessions and keys matter to nothing that follows.
Aside(d, e) == Apart(d, e) /\ e.users = d.users /\ e.mails = d.mails

LEMMA SessionsSet ==
    ASSUME NEW d \in Tables, NEW ss \in Seq(Owned)
    PROVE  Aside(d, [d EXCEPT !.sessions = ss]) /\ Aside(d, [d EXCEPT !.keys = ss])
BY DEF Tables, Aside, Apart

LEMMA WithoutIs ==
    ASSUME NEW T, NEW s \in Seq(T), NEW gone, \A e \in T : [e EXCEPT !.st = "gone"] \in T
    PROVE  /\ Without(s, gone) \in Seq(T) /\ Len(Without(s, gone)) = Len(s)
           /\ \A i \in 1..Len(s) : Without(s, gone)[i] = IF i \in gone THEN [s[i] EXCEPT !.st = "gone"] ELSE s[i]
<1>1. Len(s) \in Nat /\ \A i \in 1..Len(s) : s[i] \in T
  OBVIOUS
<1>2. Without(s, gone) \in [1..Len(s) -> T]
  BY <1>1 DEF Without
<1>3. Without(s, gone) \in Seq(T) /\ Len(Without(s, gone)) = Len(s)
  BY <1>1, <1>2
<1> QED BY <1>3 DEF Without

LEMMA WithoutOwned ==
    ASSUME NEW s \in Seq(Owned), NEW gone PROVE Without(s, gone) \in Seq(Owned)
<1>1. \A e \in Owned : [e EXCEPT !.st = "gone"] \in Owned
  BY DEF Owned
<1> QED BY <1>1, WithoutIs

LEMMA WithoutCreds ==
    ASSUME NEW s \in Seq(Credential), NEW gone
    PROVE  /\ Without(s, gone) \in Seq(Credential) /\ Len(Without(s, gone)) = Len(s)
           /\ \A i \in 1..Len(s) :
                /\ Without(s, gone)[i].user = s[i].user /\ Without(s, gone)[i].grant = s[i].grant
                /\ Without(s, gone)[i].st = IF i \in gone THEN "gone" ELSE s[i].st
<1>1. \A e \in Credential : [e EXCEPT !.st = "gone"] \in Credential
  BY DEF Credential
<1>2. \A e \in Credential :
        /\ [e EXCEPT !.st = "gone"].user = e.user /\ [e EXCEPT !.st = "gone"].grant = e.grant
        /\ [e EXCEPT !.st = "gone"].st = "gone"
  BY DEF Credential
<1>3. \A i \in 1..Len(s) : s[i] \in Credential
  OBVIOUS
<1>4. /\ Without(s, gone) \in Seq(Credential) /\ Len(Without(s, gone)) = Len(s)
      /\ \A i \in 1..Len(s) : Without(s, gone)[i] = IF i \in gone THEN [s[i] EXCEPT !.st = "gone"] ELSE s[i]
  BY <1>1, WithoutIs
<1> HIDE DEF Without
<1> QED BY <1>2, <1>3, <1>4

LEMMA WithoutGrants ==
    ASSUME NEW s \in Seq(Grant), NEW gone
    PROVE  /\ Without(s, gone) \in Seq(Grant) /\ Len(Without(s, gone)) = Len(s)
           /\ \A i \in 1..Len(s) :
                /\ Without(s, gone)[i].user = s[i].user /\ Without(s, gone)[i].reason = s[i].reason
                /\ Without(s, gone)[i].replaces = s[i].replaces /\ Without(s, gone)[i].to = s[i].to
                /\ Without(s, gone)[i].upto = s[i].upto
                /\ Without(s, gone)[i].st = IF i \in gone THEN "gone" ELSE s[i].st
<1>1. \A e \in Grant : [e EXCEPT !.st = "gone"] \in Grant
  BY DEF Grant
<1>2. \A e \in Grant :
        /\ [e EXCEPT !.st = "gone"].user = e.user /\ [e EXCEPT !.st = "gone"].reason = e.reason
        /\ [e EXCEPT !.st = "gone"].replaces = e.replaces /\ [e EXCEPT !.st = "gone"].to = e.to
        /\ [e EXCEPT !.st = "gone"].upto = e.upto /\ [e EXCEPT !.st = "gone"].st = "gone"
  BY DEF Grant
<1>3. \A i \in 1..Len(s) : s[i] \in Grant
  OBVIOUS
<1>4. /\ Without(s, gone) \in Seq(Grant) /\ Len(Without(s, gone)) = Len(s)
      /\ \A i \in 1..Len(s) : Without(s, gone)[i] = IF i \in gone THEN [s[i] EXCEPT !.st = "gone"] ELSE s[i]
  BY <1>1, WithoutIs
<1> HIDE DEF Without
<1>5. ASSUME NEW i \in 1..Len(s)
      PROVE  /\ Without(s, gone)[i].user = s[i].user /\ Without(s, gone)[i].reason = s[i].reason
             /\ Without(s, gone)[i].replaces = s[i].replaces /\ Without(s, gone)[i].to = s[i].to
             /\ Without(s, gone)[i].upto = s[i].upto
             /\ Without(s, gone)[i].st = IF i \in gone THEN "gone" ELSE s[i].st
  <2> DEFINE e == s[i]
             w == Without(s, gone)[i]
  <2>1. e \in Grant /\ w = IF i \in gone THEN [e EXCEPT !.st = "gone"] ELSE e
    BY <1>3, <1>4, <1>5
  <2> HIDE DEF e, w
  <2>2. w.user = e.user /\ w.reason = e.reason /\ w.replaces = e.replaces /\ w.to = e.to /\ w.upto = e.upto
        /\ w.st = IF i \in gone THEN "gone" ELSE e.st
    BY <1>2, <2>1
  <2> QED BY <2>2 DEF e, w
<1> QED BY <1>4, <1>5

LEMMA UserFields ==
    ASSUME NEW r \in User
    PROVE  /\ Unpended(r) \in User /\ ~Unpended(r).plive
           /\ Unpended(r).life = r.life /\ Unpended(r).email = r.email /\ Unpended(r).role = r.role
           /\ Unpended(r).dis = r.dis /\ Unpended(r).sub = r.sub /\ Unpended(r).by = r.by
BY DEF User, Unpended, NoAddr

LEMMA UserEdits ==
    ASSUME NEW r \in User, NEW a \in Addresses \cup {NoAddr}, NEW s \in Subjects \cup {Nobody}, NEW n \in Nat,
           NEW b \in BOOLEAN, NEW x \in {"admin", "user"}
    PROVE  /\ [r EXCEPT !.role = x] \in User /\ [r EXCEPT !.dis = b] \in User /\ [r EXCEPT !.handle = n] \in User
           /\ [r EXCEPT !.email = a] \in User /\ [r EXCEPT !.email = a, !.sub = s] \in User
           /\ [r EXCEPT !.plive = FALSE] \in User
           /\ [r EXCEPT !.pend = a, !.ptok = n, !.plive = TRUE] \in User
<1>1. [r EXCEPT !.role = x] \in User /\ [r EXCEPT !.dis = b] \in User
  BY DEF User
<1>2. [r EXCEPT !.handle = n] \in User /\ [r EXCEPT !.email = a] \in User
  BY DEF User
<1>3. [r EXCEPT !.email = a, !.sub = s] \in User
  BY DEF User
<1>4. [r EXCEPT !.plive = FALSE] \in User
  BY DEF User
<1>5. [r EXCEPT !.pend = a, !.ptok = n, !.plive = TRUE] \in User
  BY DEF User
<1> QED BY <1>1, <1>2, <1>3, <1>4, <1>5

LEMMA OneUser ==
    ASSUME NEW d \in Tables, NEW u \in Accounts, NEW r \in User
    PROVE  Rewrites(d, [d EXCEPT !.users = [d.users EXCEPT ![u] = r]], u, r)
<1> DEFINE us == [d.users EXCEPT ![u] = r]
<1>1. us \in [Accounts -> User]
  BY TablesFields
<1> HIDE DEF us
<1>2. Apart(d, [d EXCEPT !.users = us]) /\ [d EXCEPT !.users = us].users = us /\ [d EXCEPT !.users = us].mails = d.mails
  BY <1>1, UsersSet
<1> QED BY <1>2 DEF Rewrites, us

LEMMA SetRoleDoes ==
    ASSUME NEW d \in Tables, NEW u \in Accounts, NEW x \in {"admin", "user"}
    PROVE  Rewrites(d, SetRole(d, u, x), u, [d.users[u] EXCEPT !.role = x])
<1> DEFINE r == [d.users[u] EXCEPT !.role = x]
<1>1. r \in User
  BY TablesFields, UserEdits
<1>2. SetRole(d, u, x) = [d EXCEPT !.users = [d.users EXCEPT ![u] = r]]
  BY DEF SetRole
<1> HIDE DEF r
<1>3. Rewrites(d, SetRole(d, u, x), u, r)
  BY <1>1, <1>2, OneUser
<1> QED BY <1>3 DEF r

LEMMA SetDisabledDoes ==
    ASSUME NEW d \in Tables, NEW u \in Accounts, NEW b \in BOOLEAN
    PROVE  Rewrites(d, SetDisabled(d, u, b), u, [d.users[u] EXCEPT !.dis = b])
<1> DEFINE r == [d.users[u] EXCEPT !.dis = b]
<1>1. r \in User
  BY TablesFields, UserEdits
<1>2. SetDisabled(d, u, b) = [d EXCEPT !.users = [d.users EXCEPT ![u] = r]]
  BY DEF SetDisabled
<1> HIDE DEF r
<1>3. Rewrites(d, SetDisabled(d, u, b), u, r)
  BY <1>1, <1>2, OneUser
<1> QED BY <1>3 DEF r

LEMMA SetHandleDoes ==
    ASSUME NEW d \in Tables, NEW u \in Accounts, NEW n \in Nat
    PROVE  Rewrites(d, SetWebAuthnHandle(d, u, n), u, [d.users[u] EXCEPT !.handle = n])
<1> DEFINE r == [d.users[u] EXCEPT !.handle = n]
<1>1. r \in User
  BY TablesFields, UserEdits
<1>2. SetWebAuthnHandle(d, u, n) = [d EXCEPT !.users = [d.users EXCEPT ![u] = r]]
  BY DEF SetWebAuthnHandle
<1> HIDE DEF r
<1>3. Rewrites(d, SetWebAuthnHandle(d, u, n), u, r)
  BY <1>1, <1>2, OneUser
<1> QED BY <1>3 DEF r

LEMMA ExpirePendingDoes ==
    ASSUME NEW d \in Tables, NEW u \in Accounts
    PROVE  Rewrites(d, [d EXCEPT !.users[u].plive = FALSE], u, [d.users[u] EXCEPT !.plive = FALSE])
<1> DEFINE r == [d.users[u] EXCEPT !.plive = FALSE]
<1>1. r \in User
  BY TablesFields, UserEdits
<1>2. [d EXCEPT !.users[u].plive = FALSE] = [d EXCEPT !.users = [d.users EXCEPT ![u] = r]]
  OBVIOUS
<1> HIDE DEF r
<1>3. Rewrites(d, [d EXCEPT !.users[u].plive = FALSE], u, r)
  BY <1>1, <1>2, OneUser
<1> QED BY <1>3 DEF r

LEMMA LinkDoes ==
    ASSUME NEW d \in Tables, NEW u \in Accounts, NEW a \in Addresses \cup {NoAddr}, NEW s \in Subjects \cup {Nobody}
    PROVE  Rewrites(d, LinkOIDC(d, u, a, s), u, [d.users[u] EXCEPT !.email = a, !.sub = s])
<1> DEFINE q == [d.users[u] EXCEPT !.email = a]
           r == [d.users[u] EXCEPT !.email = a, !.sub = s]
           e == [d EXCEPT !.users = [d.users EXCEPT ![u] = q]]
<1>1. r \in User /\ q \in User /\ r = [q EXCEPT !.sub = s]
  BY TablesFields, UserEdits
<1>2. LinkOIDC(d, u, a, s) = [e EXCEPT !.users = [e.users EXCEPT ![u] = [e.users[u] EXCEPT !.sub = s]]]
  BY DEF LinkOIDC
<1> HIDE DEF q, r
<1>3. Rewrites(d, e, u, q)
  BY <1>1, OneUser
<1>4. e \in Tables /\ e.users[u] = q
  BY <1>3, TablesFields DEF Rewrites, Apart
<1>5. LinkOIDC(d, u, a, s) = [e EXCEPT !.users = [e.users EXCEPT ![u] = r]]
  BY <1>1, <1>2, <1>4
<1> HIDE DEF e
<1>6. Rewrites(e, LinkOIDC(d, u, a, s), u, r)
  BY <1>1, <1>4, <1>5, OneUser
<1>7. [e.users EXCEPT ![u] = r] = [d.users EXCEPT ![u] = r]
  BY <1>3 DEF Rewrites
<1>8. Rewrites(d, LinkOIDC(d, u, a, s), u, r)
  BY <1>3, <1>6, <1>7 DEF Rewrites, Apart
<1> QED BY <1>8 DEF r

LEMMA ClearPendingDoes ==
    ASSUME NEW d \in Tables, NEW u \in Accounts
    PROVE  Rewrites(d, ClearPendingEmail(d, u), u, Unpended(d.users[u]))
<1> DEFINE r == Unpended(d.users[u])
<1>1. r \in User
  BY TablesFields, UserFields
<1>2. ClearPendingEmail(d, u) = [d EXCEPT !.users = [d.users EXCEPT ![u] = r]]
  BY DEF ClearPendingEmail
<1> HIDE DEF r
<1>3. Rewrites(d, ClearPendingEmail(d, u), u, r)
  BY <1>1, <1>2, OneUser
<1> QED BY <1>3 DEF r

LEMMA SetEmailDoes ==
    ASSUME NEW d \in Tables, NEW u \in Accounts, NEW a \in Addresses \cup {NoAddr}
    PROVE  Rewrites(d, SetEmail(d, u, a), u, Unpended([d.users[u] EXCEPT !.email = a]))
<1> DEFINE r == Unpended([d.users[u] EXCEPT !.email = a])
<1>1. r \in User
  <2>1. [d.users[u] EXCEPT !.email = a] \in User
    BY TablesFields, UserEdits
  <2> QED BY <2>1, UserFields
<1>2. SetEmail(d, u, a) = [d EXCEPT !.users = [d.users EXCEPT ![u] = r]]
  BY DEF SetEmail
<1> HIDE DEF r
<1>3. Rewrites(d, SetEmail(d, u, a), u, r)
  BY <1>1, <1>2, OneUser
<1> QED BY <1>3 DEF r

LEMMA ConfirmDoes ==
    ASSUME NEW d \in Tables, NEW u \in Accounts
    PROVE  ConfirmPendingEmail(d, u) = SetEmail(d, u, d.users[u].pend) /\ d.users[u].pend \in Addresses \cup {NoAddr}
BY TablesFields DEF ConfirmPendingEmail, SetEmail, User

LEMMA SetPendingDoes ==
    ASSUME NEW d \in Tables, NEW u \in Accounts, NEW a \in Addresses \cup {NoAddr}
    PROVE  /\ Apart(d, SetPendingEmail(d, u, a)) /\ SetPendingEmail(d, u, a).mails = Append(d.mails, a)
           /\ SetPendingEmail(d, u, a).users =
                [d.users EXCEPT ![u] = [d.users[u] EXCEPT !.pend = a, !.ptok = Len(d.mails) + 1, !.plive = TRUE]]
           /\ [d.users[u] EXCEPT !.pend = a, !.ptok = Len(d.mails) + 1, !.plive = TRUE] \in User
<1> DEFINE n == Len(d.mails) + 1
           r1 == [d.users[u] EXCEPT !.pend = a]
           r2 == [r1 EXCEPT !.ptok = n]
           r3 == [r2 EXCEPT !.plive = TRUE]
           e1 == [d EXCEPT !.users = [d.users EXCEPT ![u] = r1]]
           e2 == [e1 EXCEPT !.users = [e1.users EXCEPT ![u] = r2]]
           e3 == [e2 EXCEPT !.users = [e2.users EXCEPT ![u] = r3]]
<1>0. n \in Nat /\ d.users[u] \in User /\ d.users \in [Accounts -> User] /\ d.mails \in Seq(Addresses \cup {NoAddr})
  BY TablesFields
<1>1. /\ r1 \in User /\ r2 \in User /\ r3 \in User
      /\ r3 = [d.users[u] EXCEPT !.pend = a, !.ptok = Len(d.mails) + 1, !.plive = TRUE]
  BY <1>0 DEF User
<1>2. SetPendingEmail(d, u, a) =
        [[[[d EXCEPT !.users[u].pend = a] EXCEPT !.users[u].ptok = n] EXCEPT !.users[u].plive = TRUE] EXCEPT !.mails = Append(@, a)]
  BY DEF SetPendingEmail
<1>3. [d EXCEPT !.users[u].pend = a] = e1
  OBVIOUS
<1> HIDE DEF n
<1>4. Rewrites(d, e1, u, r1) /\ e1 \in Tables /\ e1.users[u] = r1
  <2> HIDE DEF r1
  <2>1. Rewrites(d, e1, u, r1)
    BY <1>1, OneUser
  <2> QED BY <2>1, <1>0 DEF Rewrites, Apart
<1>5. [e1 EXCEPT !.users[u].ptok = n] = e2
  BY <1>4
<1>6. Rewrites(e1, e2, u, r2) /\ e2 \in Tables /\ e2.users[u] = r2
  <2> HIDE DEF r2, e1
  <2>1. Rewrites(e1, e2, u, r2)
    BY <1>1, <1>4, OneUser
  <2>2. e1.users \in [Accounts -> User]
    BY <1>4, TablesFields
  <2> QED BY <2>1, <2>2 DEF Rewrites, Apart
<1>7. [e2 EXCEPT !.users[u].plive = TRUE] = e3
  BY <1>6
<1>8. Rewrites(e2, e3, u, r3) /\ e3 \in Tables /\ e3.users[u] = r3
  <2> HIDE DEF r3, e2
  <2>1. Rewrites(e2, e3, u, r3)
    BY <1>1, <1>6, OneUser
  <2>2. e2.users \in [Accounts -> User]
    BY <1>6, TablesFields
  <2> QED BY <2>1, <2>2 DEF Rewrites, Apart
<1>9. SetPendingEmail(d, u, a) = [e3 EXCEPT !.mails = Append(e3.mails, a)]
  BY <1>2, <1>3, <1>5, <1>7
<1> HIDE DEF e1, e2, e3, r1, r2, r3
<1>10. /\ Apart(d, e3) /\ e3.mails = d.mails /\ e3.users = [d.users EXCEPT ![u] = r3]
  BY <1>0, <1>4, <1>6, <1>8 DEF Rewrites, Apart
<1>11. Append(e3.mails, a) \in Seq(Addresses \cup {NoAddr})
  BY <1>0, <1>10
<1>12. \A ms \in Seq(Addresses \cup {NoAddr}) :
        /\ Apart(e3, [e3 EXCEPT !.mails = ms]) /\ [e3 EXCEPT !.mails = ms].mails = ms
        /\ [e3 EXCEPT !.mails = ms].users = e3.users
  BY <1>8 DEF Tables, Apart
<1> QED BY <1>1, <1>9, <1>10, <1>11, <1>12 DEF Apart

LEMMA ClearExpiredDoes ==
    ASSUME NEW d \in Tables
    PROVE  /\ Apart(d, ClearExpiredPendingEmails(d)) /\ ClearExpiredPendingEmails(d).mails = d.mails
           /\ ClearExpiredPendingEmails(d).users =
                [u \in Accounts |-> IF d.users[u].plive THEN d.users[u] ELSE Unpended(d.users[u])]
<1> DEFINE us == [u \in Accounts |-> IF d.users[u].plive THEN d.users[u] ELSE Unpended(d.users[u])]
<1>1. us \in [Accounts -> User]
  BY TablesFields, UserFields
<1>2. ClearExpiredPendingEmails(d) = [d EXCEPT !.users = us]
  BY DEF ClearExpiredPendingEmails
<1> HIDE DEF us
<1>3. /\ Apart(d, ClearExpiredPendingEmails(d)) /\ ClearExpiredPendingEmails(d).mails = d.mails
      /\ ClearExpiredPendingEmails(d).users = us
  BY <1>1, <1>2, UsersSet
<1> QED BY <1>3 DEF us

Newcomer(a, x, s, by) == [NoUser EXCEPT !.life = "row", !.email = a, !.role = x, !.sub = s, !.by = by]
LEMMA CreateDoes ==
    ASSUME NEW d \in Tables, NEW a \in Addresses \cup {NoAddr}, NEW x \in {"admin", "user"},
           NEW s \in Subjects \cup {Nobody}, NEW by \in {"seed", "invite", "claim", "oidc"}, CanCreate(d, a, s)
    PROVE  /\ NewId(d) \in Accounts /\ d.users[NewId(d)].life = "unborn"
           /\ Rewrites(d, Create(d, a, x, s, by), NewId(d), Newcomer(a, x, s, by))
<1>1. NewId(d) \in Accounts /\ d.users[NewId(d)].life = "unborn"
  BY DEF NewId, CanCreate
<1>2. Newcomer(a, x, s, by) \in User
  BY DEF Newcomer, NoUser, User, NoAddr
<1>3. Create(d, a, x, s, by) = [d EXCEPT !.users = [d.users EXCEPT ![NewId(d)] = Newcomer(a, x, s, by)]]
  BY DEF Create, Newcomer
<1> QED BY <1>1, <1>2, <1>3, OneUser

\* Only grants may differ; only credentials may.
Links(d, e, gs) ==
    /\ e \in Tables /\ e.users = d.users /\ e.mails = d.mails /\ e.creds = d.creds /\ e.boot = d.boot
    /\ gs \in Seq(Grant) /\ e.grants = gs
Keys(d, e, cs) ==
    /\ e \in Tables /\ e.users = d.users /\ e.mails = d.mails /\ e.grants = d.grants /\ e.boot = d.boot
    /\ cs \in Seq(Credential) /\ e.creds = cs

NewGrant(u, why, replaces) ==
    [user |-> u, reason |-> why, st |-> "unused", live |-> TRUE, replaces |-> replaces, to |-> NoAddr, upto |-> 0]
NewCredential(u, h, g) == [user |-> u, handle |-> h, grant |-> g, st |-> "row"]

LEMMA LinksSet ==
    ASSUME NEW d \in Tables, NEW gs \in Seq(Grant), NEW e, e = [d EXCEPT !.grants = gs]
    PROVE  Links(d, e, gs)
BY GrantsSet DEF Links

LEMMA CreateGrantDoes ==
    ASSUME NEW d \in Tables, NEW u \in Accounts, NEW why \in {"invite", "recovery"}, NEW replaces \in BOOLEAN
    PROVE  /\ NewGrant(u, why, replaces) \in Grant
           /\ Links(d, CreateGrant(d, u, why, replaces), Append(d.grants, NewGrant(u, why, replaces)))
<1>1. NewGrant(u, why, replaces) \in Grant
  BY DEF NewGrant, Grant, NoAddr
<1>2. CreateGrant(d, u, why, replaces) = [d EXCEPT !.grants = Append(d.grants, NewGrant(u, why, replaces))]
  BY DEF CreateGrant, NewGrant
<1> DEFINE s == Append(d.grants, NewGrant(u, why, replaces))
<1>3. s \in Seq(Grant) /\ CreateGrant(d, u, why, replaces) = [d EXCEPT !.grants = s]
  BY <1>1, <1>2, TablesFields
<1> HIDE DEF s
<1>4. Links(d, CreateGrant(d, u, why, replaces), s)
  BY <1>3, LinksSet
<1> QED BY <1>1, <1>4 DEF s

LEMMA ConsumeDoes ==
    ASSUME NEW d \in Tables, NEW g \in 1..Len(d.grants)
    PROVE  /\ [d.grants[g] EXCEPT !.st = "used", !.upto = Len(d.creds)] \in Grant
           /\ Links(d, Consume(d, g), [d.grants EXCEPT ![g] = [d.grants[g] EXCEPT !.st = "used", !.upto = Len(d.creds)]])
<1> DEFINE q == [d.grants[g] EXCEPT !.st = "used"]
           r == [d.grants[g] EXCEPT !.st = "used", !.upto = Len(d.creds)]
           e == [d EXCEPT !.grants = [d.grants EXCEPT ![g] = q]]
<1>0. d.grants \in Seq(Grant) /\ d.grants[g] \in Grant /\ Len(d.creds) \in Nat
  BY TablesFields
<1>1. q \in Grant /\ r \in Grant /\ r = [q EXCEPT !.upto = Len(d.creds)]
  BY <1>0 DEF Grant
<1>2. Consume(d, g) = [e EXCEPT !.grants = [e.grants EXCEPT ![g] = [e.grants[g] EXCEPT !.upto = Len(d.creds)]]]
  BY DEF Consume
<1> HIDE DEF q, r
<1>3. [d.grants EXCEPT ![g] = q] \in Seq(Grant) /\ [d.grants EXCEPT ![g] = r] \in Seq(Grant)
  BY <1>0, <1>1
<1>4. /\ e \in Tables /\ e.grants = [d.grants EXCEPT ![g] = q] /\ e.grants[g] = q
      /\ e.users = d.users /\ e.mails = d.mails /\ e.creds = d.creds /\ e.boot = d.boot
  <2> DEFINE s == [d.grants EXCEPT ![g] = q]
  <2>1. s \in Seq(Grant) /\ s[g] = q
    BY <1>0, <1>1, <1>3
  <2>2. e = [d EXCEPT !.grants = s]
    OBVIOUS
  <2> HIDE DEF s, e
  <2>3. /\ e \in Tables /\ e.grants = s
        /\ e.users = d.users /\ e.mails = d.mails /\ e.creds = d.creds /\ e.boot = d.boot
    BY <2>1, <2>2, GrantsSet
  <2> QED BY <2>1, <2>3 DEF s
<1>5. [e.grants EXCEPT ![g] = r] = [d.grants EXCEPT ![g] = r]
  BY <1>4
<1> HIDE DEF e
<1>6. Consume(d, g) = [e EXCEPT !.grants = [d.grants EXCEPT ![g] = r]]
  BY <1>1, <1>2, <1>4, <1>5
<1>7. Links(d, Consume(d, g), [d.grants EXCEPT ![g] = r])
  <2> DEFINE s == [d.grants EXCEPT ![g] = r]
  <2>1. s \in Seq(Grant) /\ Consume(d, g) = [e EXCEPT !.grants = s]
    BY <1>3, <1>6
  <2> HIDE DEF s
  <2>2. Links(e, Consume(d, g), s)
    BY <1>4, <2>1, LinksSet
  <2>3. Links(d, Consume(d, g), s)
    BY <1>4, <2>2 DEF Links
  <2> QED BY <2>3 DEF s
<1> QED BY <1>1, <1>7 DEF r

LEMMA DeliverDoes ==
    ASSUME NEW d \in Tables, NEW g \in 1..Len(d.grants), NEW a \in Addresses \cup {NoAddr}
    PROVE  /\ [d.grants[g] EXCEPT !.to = a] \in Grant
           /\ Links(d, [d EXCEPT !.grants[g].to = a], [d.grants EXCEPT ![g] = [d.grants[g] EXCEPT !.to = a]])
<1> DEFINE r == [d.grants[g] EXCEPT !.to = a]
<1>0. d.grants \in Seq(Grant) /\ d.grants[g] \in Grant
  BY TablesFields
<1>1. r \in Grant
  BY <1>0 DEF Grant
<1>2. [d EXCEPT !.grants[g].to = a] = [d EXCEPT !.grants = [d.grants EXCEPT ![g] = r]]
  OBVIOUS
<1> HIDE DEF r
<1>3. [d.grants EXCEPT ![g] = r] \in Seq(Grant)
  BY <1>0, <1>1
<1>4. Links(d, [d EXCEPT !.grants[g].to = a], [d.grants EXCEPT ![g] = r])
  <2> DEFINE s == [d.grants EXCEPT ![g] = r]
             e == [d EXCEPT !.grants[g].to = a]
  <2>1. s \in Seq(Grant) /\ e = [d EXCEPT !.grants = s]
    BY <1>2, <1>3
  <2> HIDE DEF s, e
  <2>2. Links(d, e, s)
    BY <2>1, LinksSet
  <2> QED BY <2>2 DEF s, e
<1> QED BY <1>1, <1>4 DEF r

LEMMA ExpireGrantDoes ==
    ASSUME NEW d \in Tables, NEW g \in 1..Len(d.grants)
    PROVE  /\ [d.grants[g] EXCEPT !.live = FALSE] \in Grant
           /\ Links(d, [d EXCEPT !.grants[g].live = FALSE], [d.grants EXCEPT ![g] = [d.grants[g] EXCEPT !.live = FALSE]])
<1> DEFINE r == [d.grants[g] EXCEPT !.live = FALSE]
<1>0. d.grants \in Seq(Grant) /\ d.grants[g] \in Grant
  BY TablesFields
<1>1. r \in Grant
  BY <1>0 DEF Grant
<1>2. [d EXCEPT !.grants[g].live = FALSE] = [d EXCEPT !.grants = [d.grants EXCEPT ![g] = r]]
  OBVIOUS
<1> HIDE DEF r
<1>3. [d.grants EXCEPT ![g] = r] \in Seq(Grant)
  BY <1>0, <1>1
<1>4. Links(d, [d EXCEPT !.grants[g].live = FALSE], [d.grants EXCEPT ![g] = r])
  <2> DEFINE s == [d.grants EXCEPT ![g] = r]
             e == [d EXCEPT !.grants[g].live = FALSE]
  <2>1. s \in Seq(Grant) /\ e = [d EXCEPT !.grants = s]
    BY <1>2, <1>3
  <2> HIDE DEF s, e
  <2>2. Links(d, e, s)
    BY <2>1, LinksSet
  <2> QED BY <2>2 DEF s, e
<1> QED BY <1>1, <1>4 DEF r

LEMMA GrantsGoneDoes ==
    ASSUME NEW d \in Tables, NEW gone
    PROVE  Links(d, [d EXCEPT !.grants = Without(d.grants, gone)], Without(d.grants, gone))
BY TablesFields, WithoutGrants, GrantsSet DEF Links

LEMMA DeleteUnusedDoes ==
    ASSUME NEW d \in Tables, NEW u
    PROVE  Links(d, DeleteUnusedByUser(d, u), Without(d.grants, Unused(d, u)))
BY GrantsGoneDoes DEF DeleteUnusedByUser

LEMMA PruneGrantsDoes ==
    ASSUME NEW d \in Tables
    PROVE  Links(d, PruneGrants(d), Without(d.grants, {i \in 1..Len(d.grants) : ~d.grants[i].live}))
BY GrantsGoneDoes DEF PruneGrants

LEMMA CreateCredentialDoes ==
    ASSUME NEW d \in Tables, NEW u \in Accounts, NEW h \in Nat, NEW g \in Nat
    PROVE  /\ NewCredential(u, h, g) \in Credential
           /\ Keys(d, CreateCredential(d, u, h, g), Append(d.creds, NewCredential(u, h, g)))
<1>1. NewCredential(u, h, g) \in Credential
  BY DEF NewCredential, Credential
<1>2. CreateCredential(d, u, h, g) = [d EXCEPT !.creds = Append(d.creds, NewCredential(u, h, g))]
  BY DEF CreateCredential, NewCredential
<1> DEFINE s == Append(d.creds, NewCredential(u, h, g))
<1>3. s \in Seq(Credential) /\ CreateCredential(d, u, h, g) = [d EXCEPT !.creds = s]
  BY <1>1, <1>2, TablesFields
<1> HIDE DEF s
<1>4. Keys(d, CreateCredential(d, u, h, g), s)
  BY <1>3, CredsSet DEF Keys
<1> QED BY <1>1, <1>4 DEF s

LEMMA CredsGoneDoes ==
    ASSUME NEW d \in Tables, NEW gone
    PROVE  Keys(d, [d EXCEPT !.creds = Without(d.creds, gone)], Without(d.creds, gone))
BY TablesFields, WithoutCreds, CredsSet DEF Keys

LEMMA DeleteCredentialsDoes ==
    ASSUME NEW d \in Tables, NEW u, NEW i
    PROVE  /\ Keys(d, DeleteCredential(d, i), Without(d.creds, {i}))
           /\ Keys(d, DeleteAllByUser(d, u), Without(d.creds, Of(d.creds, u)))
BY CredsGoneDoes DEF DeleteCredential, DeleteAllByUser

LEMMA SessionsDo ==
    ASSUME NEW d \in Tables, NEW u \in Accounts
    PROVE  Aside(d, CreateSession(d, u)) /\ Aside(d, CreateKey(d, u))
<1> DEFINE r == [user |-> u, st |-> "row", live |-> TRUE]
<1>1. r \in Owned
  BY DEF Owned
<1>2. Append(d.sessions, r) \in Seq(Owned) /\ Append(d.keys, r) \in Seq(Owned)
  BY <1>1, TablesFields
<1> QED BY <1>2, SessionsSet DEF CreateSession, CreateKey

LEMMA SessionsEnd ==
    ASSUME NEW d \in Tables, NEW u, NEW i
    PROVE  /\ Aside(d, DeleteSession(d, i)) /\ Aside(d, DeleteKey(d, i)) /\ Aside(d, DeleteSessionsByUser(d, u))
           /\ Aside(d, PruneSessions(d))
<1>1. \A gone : Without(d.sessions, gone) \in Seq(Owned) /\ Without(d.keys, gone) \in Seq(Owned)
  BY TablesFields, WithoutOwned
<1> QED BY <1>1, SessionsSet DEF DeleteSession, DeleteKey, DeleteSessionsByUser, PruneSessions

LEMMA SessionsLive ==
    ASSUME NEW d \in Tables, NEW i, NEW b \in BOOLEAN
    PROVE  Aside(d, [d EXCEPT !.sessions[i].live = b])
<1> DEFINE r == [d.sessions[i] EXCEPT !.live = b]
           ss == [d.sessions EXCEPT ![i] = r]
<1>0. d.sessions \in Seq(Owned)
  BY TablesFields
<1>1. ss \in Seq(Owned)
  <2>1. CASE i \in 1..Len(d.sessions)
    <3>1. d.sessions[i] \in Owned
      BY <1>0, <2>1
    <3>2. r \in Owned
      BY <3>1 DEF Owned
    <3> HIDE DEF r
    <3> QED BY <1>0, <2>1, <3>2
  <2>2. CASE i \notin 1..Len(d.sessions)
    <3> HIDE DEF r
    <3>1. ss = d.sessions
      BY <1>0, <2>2
    <3> QED BY <1>0, <3>1
  <2> QED BY <2>1, <2>2
<1>2. [d EXCEPT !.sessions[i].live = b] = [d EXCEPT !.sessions = ss]
  OBVIOUS
<1> HIDE DEF ss
<1> QED BY <1>1, <1>2, SessionsSet

LEMMA BootDoes ==
    ASSUME NEW d \in Tables
    PROVE  /\ SetTokenHash(d) = [d EXCEPT !.boot = [token |-> d.boot.token + 1, open |-> TRUE]]
           /\ [token |-> d.boot.token + 1, open |-> TRUE] \in [token : Nat, open : BOOLEAN]
           /\ ConsumeBoot(d) = [d EXCEPT !.boot = [d.boot EXCEPT !.open = FALSE]]
           /\ [d.boot EXCEPT !.open = FALSE] \in [token : Nat, open : BOOLEAN]
           /\ ~[d.boot EXCEPT !.open = FALSE].open
<1>1. d.boot \in [token : Nat, open : BOOLEAN]
  BY TablesFields
<1>2. SetTokenHash(d) = [d EXCEPT !.boot = [token |-> d.boot.token + 1, open |-> TRUE]]
  BY DEF SetTokenHash
<1>3. ConsumeBoot(d) = [d EXCEPT !.boot = [d.boot EXCEPT !.open = FALSE]]
  BY DEF ConsumeBoot
<1>4. [token |-> d.boot.token + 1, open |-> TRUE] \in [token : Nat, open : BOOLEAN]
  BY <1>1
<1>5. [d.boot EXCEPT !.open = FALSE] \in [token : Nat, open : BOOLEAN] /\ ~[d.boot EXCEPT !.open = FALSE].open
  BY <1>1
<1> QED BY <1>2, <1>3, <1>4, <1>5

LEMMA ConsumeBootDoes ==
    ASSUME NEW d \in Tables
    PROVE  /\ ConsumeBoot(d) \in Tables /\ ~ConsumeBoot(d).boot.open
           /\ ConsumeBoot(d).users = d.users /\ ConsumeBoot(d).mails = d.mails
           /\ ConsumeBoot(d).grants = d.grants /\ ConsumeBoot(d).creds = d.creds
<1> DEFINE b == [d.boot EXCEPT !.open = FALSE]
<1>1. ConsumeBoot(d) = [d EXCEPT !.boot = b] /\ b \in [token : Nat, open : BOOLEAN] /\ ~b.open
  BY BootDoes
<1> HIDE DEF b
<1> QED BY <1>1, BootSet

LEMMA SetTokenDoes ==
    ASSUME NEW d \in Tables
    PROVE  /\ SetTokenHash(d) \in Tables
           /\ SetTokenHash(d).users = d.users /\ SetTokenHash(d).mails = d.mails
           /\ SetTokenHash(d).grants = d.grants /\ SetTokenHash(d).creds = d.creds
<1> DEFINE b == [token |-> d.boot.token + 1, open |-> TRUE]
<1>1. SetTokenHash(d) = [d EXCEPT !.boot = b] /\ b \in [token : Nat, open : BOOLEAN]
  BY BootDoes
<1> HIDE DEF b
<1> QED BY <1>1, BootSet

LEMMA DeleteUserDoes ==
    ASSUME NEW d \in Tables, NEW u \in Accounts
    PROVE  /\ DeleteUser(d, u) \in Tables
           /\ [NoUser EXCEPT !.life = "gone"] \in User
           /\ DeleteUser(d, u).users = [d.users EXCEPT ![u] = [NoUser EXCEPT !.life = "gone"]]
           /\ DeleteUser(d, u).grants = Without(d.grants, Of(d.grants, u))
           /\ DeleteUser(d, u).creds = Without(d.creds, Of(d.creds, u))
           /\ DeleteUser(d, u).mails = d.mails /\ DeleteUser(d, u).boot = d.boot
<1> DEFINE r == [NoUser EXCEPT !.life = "gone"]
           us == [d.users EXCEPT ![u] = r]
           gs == Without(d.grants, Of(d.grants, u))
           cs == Without(d.creds, Of(d.creds, u))
           ss == Without(d.sessions, Of(d.sessions, u))
           ks == Without(d.keys, Of(d.keys, u))
<1>1. r \in User
  BY DEF NoUser, User, NoAddr
<1>2. us \in [Accounts -> User]
  BY <1>1, TablesFields
<1>3. gs \in Seq(Grant) /\ cs \in Seq(Credential) /\ ss \in Seq(Owned) /\ ks \in Seq(Owned)
  BY TablesFields, WithoutGrants, WithoutCreds, WithoutOwned
<1>4. DeleteUser(d, u) = [d EXCEPT !.users = us, !.grants = gs, !.creds = cs, !.sessions = ss, !.keys = ks]
  BY DEF DeleteUser, Tables
<1> HIDE DEF r, us, gs, cs, ss, ks
<1>5. /\ DeleteUser(d, u) \in Tables /\ DeleteUser(d, u).users = us /\ DeleteUser(d, u).grants = gs
      /\ DeleteUser(d, u).creds = cs /\ DeleteUser(d, u).mails = d.mails /\ DeleteUser(d, u).boot = d.boot
  BY <1>2, <1>3, <1>4 DEF Tables
<1> QED BY <1>1, <1>5 DEF r, us, gs, cs

-----------------------------------------------------------------------------
(* Steps that only move a request on *)

\* Statements that nothing below depends on; the rest of them that are quiet;
\* and those where a request may not be passed over.
PlainPcs == {"idle", "session", "user", "slide", "key", "key_user", "handler", "mint_key", "owned_key", "revoke_key",
             "end_sessions", "guard_delete", "issue_invite", "registered", "revoke_all", "lock",
             "recover_count", "recover_mint", "request_check", "set_pending", "mail_confirm", "withdraw", "cancel",
             "confirm", "set_list", "set_email", "complete_auth", "find_linked", "sync_list", "sync_set",
             "find_email", "find_legacy", "signup", "new_session", "begin", "signer", "signer_creds", "touch_cred",
             "owned", "rename", "remove_row", "remove_count", "remove"}
QuietPcs == PlainPcs \cup {"get_target", "guard_role", "guard_dis", "set_role", "set_dis", "delete", "invite_list",
             "invite_create", "link", "lookup", "grant_user", "first_run", "boot_token", "valid", "no_admin", "consume_boot",
             "claim", "verify", "consume"}
DuePcs == {"replace", "mint", "drop", "create_admin"}
DoorPcs == {"idle", "session", "user", "key", "key_user", "slide"}

\* A request that has nothing left to undo: it holds no link it has consumed.
Settled(c) == c.pc \in QuietPcs \/ (c.pc = "set_handle" /\ c.op = "pk_finish")

\* Rows and challenges stay what they are, whatever is added.
GrownGrants(gs, hs) ==
    Len(hs) \in Nat /\ Len(hs) >= Len(gs) /\ \A i \in 1..Len(gs) : hs[i].user = gs[i].user
GrownChals(ch, dh) == 
    Len(dh) \in Nat /\ Len(dh) >= Len(ch) /\ \A i \in 1..Len(ch) : dh[i].aad = ch[i].aad

LEMMA NamesGrow ==
    ASSUME NEW c \in Call, NEW gs \in Seq(Grant), NEW hs, NEW ch \in Seq(Challenge), NEW dh,
           GrownGrants(gs, hs), GrownChals(ch, dh), Names(c, gs, ch), Fits(c)
    PROVE  Names(c, hs, dh)
<1>1. c.tok \in Nat /\ c.ref \in Nat /\ Len(gs) \in Nat /\ Len(ch) \in Nat
  BY DEF Call
<1>2. c.tok \in 0..Len(gs) => c.tok \in 0..Len(hs)
  BY <1>1 DEF GrownGrants
<1>3. c.tok \in 1..Len(gs) => c.tok \in 1..Len(hs) /\ hs[c.tok].user = gs[c.tok].user
  BY <1>1 DEF GrownGrants
<1>4. c.ref \in 1..Len(ch) => c.ref \in 1..Len(dh) /\ dh[c.ref].aad = ch[c.ref].aad
  BY <1>1 DEF GrownChals
<1> QED BY <1>2, <1>3, <1>4 DEF Names, Fits

LEMMA GrownSame == ASSUME NEW gs \in Seq(Grant) PROVE GrownGrants(gs, gs)
BY DEF GrownGrants

LEMMA ChalsSame == ASSUME NEW ch \in Seq(Challenge) PROVE GrownChals(ch, ch)
BY DEF GrownChals

Later == chals' \in Seq(Challenge) /\ GrownChals(chals, chals')

LEMMA LaterSame == ASSUME RequestInv, chals' = chals PROVE Later
BY ChalsSame DEF RequestInv, TypeOK, Later

\* Faults are counted.
Charged == spent' \in [calls : 0..S.calls, faults : 0..S.faults] /\ (spent'.faults = 0 => spent.faults = 0)

LEMMA ChargedSame == ASSUME RequestInv, spent' = spent PROVE Charged
BY DEF RequestInv, TypeOK, Charged

LEMMA SpentFault ==
    ASSUME RequestInv, spent' = [spent EXCEPT !.faults = @ + 1], spent.faults < S.faults PROVE Charged
<1>1. spent \in [calls : 0..S.calls, faults : 0..S.faults] /\ S.calls \in Nat /\ S.faults \in Nat
  BY SceneAssumption DEF RequestInv, TypeOK, S
<1> QED BY <1>1 DEF Charged

Calm(p) ==
    /\ Later /\ Charged /\ Aside(db, db') /\ UNCHANGED <<mu, scene>> /\ call[p].pc \notin DuePcs
    /\ \E c : /\ call' = [call EXCEPT ![p] = c]
              /\ Fits(c) /\ Names(c, db.grants, chals') /\ Settled(c)
              /\ Authority(c) => Authority(call[p]) \/ AdminExists(db)

LEMMA QuietSettled == ASSUME NEW c, c.pc \in QuietPcs PROVE Settled(c)
BY DEF Settled

LEMMA CalmStep ==
    ASSUME RequestInv, NEW p \in Procs, NEW c, NEW e, Step(p, c, e), Aside(db, e), Fits(c), Names(c, db.grants, chals),
           Settled(c), Authority(c) => Authority(call[p]) \/ AdminExists(db), call[p].pc \notin DuePcs
    PROVE  Calm(p)
<1>1. call' = [call EXCEPT ![p] = c] /\ db' = e /\ UNCHANGED <<chals, mu, spent, scene>>
  BY DEF Step
<1>2. Later /\ Charged
  BY <1>1, LaterSame, ChargedSame
<1> QED BY <1>1, <1>2 DEF Calm

LEMMA AsideSame == ASSUME NEW d \in Tables PROVE Aside(d, d)
BY DEF Aside, Apart

LEMMA InvFacts ==
    ASSUME RequestInv, NEW p \in Procs
    PROVE  /\ db \in Tables /\ chals \in Seq(Challenge) /\ call[p] \in Call /\ Fits(call[p])
           /\ Names(call[p], db.grants, chals) /\ call \in [Procs -> Call]
BY DEF RequestInv, TypeOK

LEMMA NoCallFits ==
    ASSUME NEW gs, NEW ch PROVE NoCall \in Call /\ Fits(NoCall) /\ Names(NoCall, gs, ch) /\ ~Authority(NoCall)
<1>1. NoUser \in User
  BY DEF NoUser, User, NoAddr
<1>2. NoCall \in Call /\ NoCall.op = "none" /\ NoCall.pc = "idle"
  BY <1>1 DEF NoCall, Call, Pcs, NoAddr, NotCounted
<1> HIDE DEF NoCall
<1> QED BY <1>2 DEF Fits, Names, Authority, AdminOps

LEMMA PlainIsPc == ASSUME NEW pc \in PlainPcs PROVE pc \in Pcs
BY DEF PlainPcs, Pcs

LEMMA PlainFits ==
    ASSUME NEW c, NEW r \in Call, NEW gs, NEW ch, Fits(c), Names(c, gs, ch),
           r.op = c.op, r.ref = c.ref, r.tok = c.tok, r.op = "invite" => r.role = c.role, r.pc \in PlainPcs
    PROVE  Fits(r) /\ Names(r, gs, ch)
<1>1. Fits(r)
  BY DEF Fits, PlainPcs
<1>2. Names(r, gs, ch)
  BY DEF Names, PlainPcs
<1> QED BY <1>1, <1>2

LEMMA StepCalm ==
    ASSUME RequestInv, NEW p \in Procs, NEW r \in Call, NEW e, Step(p, r, e), Aside(db, e),
           r.op = call[p].op, r.ref = call[p].ref, r.tok = call[p].tok, r.op = "invite" => r.role = call[p].role,
           r.pc \in PlainPcs, call[p].pc \notin DuePcs, call[p].pc \notin DoorPcs
    PROVE  Calm(p)
<1>1. Fits(r) /\ Names(r, db.grants, chals)
  BY InvFacts, PlainFits
<1>2. Authority(r) => Authority(call[p])
  BY DEF Authority, DoorPcs
<1>3. Settled(r)
  BY QuietSettled DEF QuietPcs
<1> QED BY <1>1, <1>2, <1>3, CalmStep

LEMMA ReplyCalm ==
    ASSUME RequestInv, NEW p \in Procs, NEW e, Step(p, NoCall, e), Aside(db, e), call[p].pc \notin DuePcs
    PROVE  Calm(p)
<1>1. NoCall.pc = "idle"
  BY DEF NoCall
<1>2. Fits(NoCall) /\ Names(NoCall, db.grants, chals) /\ ~Authority(NoCall)
  BY NoCallFits
<1> HIDE DEF NoCall
<1>3. NoCall.pc \in QuietPcs
  BY <1>1 DEF QuietPcs, PlainPcs
<1> QED BY <1>2, <1>3, QuietSettled, CalmStep

LEMMA GotoCalm ==
    ASSUME RequestInv, NEW p \in Procs, NEW pc \in PlainPcs, Goto(p, pc),
           call[p].pc \notin DuePcs, call[p].pc \notin DoorPcs
    PROVE  Calm(p)
<1> DEFINE r == To(call[p], pc)
<1>1. call[p] \in Call /\ db \in Tables
  BY InvFacts
<1>2. r \in Call /\ r.op = call[p].op /\ r.ref = call[p].ref /\ r.tok = call[p].tok /\ r.role = call[p].role /\ r.pc = pc
  BY <1>1, PlainIsPc DEF To, Call
<1>3. Step(p, r, db) /\ Aside(db, db)
  BY <1>1, AsideSame DEF Goto
<1> HIDE DEF r
<1> QED BY <1>2, <1>3, StepCalm

\* The same with the row it was given, and with the account it found.
LEMMA SeenCalm ==
    ASSUME RequestInv, NEW p \in Procs, NEW pc \in PlainPcs, NEW w \in User,
           Step(p, [call[p] EXCEPT !.pc = pc, !.row = w], db),
           call[p].pc \notin DuePcs, call[p].pc \notin DoorPcs
    PROVE  Calm(p)
<1> DEFINE r == [call[p] EXCEPT !.pc = pc, !.row = w]
<1>1. call[p] \in Call /\ db \in Tables
  BY InvFacts
<1>2. r \in Call /\ r.op = call[p].op /\ r.ref = call[p].ref /\ r.tok = call[p].tok /\ r.role = call[p].role /\ r.pc = pc
  BY <1>1, PlainIsPc DEF Call
<1>3. Step(p, r, db) /\ Aside(db, db)
  BY <1>1, AsideSame
<1> HIDE DEF r
<1> QED BY <1>2, <1>3, StepCalm

LEMMA FoundCalm ==
    ASSUME RequestInv, NEW p \in Procs, NEW pc \in PlainPcs, NEW u \in Accounts, NEW w \in User,
           Step(p, [call[p] EXCEPT !.pc = pc, !.tgt = u, !.row = w], db),
           call[p].pc \notin DuePcs, call[p].pc \notin DoorPcs
    PROVE  Calm(p)
<1> DEFINE r == [call[p] EXCEPT !.pc = pc, !.tgt = u, !.row = w]
<1>1. call[p] \in Call /\ db \in Tables
  BY InvFacts
<1>2. r \in Call /\ r.op = call[p].op /\ r.ref = call[p].ref /\ r.tok = call[p].tok /\ r.role = call[p].role /\ r.pc = pc
  BY <1>1, PlainIsPc DEF Call
<1>3. Step(p, r, db) /\ Aside(db, db)
  BY <1>1, AsideSame
<1> HIDE DEF r
<1> QED BY <1>2, <1>3, StepCalm

LEMMA EndCalm ==
    ASSUME RequestInv, NEW p \in Procs, Reply(p), call[p].pc \notin DuePcs
    PROVE  Calm(p)
BY InvFacts, AsideSame, ReplyCalm DEF Reply

LEMMA TryCalm ==
    ASSUME RequestInv, NEW p \in Procs, NEW pc \in PlainPcs, NEW ok, Try(p, ok, To(call[p], pc), db),
           call[p].pc \notin DuePcs, call[p].pc \notin DoorPcs
    PROVE  Calm(p)
<1>1. Goto(p, pc) \/ Reply(p)
  BY DEF Try, Goto
<1> QED BY <1>1, GotoCalm, EndCalm

LEMMA RowOf ==
    ASSUME RequestInv, NEW u \in Rows(db) PROVE u \in Accounts /\ db.users[u] \in User
BY TablesFields DEF RequestInv, TypeOK, Rows

LEMMA TargetCalm ==
    ASSUME RequestInv, NEW p \in Procs, NEW pc \in PlainPcs, NEW ok, WithTarget(p, ok, pc),
           call[p].pc \notin DuePcs, call[p].pc \notin DoorPcs
    PROVE  Calm(p)
<1>1. CASE Reply(p)
  BY <1>1, EndCalm
<1>2. CASE call[p].tgt \in Rows(db) /\ Step(p, [call[p] EXCEPT !.pc = pc, !.row = db.users[call[p].tgt]], db)
  BY <1>2, RowOf, SeenCalm
<1> QED BY <1>1, <1>2 DEF WithTarget, Try

LEMMA DoorCalm ==
    ASSUME RequestInv, NEW p \in Procs, NEW r \in Call, NEW e, Step(p, r, e), Aside(db, e),
           r.op = call[p].op, r.ref = call[p].ref, r.tok = call[p].tok, r.role = call[p].role,
           r.pc \in PlainPcs, call[p].pc \notin DuePcs, Authority(r) => Authority(call[p]) \/ AdminExists(db)
    PROVE  Calm(p)
<1>1. Fits(r) /\ Names(r, db.grants, chals)
  BY InvFacts, PlainFits
<1>2. Settled(r)
  BY QuietSettled DEF QuietPcs
<1> QED BY <1>1, <1>2, CalmStep

\* Whoever is let in as an administrator was one when its row was read.
LEMMA AdmittedCalm ==
    ASSUME RequestInv, NEW p \in Procs, NEW c \in Call, NEW e, Step(p, Admitted(c), e), Aside(db, e),
           c.op = call[p].op, c.ref = call[p].ref, c.tok = call[p].tok, c.role = call[p].role,
           call[p].pc \notin DuePcs, c.op \in AdminOps /\ c.row.role = "admin" => Authority(call[p]) \/ AdminExists(db)
    PROVE  Calm(p)
<1>1. CASE ~Permitted(c)
  BY <1>1, ReplyCalm DEF Admitted
<1>2. CASE Permitted(c)
  <2> DEFINE r == To(c, "handler")
  <2>1. r \in Call /\ r.op = c.op /\ r.ref = c.ref /\ r.tok = c.tok /\ r.role = c.role /\ r.pc = "handler" /\ r.row = c.row
    BY DEF To, Call, Pcs
  <2>2. Step(p, r, e)
    BY <1>2 DEF Admitted
  <2> HIDE DEF r
  <2>3. Authority(r) => Authority(call[p]) \/ AdminExists(db)
    BY <1>2, <2>1 DEF Permitted, Authority
  <2>4. r.pc \in PlainPcs
    BY <2>1 DEF PlainPcs
  <2> QED BY <2>1, <2>2, <2>3, <2>4, DoorCalm
<1> QED BY <1>1, <1>2

LEMMA CheckCalm ==
    ASSUME RequestInv, NEW p \in Procs, NEW ok, NEW pc \in {"user", "key_user"}, Try(p, ok, To(call[p], pc), db),
           call[p].pc \notin DuePcs
    PROVE  Calm(p)
<1> DEFINE r == To(call[p], pc)
<1>1. call[p] \in Call /\ Aside(db, db)
  BY InvFacts, AsideSame
<1>2. r \in Call /\ r.op = call[p].op /\ r.ref = call[p].ref /\ r.tok = call[p].tok /\ r.role = call[p].role /\ r.pc = pc
  BY <1>1 DEF To, Call, Pcs
<1>3. Step(p, r, db) \/ Reply(p)
  BY DEF Try
<1> HIDE DEF r
<1>4. r.pc \in PlainPcs /\ ~Authority(r)
  BY <1>2 DEF PlainPcs, Authority
<1> QED BY <1>1, <1>2, <1>3, <1>4, EndCalm, DoorCalm

LEMMA AuthenticationCalm ==
    ASSUME RequestInv, NEW p \in Procs,
           AuthSession(p) \/ AuthKey(p) \/ AuthKeyUser(p) \/ AuthUser(p) \/ Slide(p)
    PROVE  Calm(p)
<1>0. call[p] \in Call /\ db \in Tables /\ Aside(db, db)
  BY InvFacts, AsideSame
<1>1. CASE AuthSession(p)
  BY <1>1, CheckCalm DEF AuthSession, At, DuePcs
<1>2. CASE AuthKey(p)
  BY <1>2, CheckCalm DEF AuthKey, At, DuePcs
<1>3. CASE AuthKeyUser(p)
  <2> DEFINE w == [db.users[call[p].me] EXCEPT !.role = "user"]
             c == [call[p] EXCEPT !.row = w]
  <2>1. Reply(p) \/ (call[p].me \in Rows(db) /\ Step(p, Admitted(c), db))
    BY <1>3 DEF AuthKeyUser, Try
  <2>2. call[p].pc \notin DuePcs
    BY <1>3 DEF AuthKeyUser, At, DuePcs
  <2>3. CASE Reply(p)
    BY <2>2, <2>3, EndCalm
  <2>4. CASE call[p].me \in Rows(db) /\ Step(p, Admitted(c), db)
    <3>1. w \in User /\ w.role = "user"
      <4>1. db.users[call[p].me] \in User
        BY <2>4, RowOf
      <4> QED BY <4>1 DEF User
    <3> HIDE DEF w
    <3>2. c \in Call /\ c.op = call[p].op /\ c.ref = call[p].ref /\ c.tok = call[p].tok /\ c.role = call[p].role /\ c.row = w
      BY <1>0, <3>1 DEF Call
    <3> HIDE DEF c
    <3> QED BY <1>0, <2>2, <2>4, <3>1, <3>2, AdmittedCalm
  <2> QED BY <2>1, <2>3, <2>4
<1>4. CASE AuthUser(p)
  <2> DEFINE w == db.users[call[p].me]
             c == [call[p] EXCEPT !.row = w]
             r == To(c, "slide")
  <2>1. Reply(p) \/ (c.me \in Rows(db) /\ Step(p, Admitted(c), db)) \/ (c.me \in Rows(db) /\ Step(p, r, db))
    BY <1>4 DEF AuthUser, Try
  <2>2. call[p].pc \notin DuePcs
    BY <1>4 DEF AuthUser, At, DuePcs
  <2>3. CASE Reply(p)
    BY <2>2, <2>3, EndCalm
  <2>4. CASE c.me \in Rows(db) /\ ~Reply(p)
    <3>0. call[p].me \in Rows(db)
      BY <1>0, <2>4 DEF Call
    <3>1. w \in User /\ (w.role = "admin" => AdminExists(db))
      BY <3>0, RowOf DEF AdminExists
    <3> HIDE DEF w
    <3>2. c \in Call /\ c.op = call[p].op /\ c.ref = call[p].ref /\ c.tok = call[p].tok /\ c.role = call[p].role /\ c.row = w
      BY <1>0, <3>1 DEF Call
    <3> HIDE DEF c
    <3>3. r \in Call /\ r.op = c.op /\ r.ref = c.ref /\ r.tok = c.tok /\ r.role = c.role /\ r.row = w /\ r.pc = "slide"
      BY <3>2 DEF Call, To, Pcs
    <3>4. CASE Step(p, Admitted(c), db)
      BY <1>0, <2>2, <3>1, <3>2, <3>4, AdmittedCalm
    <3>5. CASE Step(p, r, db)
      <4> HIDE DEF r
      <4>1. Authority(r) => AdminExists(db)
        BY <3>1, <3>3 DEF Authority
      <4>2. r.pc \in PlainPcs
        BY <3>3 DEF PlainPcs
      <4> QED BY <1>0, <2>2, <3>2, <3>3, <3>5, <4>1, <4>2, DoorCalm
    <3> QED BY <2>1, <2>4, <3>4, <3>5
  <2> QED BY <2>1, <2>3, <2>4
<1>5. CASE Slide(p)
  <2>1. PICK e : Step(p, Admitted(call[p]), e) /\ (e = db \/ e = TouchSession(db, call[p].sid))
    BY <1>5 DEF Slide
  <2>2. Aside(db, e)
    <3>1. TouchSession(db, call[p].sid) = [db EXCEPT !.sessions[call[p].sid].live = TRUE]
      BY DEF TouchSession
    <3>2. Aside(db, [db EXCEPT !.sessions[call[p].sid].live = TRUE])
      BY <1>0, SessionsLive, Zenon
    <3> QED BY <1>0, <2>1, <3>1, <3>2, Zenon
  <2>3. call[p].pc \notin DuePcs /\ (call[p].op \in AdminOps /\ call[p].row.role = "admin" => Authority(call[p]))
    BY <1>5 DEF Slide, At, DuePcs, Authority
  <2> QED BY <1>0, <2>1, <2>2, <2>3, AdmittedCalm
<1> QED BY <1>1, <1>2, <1>3, <1>4, <1>5

LEMMA SessionStepsCalm ==
    ASSUME RequestInv, NEW p \in Procs,
           \/ Whoami(p) \/ Logout(p) \/ ApiKeyMint(p) \/ PageKeyMint(p) \/ MintKey(p)
           \/ ApiKeyRevoke(p) \/ PageKeyRevoke(p) \/ OwnedKey(p) \/ RevokeKey(p)
           \/ EndSessions(p) \/ OpenSession(p)
    PROVE  Calm(p)
<1>0. db \in Tables /\ Aside(db, db)
  BY InvFacts, AsideSame
<1> USE DEF At, Handles, DuePcs, DoorPcs
<1>1. CASE Whoami(p)
  BY <1>1, EndCalm DEF Whoami
<1>2. CASE Logout(p)
  BY <1>0, <1>2, SessionsEnd, ReplyCalm DEF Logout
<1>3. CASE ApiKeyMint(p) \/ PageKeyMint(p)
  BY <1>3, GotoCalm DEF ApiKeyMint, PageKeyMint, PlainPcs
<1>4. CASE MintKey(p)
  <2>1. Aside(db, Inserted(call[p].me, CreateKey(db, call[p].me)))
    BY <1>0, RowOf, SessionsDo DEF Inserted
  <2> QED BY <1>4, <2>1, ReplyCalm DEF MintKey
<1>5. CASE ApiKeyRevoke(p) \/ PageKeyRevoke(p)
  BY <1>5, GotoCalm DEF ApiKeyRevoke, PageKeyRevoke, PlainPcs
<1>6. CASE OwnedKey(p)
  BY <1>6, TryCalm DEF OwnedKey, PlainPcs
<1>7. CASE RevokeKey(p)
  BY <1>0, <1>7, SessionsEnd, ReplyCalm DEF RevokeKey
<1>8. CASE EndSessions(p)
  BY <1>0, <1>8, SessionsEnd, ReplyCalm DEF EndSessions
<1>9. CASE OpenSession(p)
  <2>1. Aside(db, Inserted(call[p].tgt, CreateSession(db, call[p].tgt)))
    BY <1>0, RowOf, SessionsDo DEF Inserted
  <2> QED BY <1>9, <2>1, ReplyCalm DEF OpenSession
<1> QED BY <1>1, <1>2, <1>3, <1>4, <1>5, <1>6, <1>7, <1>8, <1>9

LEMMA BoundCalm ==
    ASSUME RequestInv, NEW p \in Procs, NEW r, NEW e, Step(p, r, e), Aside(db, e),
           Fits(r), Names(r, db.grants, chals), r.op = call[p].op, Settled(r),
           call[p].pc \notin DuePcs, call[p].pc \notin DoorPcs
    PROVE  Calm(p)
<1>1. Authority(r) => Authority(call[p])
  BY DEF Authority, DoorPcs
<1> QED BY <1>1, CalmStep

\* Statements that name nothing.
FreePcs == PlainPcs \cup {"get_target", "guard_role", "guard_dis", "set_role", "set_dis", "delete", "invite_list",
                          "invite_create", "link", "lookup", "grant_user", "first_run", "boot_token", "valid", "drop"}
LEMMA NamesKept ==
    ASSUME NEW c, NEW r, NEW gs, NEW ch, Names(c, gs, ch), r.op = c.op, r.ref = c.ref, r.tok = c.tok, r.pc \in FreePcs
    PROVE  Names(r, gs, ch)
BY DEF Names, FreePcs, PlainPcs

LEMMA HandlersCalm ==
    ASSUME RequestInv, NEW p \in Procs,
           \/ ApiDeleteUser(p) \/ ApiSetUserEmail(p) \/ ApiReissueInvite(p) \/ ApiIssueRecovery(p)
           \/ PageUserDelete(p) \/ PageUserRecovery(p) \/ PageUserReinvite(p) \/ PageUserEmail(p)
           \/ ApiEmailRequest(p) \/ PageEmailRequest(p) \/ ApiEmailCancel(p) \/ PageEmailCancel(p)
           \/ ApiEmailConfirm(p) \/ PageEmailConfirm(p)
    PROVE  Calm(p)
<1> USE DEF Handles, At, DuePcs, DoorPcs, PlainPcs
<1>1. CASE ApiDeleteUser(p)
  BY <1>1, GotoCalm DEF ApiDeleteUser
<1>2. CASE ApiSetUserEmail(p) \/ PageUserEmail(p)
  BY <1>2, TargetCalm DEF ApiSetUserEmail, PageUserEmail
<1>3. CASE ApiReissueInvite(p) \/ PageUserReinvite(p)
  BY <1>3, TargetCalm DEF ApiReissueInvite, PageUserReinvite
<1>4. CASE ApiIssueRecovery(p) \/ PageUserRecovery(p)
  BY <1>4, TargetCalm DEF ApiIssueRecovery, PageUserRecovery
<1>5. CASE PageUserDelete(p)
  BY <1>5, TargetCalm DEF PageUserDelete
<1>6. CASE ApiEmailRequest(p) \/ PageEmailRequest(p) \/ ApiEmailCancel(p) \/ PageEmailCancel(p)
  BY <1>6, GotoCalm DEF ApiEmailRequest, PageEmailRequest, ApiEmailCancel, PageEmailCancel
<1>7. CASE ApiEmailConfirm(p) \/ PageEmailConfirm(p)
  BY <1>7, GotoCalm DEF ApiEmailConfirm, PageEmailConfirm
<1> QED BY <1>1, <1>2, <1>3, <1>4, <1>5, <1>6, <1>7

LEMMA LookupsCalm ==
    ASSUME RequestInv, NEW p \in Procs,
           \/ RequestCheck(p) \/ RequestMailed(p) \/ SetList(p) \/ OIDCCallback(p) \/ CompleteAuth(p) \/ SyncList(p)
           \/ ApiPasskeyRemove(p) \/ ApiPasskeyRename(p) \/ Rename(p)
           \/ SignerCreds(p) \/ TouchCredential(p) \/ OwnedCredential(p) \/ RemoveCount(p)
           \/ Registered(p) \/ RecoverCount(p)
    PROVE  Calm(p)
<1> USE DEF Handles, At, DuePcs, DoorPcs, PlainPcs
<1>1. CASE RequestCheck(p)
  BY <1>1, TryCalm DEF RequestCheck
<1>2. CASE RequestMailed(p) \/ Rename(p)
  BY <1>2, EndCalm DEF RequestMailed, Rename
<1>3. CASE SetList(p)
  BY <1>3, TryCalm DEF SetList
<1>4. CASE OIDCCallback(p)
  BY <1>4, TryCalm DEF OIDCCallback
<1>5. CASE CompleteAuth(p)
  BY <1>5, TryCalm DEF CompleteAuth
<1>6. CASE SyncList(p)
  BY <1>6, GotoCalm DEF SyncList
<1>7. CASE ApiPasskeyRemove(p) \/ ApiPasskeyRename(p)
  BY <1>7, GotoCalm DEF ApiPasskeyRemove, ApiPasskeyRename
<1>8. CASE SignerCreds(p)
  BY <1>8, TryCalm DEF SignerCreds
<1>9. CASE TouchCredential(p)
  BY <1>9, TryCalm DEF TouchCredential
<1>10. CASE OwnedCredential(p)
  BY <1>10, TryCalm DEF OwnedCredential
<1>11. CASE RemoveCount(p)
  BY <1>11, TryCalm DEF RemoveCount
<1>12. CASE Registered(p)
  BY <1>12, TryCalm DEF Registered
<1>13. CASE RecoverCount(p)
  BY <1>13, TryCalm DEF RecoverCount
<1> QED BY <1>1, <1>2, <1>3, <1>4, <1>5, <1>6, <1>7, <1>8, <1>9, <1>10, <1>11, <1>12, <1>13

LEMMA FindersCalm ==
    ASSUME RequestInv, NEW p \in Procs,
           FindLinked(p) \/ Signer(p) \/ RecoverFind(p) \/ RemoveRow(p) \/ ApiPasskeyBegin(p)
    PROVE  Calm(p)
<1> USE DEF Handles, At, DuePcs, DoorPcs
<1>0. call[p] \in Call /\ db \in Tables /\ Aside(db, db)
  BY InvFacts, AsideSame
<1>1. CASE FindLinked(p)
  <2>1. CASE Goto(p, "find_email")
    BY <1>1, <2>1, GotoCalm DEF FindLinked, PlainPcs
  <2>2. CASE Reply(p)
    BY <1>1, <2>2, EndCalm DEF FindLinked
  <2>3. ASSUME ~Goto(p, "find_email"), ~Reply(p) PROVE Calm(p)
    <3>1. PICK u \in GetByOIDC(db, call[p].sub) :
            Step(p, [call[p] EXCEPT !.tgt = u, !.row = db.users[u],
                       !.pc = IF SameText(call[p].addr, db.users[u].email) THEN "new_session" ELSE "sync_list"], db)
      BY <1>1, <2>3 DEF FindLinked, Try
    <3>2. PICK pc \in {"new_session", "sync_list"} : Step(p, [call[p] EXCEPT !.tgt = u, !.row = db.users[u], !.pc = pc], db)
      BY <3>1
    <3>3. u \in Accounts /\ db.users[u] \in User
      BY RowOf DEF GetByOIDC
    <3>4. [call[p] EXCEPT !.tgt = u, !.row = db.users[u], !.pc = pc] = [call[p] EXCEPT !.pc = pc, !.tgt = u, !.row = db.users[u]]
      BY <1>0 DEF Call
    <3>5. pc \in PlainPcs
      BY DEF PlainPcs
    <3>6. Step(p, [call[p] EXCEPT !.pc = pc, !.tgt = u, !.row = db.users[u]], db)
      BY <3>2, <3>4
    <3>7. call[p].pc \notin DuePcs /\ call[p].pc \notin DoorPcs
      BY <1>1 DEF FindLinked
    <3> QED BY <3>3, <3>5, <3>6, <3>7, FoundCalm
  <2> QED BY <2>1, <2>2, <2>3
<1>2. CASE Signer(p)
  <2>1. CASE Reply(p)
    BY <1>2, <2>1, EndCalm DEF Signer
  <2>2. CASE \E u \in Rows(db) : Step(p, [call[p] EXCEPT !.pc = "signer_creds", !.tgt = u, !.row = db.users[u]], db)
    BY <1>2, <2>2, RowOf, FoundCalm DEF Signer, PlainPcs
  <2> QED BY <1>2, <2>1, <2>2 DEF Signer, GetByWebAuthnHandle
<1>3. CASE RecoverFind(p)
  <2>1. CASE Reply(p)
    BY <1>3, <2>1, EndCalm DEF RecoverFind
  <2>2. CASE \E u \in Rows(db) : Step(p, [call[p] EXCEPT !.pc = "recover_count", !.tgt = u, !.row = db.users[u]], db)
    BY <1>3, <2>2, RowOf, FoundCalm DEF RecoverFind, PlainPcs
  <2> QED BY <1>3, <2>1, <2>2 DEF RecoverFind, GetByEmail
<1>4. CASE RemoveRow(p)
  <2>1. CASE Reply(p)
    BY <1>4, <2>1, EndCalm DEF RemoveRow
  <2>2. CASE call[p].me \in Rows(db) /\ Step(p, [call[p] EXCEPT !.pc = "remove_count", !.row = db.users[call[p].me]], db)
    BY <1>4, <2>2, RowOf, SeenCalm DEF RemoveRow, PlainPcs
  <2> QED BY <1>4, <2>1, <2>2 DEF RemoveRow, Try
<1>5. CASE ApiPasskeyBegin(p)
  <2> DEFINE r == [call[p] EXCEPT !.pc = "begin", !.tgt = call[p].me]
  <2>0. "begin" \in PlainPcs /\ "begin" \in Pcs
    BY DEF PlainPcs, Pcs
  <2>1. r \in Call /\ r.op = call[p].op /\ r.ref = call[p].ref /\ r.tok = call[p].tok /\ r.role = call[p].role /\ r.pc = "begin"
    BY <1>0, <2>0 DEF Call
  <2>2. Step(p, r, db)
    BY <1>5 DEF ApiPasskeyBegin
  <2> HIDE DEF r
  <2> QED BY <1>0, <1>5, <2>0, <2>1, <2>2, StepCalm DEF ApiPasskeyBegin
<1> QED BY <1>1, <1>2, <1>3, <1>4, <1>5

LEMMA ToFields ==
    ASSUME NEW c \in Call, NEW pc \in Pcs
    PROVE  /\ To(c, pc) \in Call /\ To(c, pc).pc = pc
           /\ To(c, pc).op = c.op /\ To(c, pc).tgt = c.tgt /\ To(c, pc).addr = c.addr /\ To(c, pc).role = c.role
           /\ To(c, pc).dis = c.dis /\ To(c, pc).ref = c.ref /\ To(c, pc).tok = c.tok /\ To(c, pc).row = c.row
           /\ To(c, pc).admins = c.admins /\ To(c, pc).me = c.me
BY DEF To, Call

\* A request that moves on with a new row, a new target, a new count.
LEMMA EditFields ==
    ASSUME NEW c \in Call, NEW pc \in Pcs, NEW w \in User, NEW u \in Accounts \cup {Nobody}, NEW S1 \in SUBSET Accounts
    PROVE  /\ [c EXCEPT !.pc = pc, !.row = w] \in Call
           /\ [c EXCEPT !.pc = pc, !.tgt = u] \in Call
           /\ [c EXCEPT !.pc = pc, !.tgt = u, !.row = w] \in Call
           /\ [c EXCEPT !.pc = pc, !.admins = S1] \in Call
BY DEF Call

LEMMA GuardSpares ==
    ASSUME RequestInv, NEW p \in Procs, Guarded(p)
    PROVE  EnabledAdmins(db) \subseteq Accounts /\ EnabledAdmins(db) # NotCounted /\ EnabledAdmins(db) # {call[p].tgt}
<1>1. EnabledAdmins(db) \subseteq Accounts
  BY DEF EnabledAdmins, Rows
<1>2. ASSUME EnabledAdmins(db) = {call[p].tgt} PROVE FALSE
  <2>1. Cardinality(EnabledAdmins(db)) = 1
    BY <1>2, FS_Singleton
  <2> QED BY <1>2, <2>1 DEF Guarded, LastAdmin
<1>3. EnabledAdmins(db) # NotCounted
  BY <1>1, SceneAssumption DEF NotCounted
<1> QED BY <1>1, <1>2, <1>3

LEMMA CountedFits ==
    ASSUME RequestInv, NEW p \in Procs, Guarded(p), NEW pc \in {"guard_dis", "set_role", "delete"},
           Step(p, Counted(p, pc), db), pc # "delete" => call[p].op \in AdminOps,
           call[p].pc \notin DuePcs, call[p].pc \notin DoorPcs
    PROVE  Calm(p)
<1> DEFINE E1 == EnabledAdmins(db)
           r == [call[p] EXCEPT !.pc = pc, !.admins = E1]
<1>0. call[p] \in Call /\ db \in Tables /\ Aside(db, db) /\ Fits(call[p]) /\ Names(call[p], db.grants, chals)
  BY InvFacts, AsideSame
<1>1. E1 \in SUBSET Accounts /\ E1 # NotCounted /\ E1 # {call[p].tgt}
  BY GuardSpares
<1>2. pc \in Pcs /\ pc \in QuietPcs /\ pc \in FreePcs
  BY DEF Pcs, QuietPcs, FreePcs
<1> HIDE DEF E1
<1>3. /\ r \in Call /\ r.pc = pc /\ r.op = call[p].op /\ r.ref = call[p].ref /\ r.tok = call[p].tok /\ r.role = call[p].role
      /\ r.tgt = call[p].tgt /\ r.admins = E1
  BY <1>0, <1>1, <1>2 DEF Call
<1>4. Step(p, r, db)
  BY DEF Counted, E1
<1> HIDE DEF r
<1>5. Fits(r)
  BY <1>0, <1>1, <1>3 DEF Fits, Spared
<1>6. Names(r, db.grants, chals)
  BY <1>0, <1>2, <1>3, NamesKept
<1> QED BY <1>0, <1>2, <1>3, <1>4, <1>5, <1>6, BoundCalm, QuietSettled

LEMMA BoundGoto ==
    ASSUME RequestInv, NEW p \in Procs, NEW pc \in Pcs, Goto(p, pc), pc \in QuietPcs, pc \in FreePcs,
           Fits(To(call[p], pc)), call[p].pc \notin DuePcs, call[p].pc \notin DoorPcs
    PROVE  Calm(p)
<1>0. call[p] \in Call /\ Aside(db, db) /\ Names(call[p], db.grants, chals)
  BY InvFacts, AsideSame
<1>1. /\ To(call[p], pc).op = call[p].op /\ To(call[p], pc).ref = call[p].ref /\ To(call[p], pc).tok = call[p].tok
      /\ To(call[p], pc).pc = pc
  BY <1>0, ToFields
<1>2. Names(To(call[p], pc), db.grants, chals)
  BY <1>0, <1>1, NamesKept
<1>3. Step(p, To(call[p], pc), db)
  BY DEF Goto
<1> QED BY <1>0, <1>1, <1>2, <1>3, BoundCalm, QuietSettled

\* Getting hold of the account to change.
LEMMA TargetBound ==
    ASSUME RequestInv, NEW p \in Procs, NEW pc \in {"get_target", "guard_role"}, WithTarget(p, TRUE, pc),
           call[p].op \in AdminOps, call[p].pc \notin DuePcs, call[p].pc \notin DoorPcs
    PROVE  Calm(p)
<1>0. call[p] \in Call /\ db \in Tables /\ Aside(db, db) /\ Fits(call[p]) /\ Names(call[p], db.grants, chals)
  BY InvFacts, AsideSame
<1>1. CASE Reply(p)
  BY <1>1, EndCalm
<1>2. CASE call[p].tgt \in Rows(db) /\ Step(p, [call[p] EXCEPT !.pc = pc, !.row = db.users[call[p].tgt]], db)
  <2> DEFINE w == db.users[call[p].tgt]
             r == [call[p] EXCEPT !.pc = pc, !.row = w]
  <2>1. w \in User
    BY <1>2, RowOf
  <2>2. pc \in Pcs /\ pc \in QuietPcs /\ pc \in FreePcs
    BY DEF Pcs, QuietPcs, FreePcs
  <2>3. Step(p, r, db)
    BY <1>2
  <2> HIDE DEF w
  <2>4. r \in Call /\ r.pc = pc /\ r.op = call[p].op /\ r.ref = call[p].ref /\ r.tok = call[p].tok /\ r.role = call[p].role
    BY <1>0, <2>1, <2>2 DEF Call
  <2> HIDE DEF r
  <2>5. Fits(r)
    BY <1>0, <2>4 DEF Fits
  <2>6. Names(r, db.grants, chals)
    BY <1>0, <2>2, <2>4, NamesKept
  <2> QED BY <1>0, <2>2, <2>3, <2>4, <2>5, <2>6, BoundCalm, QuietSettled
<1> QED BY <1>1, <1>2 DEF WithTarget, Try

LEMMA GuardsCalm ==
    ASSUME RequestInv, NEW p \in Procs,
           \/ ApiUpdateUser(p) \/ PageUserSetEnabled(p) \/ PageUserUpdate(p) \/ GetTarget(p)
           \/ GuardRole(p) \/ GuardDisabled(p) \/ GuardDelete(p)
    PROVE  Calm(p)
<1>0. call[p] \in Call /\ db \in Tables /\ Aside(db, db) /\ Fits(call[p]) /\ Names(call[p], db.grants, chals)
  BY InvFacts, AsideSame
<1>a. ASSUME NEW pc \in {"get_target", "guard_role", "guard_dis", "set_role"} PROVE pc \in Pcs /\ pc \in QuietPcs /\ pc \in FreePcs
  BY <1>a DEF Pcs, QuietPcs, FreePcs
<1> USE DEF Handles, At, DuePcs, DoorPcs
<1>1. CASE ApiUpdateUser(p)
  <2>1. Goto(p, "get_target") /\ call[p].op = "update"
    BY <1>1 DEF ApiUpdateUser
  <2> DEFINE c == To(call[p], "get_target")
  <2>0. c \in Call /\ c.pc = "get_target" /\ c.op = call[p].op /\ c.role = call[p].role
    BY <1>0, <1>a, ToFields
  <2> HIDE DEF c
  <2>3. Fits(c)
    BY <1>0, <2>0, <2>1 DEF Fits, AdminOps
  <2>2. Fits(To(call[p], "get_target"))
    BY <2>3 DEF c
  <2> QED BY <1>1, <1>a, <2>1, <2>2, BoundGoto DEF ApiUpdateUser
<1>2. CASE PageUserSetEnabled(p)
  BY <1>2, TargetBound DEF PageUserSetEnabled, AdminOps
<1>3. CASE PageUserUpdate(p)
  <2>1. CASE Reply(p)
    BY <1>3, <2>1, EndCalm DEF PageUserUpdate
  <2>2. CASE ~Reply(p)
    <3>1. PICK x, y : /\ x \in {"keep", "admin", "user"} /\ y \in {"keep", "on", "off"}
                      /\ Step(p, To([call[p] EXCEPT !.role = x, !.dis = y], "get_target"), db)
      <4> DEFINE w == db.users[call[p].tgt]
                 x == IF call[p].role = w.role THEN "keep" ELSE call[p].role
                 y == IF call[p].dis = OnOff(w.dis) THEN "keep" ELSE call[p].dis
      <4>1. Step(p, To([call[p] EXCEPT !.role = x, !.dis = y], "get_target"), db)
        BY <1>3, <2>2 DEF PageUserUpdate, Try
      <4>2. x \in {"keep", "admin", "user"} /\ y \in {"keep", "on", "off"}
        BY <1>0 DEF Call
      <4> HIDE DEF x, y
      <4> QED BY <4>1, <4>2
    <3> DEFINE n == [call[p] EXCEPT !.role = x, !.dis = y]
               r == To(n, "get_target")
    <3>2. Step(p, r, db)
      BY <3>1
    <3>3. n \in Call /\ n.op = call[p].op /\ n.ref = call[p].ref /\ n.tok = call[p].tok
      <4> DEFINE a == [call[p] EXCEPT !.role = x]
      <4>1. a \in Call /\ a.op = call[p].op /\ a.ref = call[p].ref /\ a.tok = call[p].tok
        BY <1>0, <3>1 DEF Call
      <4>2. n = [a EXCEPT !.dis = y]
        BY <1>0 DEF Call
      <4> HIDE DEF a, n
      <4> QED BY <3>1, <4>1, <4>2 DEF Call
    <3> HIDE DEF n
    <3>4. r \in Call /\ r.pc = "get_target" /\ r.op = call[p].op /\ r.ref = call[p].ref /\ r.tok = call[p].tok
      BY <1>a, <3>3, ToFields
    <3> HIDE DEF r
    <3>5. r.op = "update"
      BY <1>3, <3>4 DEF PageUserUpdate
    <3>6. Fits(r)
      BY <3>4, <3>5 DEF Fits, AdminOps
    <3>7. Names(r, db.grants, chals)
      BY <1>0, <1>a, <3>4, NamesKept
    <3> QED BY <1>0, <1>3, <1>a, <3>2, <3>4, <3>6, <3>7, BoundCalm, QuietSettled DEF PageUserUpdate
  <2> QED BY <2>1, <2>2
<1>4. CASE GetTarget(p)
  BY <1>0, <1>4, TargetBound DEF GetTarget, Fits
<1>5. CASE GuardRole(p)
  <2>0. call[p].op \in AdminOps
    BY <1>0, <1>5 DEF GuardRole, Fits
  <2>1. CASE Reply(p)
    BY <1>5, <2>1, EndCalm DEF GuardRole
  <2>2. CASE Guarded(p) /\ Step(p, Counted(p, "guard_dis"), db)
    BY <1>5, <2>0, <2>2, CountedFits DEF GuardRole
  <2>3. CASE call[p].role # "user" /\ Goto(p, "guard_dis")
    <3> DEFINE c == To(call[p], "guard_dis")
    <3>0. /\ c \in Call /\ c.pc = "guard_dis" /\ c.op = call[p].op /\ c.role = call[p].role /\ c.dis = call[p].dis
          /\ c.tgt = call[p].tgt /\ c.admins = call[p].admins
      BY <1>0, <1>a, ToFields
    <3> HIDE DEF c
    <3>2. Fits(c)
      BY <1>0, <2>0, <2>3, <3>0 DEF Fits, Spared
    <3>1. Fits(To(call[p], "guard_dis"))
      BY <3>2 DEF c
    <3> QED BY <1>5, <1>a, <2>3, <3>1, BoundGoto DEF GuardRole
  <2> QED BY <1>5, <2>1, <2>2, <2>3 DEF GuardRole, Try
<1>6. CASE GuardDisabled(p)
  <2>0. call[p].op \in AdminOps /\ (call[p].role = "user" => Spared(call[p]))
    BY <1>0, <1>6 DEF GuardDisabled, Fits
  <2>1. CASE Reply(p)
    BY <1>6, <2>1, EndCalm DEF GuardDisabled
  <2>2. CASE Guarded(p) /\ Step(p, Counted(p, "set_role"), db)
    BY <1>6, <2>0, <2>2, CountedFits DEF GuardDisabled
  <2>3. CASE call[p].dis # "on" /\ Goto(p, "set_role")
    <3> DEFINE c == To(call[p], "set_role")
    <3>0. /\ c \in Call /\ c.pc = "set_role" /\ c.op = call[p].op /\ c.role = call[p].role /\ c.dis = call[p].dis
          /\ c.tgt = call[p].tgt /\ c.admins = call[p].admins
      BY <1>0, <1>a, ToFields
    <3> HIDE DEF c
    <3>2. Fits(c)
      BY <1>0, <2>0, <2>3, <3>0 DEF Fits, Spared
    <3>1. Fits(To(call[p], "set_role"))
      BY <3>2 DEF c
    <3> QED BY <1>6, <1>a, <2>3, <3>1, BoundGoto DEF GuardDisabled
  <2> QED BY <1>6, <2>1, <2>2, <2>3 DEF GuardDisabled, Try
<1>7. CASE GuardDelete(p)
  <2>1. CASE Reply(p)
    BY <1>7, <2>1, EndCalm DEF GuardDelete
  <2>2. CASE Guarded(p) /\ Step(p, Counted(p, "delete"), db)
    BY <1>7, <2>2, CountedFits DEF GuardDelete
  <2> QED BY <1>7, <2>1, <2>2 DEF GuardDelete, Try
<1> QED BY <1>1, <1>2, <1>3, <1>4, <1>5, <1>6, <1>7

LEMMA InviteCalm ==
    ASSUME RequestInv, NEW p \in Procs, ApiCreateUser(p) \/ PageUserInvite(p) \/ InviteList(p)
    PROVE  Calm(p)
<1>0. call[p] \in Call /\ Fits(call[p])
  BY InvFacts
<1>a. ASSUME NEW pc \in {"invite_list", "invite_create"} PROVE pc \in Pcs /\ pc \in QuietPcs /\ pc \in FreePcs
  BY <1>a DEF Pcs, QuietPcs, FreePcs
<1> USE DEF Handles, At, DuePcs, DoorPcs
<1>b. ASSUME NEW pc \in {"invite_list", "invite_create"}, call[p].op = "invite" PROVE Fits(To(call[p], pc))
  BY <1>0, <1>a, <1>b, ToFields DEF Fits
<1>1. CASE ApiCreateUser(p) \/ PageUserInvite(p)
  <2>1. Goto(p, "invite_list") /\ call[p].op = "invite" /\ call[p].pc = "handler"
    BY <1>1 DEF ApiCreateUser, PageUserInvite
  <2>2. Fits(To(call[p], "invite_list"))
    BY <1>b, <2>1
  <2> QED BY <1>a, <2>1, <2>2, BoundGoto
<1>2. CASE InviteList(p)
  <2>0. call[p].op = "invite" /\ call[p].pc = "invite_list"
    BY <1>0, <1>2 DEF InviteList, Fits
  <2>1. CASE Reply(p)
    BY <2>0, <2>1, EndCalm
  <2>2. CASE Goto(p, "invite_create")
    <3>1. Fits(To(call[p], "invite_create"))
      BY <1>b, <2>0
    <3> QED BY <1>a, <2>0, <2>2, <3>1, BoundGoto
  <2> QED BY <1>2, <2>1, <2>2 DEF InviteList, Try, Goto
<1> QED BY <1>1, <1>2

LEMMA FindEmailCalm ==
    ASSUME RequestInv, NEW p \in Procs, FindByEmail(p) \/ FindLegacy(p)
    PROVE  Calm(p)
<1>0. call[p] \in Call /\ Fits(call[p]) /\ Names(call[p], db.grants, chals) /\ db \in Tables /\ Aside(db, db)
  BY InvFacts, AsideSame
<1>1. call[p].pc \notin DuePcs /\ call[p].pc \notin DoorPcs
  BY DEF FindByEmail, FindLegacy, At, DuePcs, DoorPcs
<1>2. PICK pc \in {"find_legacy", "signup"},
              us \in {GetByEmail(db, call[p].addr), {u \in Rows(db) : NormalizeAddress(db.users[u].email) = call[p].addr}} :
        FindEmail(p, us, pc)
  BY DEF FindByEmail, FindLegacy
<1>2a. \A u \in us : u \in Rows(db) /\ NormalizeAddress(db.users[u].email) = NormalizeAddress(call[p].addr)
  <2>1. \A a, b : NormalizeAddress(a) = b => NormalizeAddress(a) = NormalizeAddress(b)
    BY DEF NormalizeAddress, Legacy
  <2> QED BY <1>2, <2>1 DEF GetByEmail
<1>3. CASE Goto(p, pc)
  <2>1. pc \in PlainPcs
    BY DEF PlainPcs
  <2> QED BY <1>1, <1>3, <2>1, GotoCalm
<1>4. CASE Reply(p)
  BY <1>1, <1>4, EndCalm
<1>5. ASSUME ~Goto(p, pc), ~Reply(p) PROVE Calm(p)
  <2>1. PICK u \in us :
          /\ db.users[u].role # "admin"
          /\ Step(p, [call[p] EXCEPT !.pc = "link", !.tgt = u, !.row = db.users[u]], db)
    BY <1>2, <1>5 DEF FindEmail, Try
  <2> DEFINE w == db.users[u]
             r == [call[p] EXCEPT !.pc = "link", !.tgt = u, !.row = w]
  <2>2. w \in User /\ u \in Accounts /\ NormalizeAddress(w.email) = NormalizeAddress(call[p].addr) /\ w.role # "admin"
    BY <1>2a, <2>1, RowOf
  <2>3. w.role = "user"
    BY <2>2 DEF User
  <2>4. Step(p, r, db)
    BY <2>1
  <2>5. "link" \in Pcs /\ "link" \in QuietPcs /\ "link" \in FreePcs
    BY DEF Pcs, QuietPcs, FreePcs
  <2> HIDE DEF w
  <2>6. /\ r \in Call /\ r.pc = "link" /\ r.op = call[p].op /\ r.ref = call[p].ref /\ r.tok = call[p].tok
        /\ r.role = call[p].role /\ r.row = w /\ r.addr = call[p].addr
    BY <1>0, <2>2, <2>5 DEF Call
  <2> HIDE DEF r
  <2>7. Fits(r)
    BY <1>0, <2>2, <2>3, <2>6 DEF Fits
  <2>8. Names(r, db.grants, chals)
    BY <1>0, <2>5, <2>6, NamesKept
  <2> QED BY <1>0, <1>1, <2>4, <2>5, <2>6, <2>7, <2>8, BoundCalm, QuietSettled
<1> QED BY <1>3, <1>4, <1>5

\* On the way to a link or to the first run.
LEMMA BoundStep ==
    ASSUME RequestInv, NEW p \in Procs, NEW pc \in Pcs, Goto(p, pc), pc \in QuietPcs,
           Fits(To(call[p], pc)), Names(To(call[p], pc), db.grants, chals),
           call[p].pc \notin DuePcs, call[p].pc \notin DoorPcs
    PROVE  Calm(p)
<1>1. Step(p, To(call[p], pc), db) /\ Aside(db, db) /\ To(call[p], pc).op = call[p].op /\ To(call[p], pc).pc = pc
  BY InvFacts, AsideSame, ToFields DEF Goto
<1> QED BY <1>1, BoundCalm, QuietSettled

LEMMA ClassifyCalm ==
    ASSUME RequestInv, NEW p \in Procs,
           RegisterBegin(p) \/ RegisterFinish(p) \/ LookupGrant(p) \/ GrantUser(p) \/ FirstRun(p)
    PROVE  Calm(p)
<1>0. call[p] \in Call /\ Fits(call[p]) /\ Names(call[p], db.grants, chals)
  BY InvFacts
<1>a. ASSUME NEW pc \in {"lookup", "grant_user", "first_run", "valid", "no_admin"} PROVE pc \in Pcs /\ pc \in QuietPcs
  BY <1>a DEF Pcs, QuietPcs
<1>b. ASSUME NEW pc \in {"lookup", "grant_user", "first_run", "valid"} PROVE pc \in FreePcs
  BY <1>b DEF FreePcs
<1>c. ASSUME NEW pc \in {"lookup", "grant_user", "first_run", "valid", "no_admin"}, call[p].op = "reg_begin"
      PROVE  Fits(To(call[p], pc)) /\ Names(To(call[p], pc), db.grants, chals)
  <2>1. pc \in Pcs
    BY <1>a
  <2>2. Fits(To(call[p], pc))
    BY <1>0, <1>c, <2>1, ToFields DEF Fits
  <2>3. Names(To(call[p], pc), db.grants, chals)
    BY <1>0, <1>c, <2>1, ToFields DEF Names
  <2> QED BY <2>2, <2>3
<1> USE DEF Handles, At, DuePcs, DoorPcs
<1>1. CASE RegisterBegin(p)
  <2>1. Goto(p, "lookup") /\ call[p].op = "reg_begin" /\ call[p].pc = "handler"
    BY <1>1 DEF RegisterBegin
  <2>2. Fits(To(call[p], "lookup")) /\ Names(To(call[p], "lookup"), db.grants, chals)
    BY <1>c, <2>1
  <2> QED BY <1>a, <2>1, <2>2, BoundStep
<1>2. CASE RegisterFinish(p)
  <2>0. call[p].op = "reg_finish" /\ call[p].pc = "handler"
    BY <1>2 DEF RegisterFinish
  <2>1. CASE chals[call[p].ref].aad = "claim" /\ Goto(p, "no_admin")
    <3> DEFINE c == To(call[p], "no_admin")
    <3>0. /\ c \in Call /\ c.pc = "no_admin" /\ c.op = call[p].op /\ c.role = call[p].role /\ c.dis = call[p].dis
          /\ c.tgt = call[p].tgt /\ c.ref = call[p].ref /\ c.tok = call[p].tok
      BY <1>0, <1>a, ToFields
    <3> HIDE DEF c
    <3>3. Fits(c) /\ Names(c, db.grants, chals)
      <4>1. Fits(c)
        BY <1>0, <2>0, <3>0 DEF Fits
      <4>2. Names(c, db.grants, chals)
        BY <1>0, <2>0, <2>1, <3>0 DEF Names
      <4> QED BY <4>1, <4>2
    <3>1. Fits(To(call[p], "no_admin"))
      BY <3>3 DEF c
    <3>2. Names(To(call[p], "no_admin"), db.grants, chals)
      BY <3>3 DEF c
    <3> QED BY <1>a, <2>0, <2>1, <3>1, <3>2, BoundStep
  <2>2. CASE Goto(p, "valid")
    <3> DEFINE c == To(call[p], "valid")
    <3>0. /\ c \in Call /\ c.pc = "valid" /\ c.op = call[p].op /\ c.role = call[p].role /\ c.dis = call[p].dis
          /\ c.tgt = call[p].tgt /\ c.ref = call[p].ref /\ c.tok = call[p].tok
      BY <1>0, <1>a, ToFields
    <3> HIDE DEF c
    <3>3. Fits(c)
      BY <1>0, <2>0, <3>0 DEF Fits
    <3>4. Names(c, db.grants, chals)
      BY <1>0, <2>0, <3>0 DEF Names
    <3>1. Fits(To(call[p], "valid"))
      BY <3>3 DEF c
    <3>2. Names(To(call[p], "valid"), db.grants, chals)
      BY <3>4 DEF c
    <3> QED BY <1>a, <2>0, <2>2, <3>1, <3>2, BoundStep
  <2> QED BY <1>2, <2>1, <2>2 DEF RegisterFinish
<1>3. CASE LookupGrant(p)
  <2>0. call[p].op = "reg_begin" /\ call[p].pc = "lookup"
    BY <1>0, <1>3 DEF LookupGrant, Fits
  <2>1. PICK pc \in {"grant_user", "first_run"} : Goto(p, pc)
    BY <1>3 DEF LookupGrant
  <2>2. Fits(To(call[p], pc)) /\ Names(To(call[p], pc), db.grants, chals)
    BY <1>c, <2>0
  <2> QED BY <1>a, <2>0, <2>1, <2>2, BoundStep
<1>4. CASE GrantUser(p)
  <2>0. call[p].op = "reg_begin" /\ call[p].pc = "grant_user"
    BY <1>0, <1>4 DEF GrantUser, Fits
  <2>1. PICK pc \in {"valid", "first_run"} : Goto(p, pc)
    BY <1>4 DEF GrantUser
  <2>2. Fits(To(call[p], pc)) /\ Names(To(call[p], pc), db.grants, chals)
    BY <1>c, <2>0
  <2> QED BY <1>a, <2>0, <2>1, <2>2, BoundStep
<1>5. CASE FirstRun(p)
  <2>0. call[p].op = "reg_begin" /\ call[p].pc = "first_run"
    BY <1>0, <1>5 DEF FirstRun, Fits
  <2>1. CASE Reply(p)
    BY <2>0, <2>1, EndCalm
  <2>2. CASE Goto(p, "no_admin")
    <3>1. Fits(To(call[p], "no_admin")) /\ Names(To(call[p], "no_admin"), db.grants, chals)
      BY <1>c, <2>0
    <3> QED BY <1>a, <2>0, <2>2, <3>1, BoundStep
  <2> QED BY <1>5, <2>1, <2>2 DEF FirstRun, Try, Goto
<1> QED BY <1>1, <1>2, <1>3, <1>4, <1>5

-----------------------------------------------------------------------------
(* Steps that write an account *)

\* p goes on as c.
Turned(p, c) ==
    /\ call' = [call EXCEPT ![p] = c]
    /\ Fits(c) /\ Names(c, db'.grants, chals')
    /\ Authority(c) => Authority(call[p])
Onward(p, c) == Turned(p, c) /\ UNCHANGED <<mu, spent, scene>>

\* It is then at pc; a change of address is one of u's.
Goes(p, pc, u) ==
    Later /\ \E c : Onward(p, c) /\ c.pc = pc /\ (pc = "drop" => c.tgt = u)

LEMMA ApartGrown == ASSUME NEW d \in Tables, NEW e, Apart(d, e) PROVE GrownGrants(d.grants, e.grants)
BY TablesFields, GrownSame DEF Apart

LEMMA GoesNowhere ==
    ASSUME RequestInv, NEW p \in Procs, NEW e, NEW u, Step(p, NoCall, e) PROVE Goes(p, "idle", u)
<1>1. NoCall.pc = "idle" /\ Fits(NoCall) /\ Names(NoCall, db'.grants, chals') /\ ~Authority(NoCall)
  BY NoCallFits DEF NoCall
<1> HIDE DEF NoCall
<1> QED BY <1>1, LaterSame DEF Goes, Onward, Turned, Step

LEMMA GoesOn ==
    ASSUME RequestInv, NEW p \in Procs, NEW r \in Call, NEW e, Step(p, r, e), GrownGrants(db.grants, e.grants), NEW u,
           r.op = call[p].op, r.ref = call[p].ref, r.tok = call[p].tok, r.op = "invite" => r.role = call[p].role,
           r.pc \in PlainPcs \cup {"drop"}, r.pc = "drop" => r.tgt = u, call[p].pc \notin DoorPcs
    PROVE  Goes(p, r.pc, u)
<1>0. Fits(call[p]) /\ Names(call[p], db.grants, chals) /\ db.grants \in Seq(Grant) /\ chals \in Seq(Challenge)
  BY InvFacts, TablesFields
<1>1. Fits(r)
  <2>1. CASE r.pc \in PlainPcs
    BY <1>0, <2>1, PlainFits
  <2>2. CASE r.pc = "drop"
    BY <1>0, <2>2 DEF Fits
  <2> QED BY <2>1, <2>2
<1>2. Names(r, e.grants, chals)
  <2>1. Names(r, db.grants, chals)
    BY <1>0, NamesKept DEF FreePcs
  <2> QED BY <1>0, <1>1, <2>1, NamesGrow, ChalsSame
<1>3. Authority(r) => Authority(call[p])
  BY DEF Authority, DoorPcs
<1> QED BY <1>1, <1>2, <1>3, LaterSame DEF Goes, Onward, Turned, Step

LEMMA GoesTo ==
    ASSUME RequestInv, NEW p \in Procs, NEW pc \in PlainPcs \cup {"drop"}, NEW e, Step(p, To(call[p], pc), e),
           GrownGrants(db.grants, e.grants), call[p].pc \notin DoorPcs
    PROVE  Goes(p, pc, call[p].tgt)
<1>1. pc \in Pcs /\ call[p] \in Call
  BY InvFacts, PlainIsPc DEF Pcs
<1> DEFINE r == To(call[p], pc)
<1>2. r \in Call /\ r.op = call[p].op /\ r.ref = call[p].ref /\ r.tok = call[p].tok /\ r.role = call[p].role /\ r.pc = pc
      /\ r.tgt = call[p].tgt
  BY <1>1, ToFields
<1>3. Step(p, r, e)
  OBVIOUS
<1> HIDE DEF r
<1>4. Goes(p, r.pc, call[p].tgt)
  BY <1>2, <1>3, GoesOn
<1> QED BY <1>2, <1>4

LEMMA ApplyRoleDoes ==
    ASSUME RequestInv, NEW p \in Procs, ApplyRole(p)
    PROVE  \/ Calm(p)
           \/ /\ Goes(p, "set_dis", call[p].tgt) /\ call[p].tgt \in Rows(db) /\ call[p].role \in {"admin", "user"}
              /\ Rewrites(db, db', call[p].tgt, [db.users[call[p].tgt] EXCEPT !.role = call[p].role])
<1>0. call[p] \in Call /\ Fits(call[p]) /\ Names(call[p], db.grants, chals) /\ db \in Tables
  BY InvFacts
<1>a. "set_dis" \in Pcs /\ "set_dis" \in QuietPcs /\ "set_dis" \in FreePcs
  BY DEF Pcs, QuietPcs, FreePcs
<1>b. call[p].pc = "set_role" /\ call[p].pc \notin DuePcs /\ call[p].pc \notin DoorPcs
  BY DEF ApplyRole, At, DuePcs, DoorPcs
<1>c. Fits(To(call[p], "set_dis"))
  BY <1>0, <1>a, <1>b, ToFields DEF Fits, Spared
<1>1. CASE call[p].role = "keep"
  <2>1. Goto(p, "set_dis")
    BY <1>1 DEF ApplyRole
  <2> QED BY <1>a, <1>b, <1>c, <2>1, BoundGoto
<1>2. CASE Reply(p)
  BY <1>2, <1>b, EndCalm
<1>3. CASE /\ call[p].role # "keep" /\ call[p].tgt \in Rows(db)
           /\ Step(p, To(call[p], "set_dis"), SetRole(db, call[p].tgt, call[p].role))
  <2>1. call[p].role \in {"admin", "user"} /\ call[p].tgt \in Accounts
    BY <1>0, <1>3, RowOf DEF Call
  <2>2. Rewrites(db, db', call[p].tgt, [db.users[call[p].tgt] EXCEPT !.role = call[p].role])
    BY <1>0, <1>3, <2>1, SetRoleDoes DEF Step
  <2>3. db'.grants = db.grants /\ chals' = chals
    BY <1>3, <2>2 DEF Rewrites, Apart, Step
  <2>4. Names(To(call[p], "set_dis"), db.grants, chals)
    BY <1>0, <1>a, ToFields, NamesKept
  <2>5. Authority(To(call[p], "set_dis")) => Authority(call[p])
    BY <1>0, <1>a, <1>b, ToFields DEF Authority
  <2>6. To(call[p], "set_dis").pc = "set_dis"
    BY <1>0, <1>a, ToFields
  <2>7. Goes(p, "set_dis", call[p].tgt)
    BY <1>3, <1>c, <2>3, <2>4, <2>5, <2>6, LaterSame DEF Goes, Onward, Turned, Step
  <2> QED BY <1>3, <2>1, <2>2, <2>7
<1> QED BY <1>1, <1>2, <1>3 DEF ApplyRole, Try

LEMMA ApplyDisabledDoes ==
    ASSUME RequestInv, NEW p \in Procs, ApplyDisabled(p)
    PROVE  \/ Calm(p)
           \/ /\ Goes(p, "end_sessions", call[p].tgt) \/ Goes(p, "idle", call[p].tgt)
              /\ call[p].tgt \in Rows(db)
              /\ Rewrites(db, db', call[p].tgt, [db.users[call[p].tgt] EXCEPT !.dis = (call[p].dis = "on")])
<1>0. call[p] \in Call /\ db \in Tables /\ call[p].pc = "set_dis"
  BY InvFacts DEF ApplyDisabled, At
<1>1. CASE Reply(p)
  BY <1>0, <1>1, EndCalm DEF DuePcs
<1>2. ASSUME ~Reply(p) PROVE /\ Goes(p, "end_sessions", call[p].tgt) \/ Goes(p, "idle", call[p].tgt)
                             /\ call[p].tgt \in Rows(db)
                             /\ Rewrites(db, db', call[p].tgt, [db.users[call[p].tgt] EXCEPT !.dis = (call[p].dis = "on")])
  <2> DEFINE e == SetDisabled(db, call[p].tgt, call[p].dis = "on")
  <2>1. /\ call[p].tgt \in Rows(db)
        /\ Step(p, To(call[p], "end_sessions"), e) \/ Step(p, NoCall, e)
    BY <1>2 DEF ApplyDisabled, Try
  <2>2. Rewrites(db, e, call[p].tgt, [db.users[call[p].tgt] EXCEPT !.dis = (call[p].dis = "on")])
    <3>1. call[p].tgt \in Accounts /\ (call[p].dis = "on") \in BOOLEAN
      BY <2>1, RowOf
    <3> QED BY <1>0, <3>1, SetDisabledDoes
  <2> HIDE DEF e
  <2>3. db' = e /\ GrownGrants(db.grants, e.grants)
    BY <1>0, <2>1, <2>2, ApartGrown DEF Step, Rewrites
  <2>4. call[p].pc \notin DoorPcs /\ "end_sessions" \in PlainPcs
    BY <1>0 DEF DoorPcs, PlainPcs
  <2> QED BY <2>1, <2>2, <2>3, <2>4, GoesTo, GoesNowhere
<1> QED BY <1>1, <1>2

LEMMA DeleteTargetDoes ==
    ASSUME RequestInv, NEW p \in Procs, DeleteTarget(p)
    PROVE  \/ Calm(p)
           \/ Goes(p, "idle", call[p].tgt) /\ call[p].tgt \in Rows(db) /\ db' = DeleteUser(db, call[p].tgt)
<1>1. CASE Reply(p)
  BY <1>1, EndCalm DEF DeleteTarget, At, DuePcs
<1>2. CASE call[p].tgt \in Rows(db) /\ Step(p, NoCall, DeleteUser(db, call[p].tgt))
  BY <1>2, GoesNowhere DEF Step
<1> QED BY <1>1, <1>2 DEF DeleteTarget, Try

LEMMA RequestPendDoes ==
    ASSUME RequestInv, NEW p \in Procs, RequestPend(p)
    PROVE  \/ Calm(p)
           \/ /\ Goes(p, "mail_confirm", call[p].tgt) /\ call[p].me \in Rows(db)
              /\ call[p].addr \in Addresses \cup {NoAddr} /\ db' = SetPendingEmail(db, call[p].me, call[p].addr)
<1>0. call[p] \in Call /\ db \in Tables /\ call[p].pc = "set_pending"
  BY InvFacts DEF RequestPend, At
<1>1. CASE Reply(p)
  BY <1>0, <1>1, EndCalm DEF DuePcs
<1>2. CASE call[p].me \in Rows(db) /\ Step(p, To(call[p], "mail_confirm"), SetPendingEmail(db, call[p].me, call[p].addr))
  <2> DEFINE e == SetPendingEmail(db, call[p].me, call[p].addr)
  <2>1. call[p].me \in Accounts /\ call[p].addr \in Addresses \cup {NoAddr}
    BY <1>0, <1>2, RowOf DEF Call
  <2>2. GrownGrants(db.grants, e.grants)
    BY <1>0, <2>1, SetPendingDoes, ApartGrown
  <2>3. call[p].pc \notin DoorPcs /\ "mail_confirm" \in PlainPcs
    BY <1>0 DEF DoorPcs, PlainPcs
  <2>4. Step(p, To(call[p], "mail_confirm"), e)
    BY <1>2
  <2> HIDE DEF e
  <2>5. Goes(p, "mail_confirm", call[p].tgt) /\ db' = e
    BY <2>2, <2>3, <2>4, GoesTo DEF Step
  <2> QED BY <1>2, <2>1, <2>5 DEF e
<1> QED BY <1>1, <1>2 DEF RequestPend, Try

LEMMA UnpendDoes ==
    ASSUME RequestInv, NEW p \in Procs, RequestWithdraw(p) \/ Cancel(p)
    PROVE  \/ Calm(p)
           \/ /\ Goes(p, "idle", call[p].tgt) /\ call[p].me \in Rows(db)
              /\ Rewrites(db, db', call[p].me, Unpended(db.users[call[p].me]))
<1>0. call[p] \in Call /\ db \in Tables /\ call[p].pc \in {"withdraw", "cancel"}
  BY InvFacts DEF RequestWithdraw, Cancel, At
<1>1. CASE Reply(p)
  BY <1>0, <1>1, EndCalm DEF DuePcs
<1>2. CASE call[p].me \in Rows(db) /\ Step(p, NoCall, ClearPendingEmail(db, call[p].me))
  <2>1. Rewrites(db, db', call[p].me, Unpended(db.users[call[p].me]))
    BY <1>0, <1>2, RowOf, ClearPendingDoes DEF Step
  <2> QED BY <1>2, <2>1, GoesNowhere
<1> QED BY <1>1, <1>2 DEF RequestWithdraw, Cancel, Try

\* The address of an account changes, and its links are about to be dropped.
Readdresses(p, u, a) ==
    /\ Goes(p, "drop", u) /\ u \in Rows(db) /\ a \in Addresses \cup {NoAddr}
    /\ Rewrites(db, db', u, Unpended([db.users[u] EXCEPT !.email = a]))

LEMMA ConfirmStepDoes ==
    ASSUME RequestInv, NEW p \in Procs, Confirm(p)
    PROVE  \/ Calm(p)
           \/ CanConfirm(db, call[p].me, call[p].tok) /\ Readdresses(p, call[p].me, db.users[call[p].me].pend)
<1>0. call[p] \in Call /\ db \in Tables /\ call[p].pc = "confirm"
  BY InvFacts DEF Confirm, At
<1>1. CASE Reply(p)
  BY <1>0, <1>1, EndCalm DEF DuePcs
<1>2. CASE /\ CanConfirm(db, call[p].me, call[p].tok)
           /\ Step(p, [call[p] EXCEPT !.pc = "drop", !.tgt = call[p].me], ConfirmPendingEmail(db, call[p].me))
  <2> DEFINE e == ConfirmPendingEmail(db, call[p].me)
             r == [call[p] EXCEPT !.pc = "drop", !.tgt = call[p].me]
             a == db.users[call[p].me].pend
  <2>1. call[p].me \in Rows(db) /\ call[p].me \in Accounts
    BY <1>2, RowOf DEF CanConfirm
  <2>2. e = SetEmail(db, call[p].me, a) /\ a \in Addresses \cup {NoAddr}
    BY <1>0, <2>1, ConfirmDoes
  <2>3. Rewrites(db, e, call[p].me, Unpended([db.users[call[p].me] EXCEPT !.email = a]))
    BY <1>0, <2>1, <2>2, SetEmailDoes
  <2>4. GrownGrants(db.grants, e.grants)
    BY <1>0, <2>3, ApartGrown DEF Rewrites
  <2>5. "drop" \in Pcs
    BY DEF Pcs
  <2>6. r \in Call /\ r.op = call[p].op /\ r.ref = call[p].ref /\ r.tok = call[p].tok /\ r.role = call[p].role
        /\ r.pc = "drop" /\ r.tgt = call[p].me
    BY <1>0, <2>5 DEF Call
  <2>7. Step(p, r, e)
    BY <1>2
  <2>8. call[p].pc \notin DoorPcs
    BY <1>0 DEF DoorPcs
  <2> HIDE DEF e, r, a
  <2>9. Goes(p, r.pc, call[p].me) /\ db' = e
    BY <2>4, <2>6, <2>7, <2>8, GoesOn DEF Step
  <2>10. Readdresses(p, call[p].me, a)
    BY <2>1, <2>2, <2>3, <2>6, <2>9 DEF Readdresses
  <2> QED BY <1>2, <2>10 DEF a
<1> QED BY <1>1, <1>2 DEF Confirm, Try

LEMMA SetsEmail ==
    ASSUME RequestInv, NEW p \in Procs, CanSetEmail(db, call[p].tgt, call[p].addr), call[p].pc \notin DoorPcs,
           Step(p, To(call[p], "drop"), SetEmail(db, call[p].tgt, call[p].addr))
    PROVE  Readdresses(p, call[p].tgt, call[p].addr)
<1> DEFINE e == SetEmail(db, call[p].tgt, call[p].addr)
<1>0. call[p] \in Call /\ db \in Tables
  BY InvFacts
<1>1. call[p].tgt \in Rows(db) /\ call[p].tgt \in Accounts /\ call[p].addr \in Addresses \cup {NoAddr}
  BY <1>0, RowOf DEF CanSetEmail, Call
<1>2. Rewrites(db, e, call[p].tgt, Unpended([db.users[call[p].tgt] EXCEPT !.email = call[p].addr]))
  BY <1>0, <1>1, SetEmailDoes
<1>3. GrownGrants(db.grants, e.grants)
  BY <1>0, <1>2, ApartGrown DEF Rewrites
<1>4. Step(p, To(call[p], "drop"), e)
  OBVIOUS
<1> HIDE DEF e
<1>5. Goes(p, "drop", call[p].tgt) /\ db' = e
  BY <1>3, <1>4, GoesTo DEF Step
<1> QED BY <1>1, <1>2, <1>5 DEF Readdresses

LEMMA SetEmailStepsDo ==
    ASSUME RequestInv, NEW p \in Procs, AdminSet(p) \/ SyncSet(p)
    PROVE  Calm(p) \/ Readdresses(p, call[p].tgt, call[p].addr)
<1>0. call[p].pc \notin DoorPcs /\ call[p].pc \notin DuePcs
  BY DEF AdminSet, SyncSet, At, DoorPcs, DuePcs
<1>1. CASE Reply(p)
  BY <1>0, <1>1, EndCalm
<1>2. CASE Goto(p, "new_session")
  BY <1>0, <1>2, GotoCalm DEF PlainPcs
<1>3. CASE CanSetEmail(db, call[p].tgt, call[p].addr) /\ Step(p, To(call[p], "drop"), SetEmail(db, call[p].tgt, call[p].addr))
  BY <1>0, <1>3, SetsEmail
<1> QED BY <1>1, <1>2, <1>3 DEF AdminSet, SyncSet, Try

LEMMA LinkStepDoes ==
    ASSUME RequestInv, NEW p \in Procs, Link(p)
    PROVE  \/ Calm(p)
           \/ /\ Goes(p, "new_session", call[p].tgt) /\ call[p].sub \in Subjects \cup {Nobody}
              /\ CanLinkOIDC(db, call[p].tgt, call[p].row, call[p].addr, call[p].sub)
              /\ call[p].row.role = "user" /\ NormalizeAddress(call[p].row.email) = NormalizeAddress(call[p].addr)
              /\ Rewrites(db, db', call[p].tgt, [db.users[call[p].tgt] EXCEPT !.email = call[p].addr, !.sub = call[p].sub])
<1>0. call[p] \in Call /\ db \in Tables /\ call[p].pc = "link" /\ Fits(call[p])
  BY InvFacts DEF Link, At
<1>1. CASE Reply(p)
  BY <1>0, <1>1, EndCalm DEF DuePcs
<1>2. CASE /\ CanLinkOIDC(db, call[p].tgt, call[p].row, call[p].addr, call[p].sub)
           /\ Step(p, To(call[p], "new_session"), LinkOIDC(db, call[p].tgt, call[p].addr, call[p].sub))
  <2> DEFINE e == LinkOIDC(db, call[p].tgt, call[p].addr, call[p].sub)
             w == [db.users[call[p].tgt] EXCEPT !.email = call[p].addr, !.sub = call[p].sub]
  <2>1. call[p].tgt \in Accounts /\ call[p].addr \in Addresses \cup {NoAddr} /\ call[p].sub \in Subjects \cup {Nobody}
    BY <1>0, <1>2, RowOf DEF CanLinkOIDC, Call
  <2>2. Rewrites(db, e, call[p].tgt, w)
    BY <1>0, <2>1, LinkDoes
  <2>3. Step(p, To(call[p], "new_session"), e)
    BY <1>2
  <2>4. call[p].pc \notin DoorPcs /\ "new_session" \in PlainPcs
    BY <1>0 DEF DoorPcs, PlainPcs
  <2> HIDE DEF e, w
  <2>5. GrownGrants(db.grants, e.grants)
    BY <1>0, <2>2, ApartGrown DEF Rewrites
  <2>6. Goes(p, "new_session", call[p].tgt) /\ db' = e
    BY <2>3, <2>4, <2>5, GoesTo DEF Step
  <2>7. Rewrites(db, db', call[p].tgt, w)
    BY <2>2, <2>6
  <2>8. call[p].row.role = "user" /\ NormalizeAddress(call[p].row.email) = NormalizeAddress(call[p].addr)
    BY <1>0 DEF Fits
  <2> QED BY <1>2, <2>1, <2>6, <2>7, <2>8 DEF w
<1> QED BY <1>1, <1>2 DEF Link, Try

\* An account comes into being.
Arrives(p, a, x, s, by) ==
    /\ NewId(db) \in Accounts /\ db.users[NewId(db)].life = "unborn"
    /\ Rewrites(db, db', NewId(db), Newcomer(a, x, s, by))
    /\ x \in {"admin", "user"}

LEMMA SignupDoes ==
    ASSUME RequestInv, NEW p \in Procs, Signup(p)
    PROVE  \/ Calm(p)
           \/ Goes(p, "new_session", call[p].tgt) /\ Arrives(p, call[p].addr, "user", call[p].sub, "oidc")
<1>0. call[p] \in Call /\ db \in Tables /\ call[p].pc = "signup"
  BY InvFacts DEF Signup, At
<1>1. CASE Reply(p)
  BY <1>0, <1>1, EndCalm DEF DuePcs
<1>2. CASE /\ CanCreate(db, call[p].addr, call[p].sub)
           /\ Step(p, [call[p] EXCEPT !.pc = "new_session", !.tgt = NewId(db)], Create(db, call[p].addr, "user", call[p].sub, "oidc"))
  <2> DEFINE e == Create(db, call[p].addr, "user", call[p].sub, "oidc")
             u == NewId(db)
             r == [call[p] EXCEPT !.pc = "new_session", !.tgt = u]
  <2>1. call[p].addr \in Addresses \cup {NoAddr} /\ call[p].sub \in Subjects \cup {Nobody}
    BY <1>0 DEF Call
  <2>2. /\ u \in Accounts /\ db.users[u].life = "unborn"
        /\ Rewrites(db, e, u, Newcomer(call[p].addr, "user", call[p].sub, "oidc"))
    BY <1>0, <1>2, <2>1, CreateDoes
  <2>3. Step(p, r, e)
    BY <1>2
  <2>4. call[p].pc \notin DoorPcs /\ "new_session" \in PlainPcs /\ "new_session" \in Pcs
    BY <1>0 DEF DoorPcs, PlainPcs, Pcs
  <2>4a. u \in Accounts \cup {Nobody}
    BY <2>2
  <2> HIDE DEF e, u
  <2>5. GrownGrants(db.grants, e.grants)
    BY <1>0, <2>2, ApartGrown DEF Rewrites
  <2>6. r \in Call /\ r.op = call[p].op /\ r.ref = call[p].ref /\ r.tok = call[p].tok /\ r.role = call[p].role
        /\ r.pc = "new_session"
    BY <1>0, <2>4, <2>4a DEF Call
  <2> HIDE DEF r
  <2>6a. r.pc \in PlainPcs \cup {"drop"} /\ r.pc # "drop"
    BY <2>4, <2>6
  <2>7. Goes(p, r.pc, call[p].tgt) /\ db' = e
    BY <2>3, <2>4, <2>5, <2>6, <2>6a, GoesOn DEF Step
  <2> QED BY <2>2, <2>6, <2>7 DEF Arrives, u
<1> QED BY <1>1, <1>2 DEF Signup, Try

LEMMA InviteCreateDoes ==
    ASSUME RequestInv, NEW p \in Procs, InviteCreate(p)
    PROVE  \/ Calm(p)
           \/ /\ Goes(p, "issue_invite", call[p].tgt) /\ Arrives(p, call[p].addr, call[p].role, Nobody, "invite")
              /\ Authority(call[p])
<1>0. call[p] \in Call /\ db \in Tables /\ call[p].pc = "invite_create" /\ call[p].op = "invite" /\ call[p].role # "keep"
  BY InvFacts DEF InviteCreate, At, Fits
<1>1. CASE Reply(p)
  BY <1>0, <1>1, EndCalm DEF DuePcs
<1>2. CASE /\ CanCreate(db, call[p].addr, Nobody) /\ ~Reply(p)
  <2> DEFINE e == Create(db, call[p].addr, call[p].role, Nobody, "invite")
             u == NewId(db)
             w == e.users[u]
             r == [call[p] EXCEPT !.pc = "issue_invite", !.tgt = u, !.row = w]
  <2>1. call[p].addr \in Addresses \cup {NoAddr} /\ call[p].role \in {"admin", "user"}
    BY <1>0 DEF Call
  <2>2. /\ u \in Accounts /\ db.users[u].life = "unborn"
        /\ Rewrites(db, e, u, Newcomer(call[p].addr, call[p].role, Nobody, "invite"))
    BY <1>0, <1>2, <2>1, CreateDoes
  <2>3. Step(p, r, e)
    BY <1>2 DEF InviteCreate, Try
  <2>4. call[p].pc \notin DoorPcs /\ "issue_invite" \in PlainPcs /\ "issue_invite" \in Pcs
    BY <1>0 DEF DoorPcs, PlainPcs, Pcs
  <2>4a. u \in Accounts \cup {Nobody} /\ w \in User
    <3>1. e \in Tables
      BY <2>2 DEF Rewrites, Apart
    <3> QED BY <2>2, <3>1, TablesFields
  <2> HIDE DEF e, u, w
  <2>5. GrownGrants(db.grants, e.grants)
    BY <1>0, <2>2, ApartGrown DEF Rewrites
  <2>6. r \in Call /\ r.op = call[p].op /\ r.ref = call[p].ref /\ r.tok = call[p].tok /\ r.role = call[p].role
        /\ r.pc = "issue_invite"
    BY <1>0, <2>4, <2>4a DEF Call
  <2> HIDE DEF r
  <2>6a. r.pc \in PlainPcs \cup {"drop"} /\ r.pc # "drop"
    BY <2>4, <2>6
  <2>7. Goes(p, r.pc, call[p].tgt) /\ db' = e
    BY <2>3, <2>4, <2>5, <2>6, <2>6a, GoesOn DEF Step
  <2>8. Authority(call[p])
    BY <1>0 DEF Authority, AdminOps
  <2> QED BY <2>1, <2>2, <2>6, <2>7, <2>8 DEF Arrives, u
<1> QED BY <1>1, <1>2 DEF InviteCreate, Try

LEMMA ApplyChangedDoes ==
    ASSUME RequestInv, NEW p \in Procs, ApplyChanged(p)
    PROVE  /\ Goes(p, "new_session", call[p].tgt) \/ Goes(p, "idle", call[p].tgt)
           /\ db' = DeleteUnusedByUser(db, call[p].tgt) /\ call[p].pc = "drop"
<1> DEFINE e == DeleteUnusedByUser(db, call[p].tgt)
<1>0. db \in Tables /\ call[p].pc = "drop"
  BY InvFacts DEF ApplyChanged, At
<1>1. GrownGrants(db.grants, e.grants)
  <2>1. db.grants \in Seq(Grant)
    BY <1>0, TablesFields
  <2>2. e.grants = Without(db.grants, Unused(db, call[p].tgt))
    BY <1>0, DeleteUnusedDoes DEF Links
  <2> QED BY <2>1, <2>2, WithoutGrants DEF GrownGrants
<1>2. Step(p, To(call[p], "new_session"), e) \/ Step(p, NoCall, e)
  BY DEF ApplyChanged
<1>3. call[p].pc \notin DoorPcs /\ "new_session" \in PlainPcs
  BY <1>0 DEF DoorPcs, PlainPcs
<1> HIDE DEF e
<1>4. /\ Goes(p, "new_session", call[p].tgt) \/ Goes(p, "idle", call[p].tgt)
      /\ db' = e
  BY <1>1, <1>2, <1>3, GoesTo, GoesNowhere DEF Step
<1> QED BY <1>0, <1>4 DEF e
-----------------------------------------------------------------------------
(* Steps with links and passkeys *)

Same(c, d) == c.op = d.op /\ c.ref = d.ref /\ c.tok = d.tok /\ c.tgt = d.tgt

\* The request goes on to pc, with its token and its challenge.
Proceeds(p, pc) == Later /\ \E c : Onward(p, c) /\ c.pc = pc /\ Same(c, call[p])

LEMMA ProceedsTo ==
    ASSUME RequestInv, NEW p \in Procs, NEW pc \in Pcs, NEW e, Step(p, To(call[p], pc), e),
           Fits(To(call[p], pc)), Names(To(call[p], pc), db.grants, chals),
           GrownGrants(db.grants, e.grants), call[p].pc \notin DoorPcs
    PROVE  Proceeds(p, pc) /\ db' = e
<1> DEFINE r == To(call[p], pc)
<1>0. call[p] \in Call /\ db.grants \in Seq(Grant) /\ chals \in Seq(Challenge)
  BY InvFacts, TablesFields
<1>1. r \in Call /\ r.op = call[p].op /\ r.ref = call[p].ref /\ r.tok = call[p].tok /\ r.tgt = call[p].tgt /\ r.pc = pc
  BY <1>0, ToFields
<1>2. Fits(r) /\ Names(r, db.grants, chals) /\ Step(p, r, e)
  OBVIOUS
<1> HIDE DEF r
<1>3. Names(r, e.grants, chals)
  BY <1>0, <1>1, <1>2, NamesGrow, ChalsSame
<1>4. Authority(r) => Authority(call[p])
  BY <1>1 DEF Authority, DoorPcs
<1> QED BY <1>1, <1>2, <1>3, <1>4, LaterSame DEF Proceeds, Onward, Turned, Step, Same

LEMMA OpenedByIs ==
    ASSUME NEW c
    PROVE  /\ c.op \in {"login_finish", "pk_finish"} => OpenedBy(c) = {"webauthn"}
           /\ c.op = "reg_finish" => OpenedBy(c) = {"webauthn", "claim"}
BY DEF OpenedBy

LEMMA SetHandleStepDoes ==
    ASSUME RequestInv, NEW p \in Procs, SetHandle(p)
    PROVE  \/ Calm(p)
           \/ /\ Proceeds(p, "create_cred") /\ call[p].tgt \in Rows(db) /\ call[p].pc = "set_handle"
              /\ \E h \in Nat : Rewrites(db, db', call[p].tgt, [db.users[call[p].tgt] EXCEPT !.handle = h])
<1>0. call[p] \in Call /\ db \in Tables /\ call[p].pc = "set_handle" /\ Fits(call[p]) /\ Names(call[p], db.grants, chals)
      /\ chals \in Seq(Challenge)
  BY InvFacts DEF SetHandle, At
<1>1. CASE Reply(p)
  BY <1>0, <1>1, EndCalm DEF DuePcs
<1>2. CASE /\ CanSetHandle(db, call[p].tgt, chals[call[p].ref].handle)
           /\ Step(p, To(call[p], "create_cred"), SetWebAuthnHandle(db, call[p].tgt, chals[call[p].ref].handle))
  <2> DEFINE h == chals[call[p].ref].handle
             e == SetWebAuthnHandle(db, call[p].tgt, h)
  <2>1. call[p].tgt \in Rows(db) /\ call[p].tgt \in Accounts
    BY <1>2, RowOf DEF CanSetHandle
  <2>2. h \in Nat
    <3>1. call[p].ref \in 1..Len(chals)
      BY <1>0 DEF Fits, Names
    <3>2. chals[call[p].ref] \in Challenge
      BY <1>0, <3>1
    <3> QED BY <3>2 DEF Challenge
  <2>3. Rewrites(db, e, call[p].tgt, [db.users[call[p].tgt] EXCEPT !.handle = h])
    BY <1>0, <2>1, <2>2, SetHandleDoes
  <2>4. Step(p, To(call[p], "create_cred"), e)
    BY <1>2
  <2> HIDE DEF h, e
  <2>5. GrownGrants(db.grants, e.grants)
    BY <1>0, <2>3, ApartGrown DEF Rewrites
  <2>6. "create_cred" \in Pcs
    BY DEF Pcs
  <2>7. Fits(To(call[p], "create_cred"))
    BY <1>0, <2>6, ToFields DEF Fits
  <2>8. Names(To(call[p], "create_cred"), db.grants, chals)
    <3>1. OpenedBy(To(call[p], "create_cred")) = OpenedBy(call[p])
      BY <1>0, <2>6, ToFields DEF OpenedBy
    <3> QED BY <1>0, <2>6, <3>1, ToFields DEF Names
  <2>9. Proceeds(p, "create_cred") /\ db' = e
    BY <1>0, <2>4, <2>5, <2>6, <2>7, <2>8, ProceedsTo DEF DoorPcs
  <2> QED BY <1>0, <2>1, <2>2, <2>3, <2>9
<1> QED BY <1>1, <1>2 DEF SetHandle, Try

LEMMA PersistDoes ==
    ASSUME RequestInv, NEW p \in Procs, PersistCredential(p)
    PROVE  \/ Calm(p)
           \/ /\ Goes(p, "idle", call[p].tgt) \/ Goes(p, "new_session", call[p].tgt)
              /\ call[p].tgt \in Rows(db) /\ call[p].pc = "create_cred"
              /\ \E h \in Nat, g \in Nat : /\ g = IF call[p].op = "reg_finish" /\ chals[call[p].ref].aad = "webauthn" THEN call[p].tok ELSE 0
                                           /\ NewCredential(call[p].tgt, h, g) \in Credential
                                           /\ Keys(db, db', Append(db.creds, NewCredential(call[p].tgt, h, g)))
<1>0. call[p] \in Call /\ db \in Tables /\ call[p].pc = "create_cred" /\ Fits(call[p]) /\ Names(call[p], db.grants, chals)
      /\ chals \in Seq(Challenge)
  BY InvFacts DEF PersistCredential, At
<1>1. CASE Reply(p)
  BY <1>0, <1>1, EndCalm DEF DuePcs
<1>2. CASE ~Reply(p)
  <2> DEFINE h == chals[call[p].ref].handle
             g == IF call[p].op = "reg_finish" /\ chals[call[p].ref].aad = "webauthn" THEN call[p].tok ELSE 0
             e == CreateCredential(db, call[p].tgt, h, g)
  <2>1. /\ call[p].tgt \in Rows(db)
        /\ Step(p, NoCall, e) \/ Step(p, To(call[p], "new_session"), e)
    BY <1>2 DEF PersistCredential, Try
  <2>2. h \in Nat /\ g \in Nat
    <3>1. call[p].ref \in 1..Len(chals)
      BY <1>0 DEF Fits, Names
    <3>2. chals[call[p].ref] \in Challenge
      BY <1>0, <3>1
    <3> QED BY <1>0, <3>2 DEF Challenge, Call
  <2>3. /\ NewCredential(call[p].tgt, h, g) \in Credential
        /\ Keys(db, e, Append(db.creds, NewCredential(call[p].tgt, h, g)))
    <3>1. call[p].tgt \in Accounts
      BY <2>1, RowOf
    <3> QED BY <1>0, <2>2, <3>1, CreateCredentialDoes
  <2>4. g = IF call[p].op = "reg_finish" /\ chals[call[p].ref].aad = "webauthn" THEN call[p].tok ELSE 0
    OBVIOUS
  <2> HIDE DEF h, g, e
  <2>5. GrownGrants(db.grants, e.grants)
    BY <1>0, <2>3, TablesFields, GrownSame DEF Keys
  <2>6. call[p].pc \notin DoorPcs /\ "new_session" \in PlainPcs
    BY <1>0 DEF DoorPcs, PlainPcs
  <2>7. (Goes(p, "idle", call[p].tgt) \/ Goes(p, "new_session", call[p].tgt)) /\ db' = e
    BY <2>1, <2>5, <2>6, GoesTo, GoesNowhere DEF Step
  <2>8. Keys(db, db', Append(db.creds, NewCredential(call[p].tgt, h, g)))
    BY <2>3, <2>7
  <2> QED BY <1>0, <2>1, <2>2, <2>3, <2>4, <2>7, <2>8
<1> QED BY <1>1, <1>2

LEMMA CredsDeletedDo ==
    ASSUME RequestInv, NEW p \in Procs, Remove(p) \/ RevokeAll(p)
    PROVE  /\ Goes(p, "idle", call[p].tgt) \/ Goes(p, "lock", call[p].tgt)
           /\ call[p].pc \in {"remove", "revoke_all"}
           /\ \E gone : Keys(db, db', Without(db.creds, gone))
<1>0. db \in Tables
  BY InvFacts
<1>1. CASE Remove(p)
  <2>1. Goes(p, "idle", call[p].tgt) /\ db' = DeleteCredential(db, call[p].ref) /\ call[p].pc = "remove"
    BY <1>1, GoesNowhere DEF Remove, Step, At
  <2> QED BY <1>0, <2>1, DeleteCredentialsDoes
<1>2. CASE RevokeAll(p)
  <2> DEFINE e == DeleteAllByUser(db, call[p].tgt)
  <2>1. Keys(db, e, Without(db.creds, Of(db.creds, call[p].tgt)))
    BY <1>0, DeleteCredentialsDoes
  <2>2. Step(p, To(call[p], "lock"), e) /\ call[p].pc = "revoke_all"
    BY <1>2 DEF RevokeAll, At
  <2> HIDE DEF e
  <2>3. GrownGrants(db.grants, e.grants)
    BY <1>0, <2>1, TablesFields, GrownSame DEF Keys
  <2>4. call[p].pc \notin DoorPcs /\ "lock" \in PlainPcs
    BY <2>2 DEF DoorPcs, PlainPcs
  <2>5. Goes(p, "lock", call[p].tgt) /\ db' = e
    BY <2>2, <2>3, <2>4, GoesTo DEF Step
  <2> QED BY <2>1, <2>2, <2>5
<1> QED BY <1>1, <1>2
\* Only the challenges, or the request, change.
LEMMA TurnCalm ==
    ASSUME RequestInv, NEW p \in Procs, NEW c, call' = [call EXCEPT ![p] = c], db' = db, Later,
           Fits(c), Names(c, db.grants, chals'), Settled(c), Authority(c) => Authority(call[p]),
           UNCHANGED <<mu, scene>>, Charged, call[p].pc \notin DuePcs
    PROVE  Calm(p)
BY InvFacts, AsideSame DEF Calm

LEMMA ChalAppended ==
    ASSUME NEW ch \in Seq(Challenge), NEW c \in Challenge
    PROVE  Append(ch, c) \in Seq(Challenge) /\ GrownChals(ch, Append(ch, c))
BY DEF GrownChals

LEMMA GiveCalm ==
    ASSUME RequestInv, NEW p \in Procs, NEW aad \in {"webauthn", "claim", "oidc"},
           NEW u \in Accounts \cup {Nobody}, NEW h \in Nat, NEW a \in Addresses \cup {NoAddr}, Give(p, aad, u, h, a),
           call[p].pc \notin DuePcs
    PROVE  Calm(p)
<1> DEFINE c == [aad |-> aad, user |-> u, handle |-> h, addr |-> a, used |-> FALSE]
<1>1. c \in Challenge
  BY DEF Challenge
<1>2. chals' = Append(chals, c) /\ call' = [call EXCEPT ![p] = NoCall] /\ UNCHANGED <<db, mu, spent, scene>>
  BY DEF Give
<1> HIDE DEF c
<1>3. Later
  BY <1>1, <1>2, InvFacts, ChalAppended DEF Later
<1>4. Charged
  BY <1>2, ChargedSame
<1>5. Fits(NoCall) /\ Names(NoCall, db.grants, chals') /\ ~Authority(NoCall)
  BY NoCallFits
<1>6. Settled(NoCall)
  BY DEF NoCall, Settled, QuietPcs, PlainPcs
<1> HIDE DEF NoCall
<1> QED BY <1>2, <1>3, <1>4, <1>5, <1>6, TurnCalm

LEMMA GivesCalm ==
    ASSUME RequestInv, NEW p \in Procs, OIDCStart(p) \/ ApiLoginBegin(p) \/ BeginRegister(p) \/ BootToken(p)
    PROVE  Calm(p)
<1>0. call[p] \in Call /\ db \in Tables /\ chals \in Seq(Challenge)
  BY InvFacts
<1>1. call[p].pc \notin DuePcs
  BY DEF OIDCStart, ApiLoginBegin, BeginRegister, BootToken, Handles, At, DuePcs
<1>2. NoAddr \in Addresses \cup {NoAddr} /\ Nobody \in Accounts \cup {Nobody} /\ NewHandle \in Nat
  BY <1>0 DEF NewHandle
<1>3. CASE OIDCStart(p) \/ ApiLoginBegin(p)
  BY <1>1, <1>2, <1>3, GiveCalm DEF OIDCStart, ApiLoginBegin
<1>4. CASE BeginRegister(p)
  <2>1. CASE Reply(p)
    BY <1>1, <2>1, EndCalm
  <2>2. CASE ~Reply(p)
    <3>1. call[p].tgt \in Rows(db)
      BY <1>4, <2>2 DEF BeginRegister
    <3>2. call[p].tgt \in Accounts /\ db.users[call[p].tgt].handle \in Nat
      BY <3>1, RowOf DEF User
    <3>3. \E h \in {NewHandle, db.users[call[p].tgt].handle} : Give(p, "webauthn", call[p].tgt, h, NoAddr)
      BY <1>4, <2>2, <3>1 DEF BeginRegister
    <3> HIDE DEF NewHandle, NoAddr
    <3> QED BY <1>1, <1>2, <3>2, <3>3, GiveCalm
  <2> QED BY <2>1, <2>2
<1>5. CASE BootToken(p)
  <2>1. CASE Reply(p)
    BY <1>1, <2>1, EndCalm
  <2>2. CASE Give(p, "claim", Nobody, NewHandle, call[p].addr)
    <3>1. call[p].addr \in Addresses \cup {NoAddr}
      BY <1>0 DEF Call
    <3> QED BY <1>1, <1>2, <2>2, <3>1, GiveCalm
  <2> QED BY <1>5, <2>1, <2>2 DEF BootToken
<1> QED BY <1>3, <1>4, <1>5

LEMMA ClaimChallengeCalm ==
    ASSUME RequestInv, NEW p \in Procs, ClaimChallenge(p)
    PROVE  Calm(p)
<1>0. call[p] \in Call /\ db \in Tables /\ call[p].pc = "claim" /\ Fits(call[p]) /\ Names(call[p], db.grants, chals)
      /\ chals \in Seq(Challenge) /\ call \in [Procs -> Call]
  BY InvFacts DEF ClaimChallenge, At
<1>1. CASE Reply(p)
  BY <1>0, <1>1, EndCalm DEF DuePcs
<1>2. CASE ~Reply(p)
  <2>1. PICK pc \in {"signer", "verify"} :
          /\ pc = IF call[p].op = "login_finish" THEN "signer" ELSE "verify"
          /\ chals[call[p].ref].aad \in OpenedBy(call[p])
          /\ chals' = [chals EXCEPT ![call[p].ref].used = TRUE]
          /\ call' = [call EXCEPT ![p].pc = pc]
          /\ UNCHANGED <<db, mu, spent, scene>>
    BY <1>2 DEF ClaimChallenge
  <2> DEFINE k == call[p].ref
             n == [chals[k] EXCEPT !.used = TRUE]
             r == To(call[p], pc)
  <2>2. k \in 1..Len(chals)
    BY <1>0 DEF Fits, Names
  <2>3. chals[k] \in Challenge
    BY <1>0, <2>2
  <2>4. n \in Challenge /\ n.aad = chals[k].aad
    BY <2>3 DEF Challenge
  <2>5. chals' = [chals EXCEPT ![k] = n]
    BY <2>1
  <2>6. call' = [call EXCEPT ![p] = r]
    BY <2>1 DEF To
  <2>7. chals[k].aad \in OpenedBy(call[p])
    BY <2>1
  <2> HIDE DEF k, n
  <2>8. chals' \in Seq(Challenge) /\ Len(chals') = Len(chals) /\ \A i \in 1..Len(chals) : chals'[i].aad = chals[i].aad
    BY <1>0, <2>2, <2>4, <2>5
  <2>9. GrownChals(chals, chals')
    BY <1>0, <2>8 DEF GrownChals
  <2>10. Later /\ Charged
    BY <2>1, <2>8, <2>9, ChargedSame DEF Later
  <2>11. pc \in Pcs /\ pc \in QuietPcs
    BY DEF Pcs, QuietPcs, PlainPcs
  <2>12. r \in Call /\ r.op = call[p].op /\ r.ref = call[p].ref /\ r.tok = call[p].tok /\ r.role = call[p].role
         /\ r.pc = pc /\ r.tgt = call[p].tgt
    BY <1>0, <2>11, ToFields
  <2> HIDE DEF r
  <2>13. Fits(r)
    BY <1>0, <2>1, <2>12 DEF Fits
  <2>14. Names(r, db.grants, chals)
    <3>1. OpenedBy(r) = OpenedBy(call[p])
      BY <2>12 DEF OpenedBy
    <3> QED BY <1>0, <2>7, <2>12, <3>1 DEF Names, k
  <2>15. Names(r, db.grants, chals')
    BY <1>0, <2>9, <2>12, <2>13, <2>14, NamesGrow, GrownSame, TablesFields
  <2>16. Authority(r) => Authority(call[p])
    BY <1>0, <2>12 DEF Authority
  <2> QED BY <1>0, <2>1, <2>6, <2>10, <2>11, <2>12, <2>13, <2>15, <2>16, TurnCalm, QuietSettled DEF DuePcs
<1> QED BY <1>1, <1>2

LEMMA VerifyCalm ==
    ASSUME RequestInv, NEW p \in Procs, Verify(p)
    PROVE  Calm(p)
<1>0. call[p] \in Call /\ db \in Tables /\ call[p].pc = "verify" /\ Fits(call[p]) /\ Names(call[p], db.grants, chals)
  BY InvFacts DEF Verify, At
<1>1. CASE Reply(p)
  BY <1>0, <1>1, EndCalm DEF DuePcs
<1>2. CASE ~Reply(p)
  <2>1. PICK pc \in {"consume_boot", "set_handle", "consume"} :
          /\ Step(p, To(call[p], pc), db)
          /\ pc = IF chals[call[p].ref].aad = "claim" THEN "consume_boot"
                  ELSE IF call[p].op = "pk_finish" THEN "set_handle" ELSE "consume"
    BY <1>2 DEF Verify, Try
  <2> DEFINE r == To(call[p], pc)
  <2>2. pc \in Pcs
    BY DEF Pcs
  <2>3. r \in Call /\ r.op = call[p].op /\ r.ref = call[p].ref /\ r.tok = call[p].tok /\ r.role = call[p].role
         /\ r.pc = pc /\ r.tgt = call[p].tgt
    BY <1>0, <2>2, ToFields
  <2>4. Step(p, r, db)
    BY <2>1
  <2> HIDE DEF r
  <2>5. /\ call[p].op \in {"pk_finish", "reg_finish"} /\ chals[call[p].ref].aad \in OpenedBy(call[p])
    BY <1>0 DEF Fits, Names
  <2>6. \/ call[p].op = "pk_finish" /\ pc = "set_handle"
        \/ call[p].op = "reg_finish" /\ chals[call[p].ref].aad = "claim" /\ pc = "consume_boot"
        \/ call[p].op = "reg_finish" /\ chals[call[p].ref].aad = "webauthn" /\ pc = "consume"
    BY <2>1, <2>5, OpenedByIs
  <2>7. Fits(r)
    BY <1>0, <2>3, <2>6 DEF Fits
  <2>8. Names(r, db.grants, chals)
    <3>1. OpenedBy(r) = OpenedBy(call[p])
      BY <2>3 DEF OpenedBy
    <3> QED BY <1>0, <2>3, <2>5, <2>6, <3>1 DEF Names
  <2>9. Settled(r)
    BY <2>3, <2>6 DEF Settled, QuietPcs
  <2> QED BY <1>0, <2>3, <2>4, <2>7, <2>8, <2>9, BoundCalm, AsideSame DEF DuePcs, DoorPcs
<1> QED BY <1>1, <1>2

LEMMA FinishersCalm ==
    ASSUME RequestInv, NEW p \in Procs, ApiLoginFinish(p) \/ ApiPasskeyFinish(p) \/ NoAdminYet(p) \/ ValidGrant(p)
    PROVE  Calm(p)
<1>0. call[p] \in Call /\ db \in Tables /\ Fits(call[p]) /\ Names(call[p], db.grants, chals)
  BY InvFacts
<1>a. "claim" \in Pcs /\ "claim" \in QuietPcs /\ "boot_token" \in Pcs /\ "boot_token" \in QuietPcs /\ "boot_token" \in FreePcs
      /\ "begin" \in Pcs /\ "begin" \in PlainPcs
  BY DEF Pcs, QuietPcs, FreePcs, PlainPcs
<1>b. call[p].pc \notin DuePcs /\ call[p].pc \notin DoorPcs
  BY DEF ApiLoginFinish, ApiPasskeyFinish, NoAdminYet, ValidGrant, Handles, At, DuePcs, DoorPcs
<1>1. CASE ApiLoginFinish(p)
  <2>1. call[p].op = "login_finish" /\ Goto(p, "claim")
    BY <1>1 DEF ApiLoginFinish, Handles
  <2>2. Fits(To(call[p], "claim"))
    BY <1>0, <1>a, <2>1, ToFields DEF Fits
  <2>3. Names(To(call[p], "claim"), db.grants, chals)
    BY <1>0, <1>a, <2>1, ToFields DEF Names
  <2> QED BY <1>a, <1>b, <2>1, <2>2, <2>3, BoundStep
<1>2. CASE ApiPasskeyFinish(p)
  <2> DEFINE r == [call[p] EXCEPT !.pc = "claim", !.tgt = call[p].me]
  <2>1. call[p].op = "pk_finish" /\ Step(p, r, db)
    BY <1>2 DEF ApiPasskeyFinish, Handles
  <2>2. r \in Call /\ r.op = call[p].op /\ r.ref = call[p].ref /\ r.tok = call[p].tok /\ r.role = call[p].role /\ r.pc = "claim"
    BY <1>0, <1>a DEF Call
  <2> HIDE DEF r
  <2>3. Fits(r)
    BY <1>0, <2>1, <2>2 DEF Fits
  <2>4. Names(r, db.grants, chals)
    BY <1>0, <2>1, <2>2 DEF Names
  <2> QED BY <1>0, <1>a, <1>b, <2>1, <2>2, <2>3, <2>4, BoundCalm, AsideSame, QuietSettled
<1>3. CASE NoAdminYet(p)
  <2>0. call[p].pc = "no_admin" /\ call[p].op \in {"reg_begin", "reg_finish"}
    BY <1>0, <1>3 DEF NoAdminYet, At, Fits
  <2>1. CASE Reply(p)
    BY <1>b, <2>1, EndCalm
  <2>2. CASE Goto(p, "boot_token") /\ call[p].op = "reg_begin"
    <3>2. Fits(To(call[p], "boot_token"))
      BY <1>0, <1>a, <2>2, ToFields DEF Fits
    <3> QED BY <1>a, <1>b, <2>2, <3>2, BoundGoto
  <2>3. CASE Goto(p, "claim") /\ call[p].op = "reg_finish"
    <3>2. Fits(To(call[p], "claim"))
      BY <1>0, <1>a, <2>3, ToFields DEF Fits
    <3>3. Names(To(call[p], "claim"), db.grants, chals)
      BY <1>0, <1>a, <2>0, <2>3, ToFields DEF Names
    <3> QED BY <1>a, <1>b, <2>3, <3>2, <3>3, BoundStep
  <2> QED BY <1>3, <2>0, <2>1, <2>2, <2>3 DEF NoAdminYet, Try, Goto
<1>4. CASE ValidGrant(p)
  <2>0. call[p].pc = "valid" /\ call[p].op \in {"reg_begin", "reg_finish"}
    BY <1>0, <1>4 DEF ValidGrant, At, Fits
  <2>1. CASE Reply(p)
    BY <1>b, <2>1, EndCalm
  <2>2. CASE ~Reply(p)
    <3> DEFINE u == db.grants[call[p].tok].user
    <3>1. PICK pc \in {"begin", "claim"} :
            /\ call[p].tok > 0 /\ pc = IF call[p].op = "reg_begin" THEN "begin" ELSE "claim"
            /\ Step(p, [call[p] EXCEPT !.pc = pc, !.tgt = u], db)
      BY <1>4, <2>2 DEF ValidGrant, Try
    <3>2. call[p].tok \in 1..Len(db.grants)
      BY <1>0, <2>0, <3>1 DEF Names
    <3>3. u \in Accounts
      <4>1. db.grants[call[p].tok] \in Grant
        BY <1>0, <3>2, TablesFields
      <4> QED BY <4>1 DEF Grant
    <3> DEFINE r == [call[p] EXCEPT !.pc = pc, !.tgt = u]
    <3>4. Step(p, r, db) /\ u = db.grants[call[p].tok].user
      BY <3>1
    <3>5. pc \in Pcs
      BY <1>a
    <3> HIDE DEF u
    <3>6. r \in Call /\ r.op = call[p].op /\ r.ref = call[p].ref /\ r.tok = call[p].tok /\ r.role = call[p].role /\ r.pc = pc
          /\ r.tgt = u
      BY <1>0, <3>3, <3>5 DEF Call
    <3> HIDE DEF r
    <3>7. CASE pc = "begin"
      BY <1>0, <1>a, <1>b, <3>4, <3>6, <3>7, StepCalm, AsideSame
    <3>8. CASE pc = "claim"
      <4>1. call[p].op = "reg_finish"
        BY <2>0, <3>1, <3>8
      <4>2. Fits(r)
        BY <1>0, <3>6, <3>8, <4>1 DEF Fits
      <4>3. Names(r, db.grants, chals)
        BY <1>0, <3>2, <3>4, <3>6, <3>8, <4>1 DEF Names
      <4> QED BY <1>0, <1>a, <1>b, <3>4, <3>6, <3>8, <4>2, <4>3, BoundCalm, AsideSame, QuietSettled
    <3> QED BY <3>7, <3>8
  <2> QED BY <2>1, <2>2
<1> QED BY <1>1, <1>2, <1>3, <1>4

LEMMA UnsentCalm ==
    ASSUME RequestInv, NEW p \in Procs, RequestUnsent(p)
    PROVE  Calm(p)
<1>0. call[p] \in Call /\ db \in Tables /\ Fits(call[p]) /\ Names(call[p], db.grants, chals) /\ call[p].pc = "mail_confirm"
  BY InvFacts DEF RequestUnsent, At
<1> DEFINE r == To(call[p], "withdraw")
<1>1. call' = [call EXCEPT ![p] = r] /\ UNCHANGED <<db, chals, mu, scene>>
      /\ spent' = [spent EXCEPT !.faults = @ + 1] /\ spent.faults < S.faults
  BY DEF RequestUnsent
<1>2. "withdraw" \in Pcs /\ "withdraw" \in PlainPcs /\ "withdraw" \in QuietPcs
  BY DEF Pcs, PlainPcs, QuietPcs
<1>3. r \in Call /\ r.op = call[p].op /\ r.ref = call[p].ref /\ r.tok = call[p].tok /\ r.role = call[p].role /\ r.pc = "withdraw"
  BY <1>0, <1>2, ToFields
<1> HIDE DEF r
<1>4. Fits(r) /\ Names(r, db.grants, chals)
  BY <1>0, <1>2, <1>3, PlainFits
<1>5. Authority(r) => Authority(call[p])
  BY <1>0, <1>3 DEF Authority
<1>6. Charged
  BY <1>1, SpentFault
<1> QED BY <1>0, <1>1, <1>2, <1>3, <1>4, <1>5, <1>6, TurnCalm, LaterSame, QuietSettled DEF DuePcs
LEMMA IssueDoes ==
    ASSUME RequestInv, NEW p \in Procs, IssueInvite(p) \/ RecoverMint(p)
    PROVE  \/ Calm(p)
           \/ /\ Later /\ \E c : Onward(p, c) /\ c.pc = "deliver" /\ c.tok = Len(db.grants) + 1
              /\ call[p].tgt \in Rows(db) /\ call[p].pc \notin DuePcs
              /\ \E why \in {"invite", "recovery"} :
                    /\ NewGrant(call[p].tgt, why, FALSE) \in Grant
                    /\ Links(db, db', Append(db.grants, NewGrant(call[p].tgt, why, FALSE)))
<1>0. call[p] \in Call /\ db \in Tables /\ Fits(call[p]) /\ Names(call[p], db.grants, chals) /\ chals \in Seq(Challenge)
  BY InvFacts
<1>b. call[p].pc \notin DuePcs /\ call[p].pc \notin DoorPcs
  BY DEF IssueInvite, RecoverMint, At, DuePcs, DoorPcs
<1>1. CASE Reply(p)
  BY <1>b, <1>1, EndCalm
<1>2. CASE ~Reply(p)
  <2> DEFINE n == Len(db.grants) + 1
             r == [call[p] EXCEPT !.pc = "deliver", !.tok = n]
  <2>1. PICK why \in {"invite", "recovery"} :
          call[p].tgt \in Rows(db) /\ Step(p, r, CreateGrant(db, call[p].tgt, why, FALSE))
    BY <1>2 DEF IssueInvite, RecoverMint, Issue, Try
  <2> DEFINE e == CreateGrant(db, call[p].tgt, why, FALSE)
             g == NewGrant(call[p].tgt, why, FALSE)
  <2>2. call[p].tgt \in Accounts
    BY <2>1, RowOf
  <2>3. g \in Grant /\ Links(db, e, Append(db.grants, g))
    BY <1>0, <2>2, CreateGrantDoes
  <2>4. n \in Nat /\ n = Len(db.grants) + 1 /\ Len(db.grants) \in Nat /\ db.grants \in Seq(Grant)
    BY <1>0, TablesFields
  <2>5. "deliver" \in Pcs
    BY DEF Pcs
  <2>6. Step(p, r, e)
    BY <2>1
  <2> HIDE DEF n, e, g
  <2>7. r \in Call /\ r.op = call[p].op /\ r.ref = call[p].ref /\ r.tok = n /\ r.role = call[p].role /\ r.pc = "deliver"
    BY <1>0, <2>4, <2>5 DEF Call
  <2> HIDE DEF r
  <2>8. db' = e /\ Len(e.grants) = n
    BY <2>3, <2>4, <2>6 DEF Step, Links
  <2>9. Fits(r)
    BY <1>0, <2>7 DEF Fits
  <2>10. Names(r, e.grants, chals)
    BY <1>0, <2>4, <2>7, <2>8 DEF Names
  <2>11. Authority(r) => Authority(call[p])
    BY <1>b, <2>7 DEF Authority, DoorPcs
  <2>12. Later /\ Onward(p, r)
    BY <2>6, <2>8, <2>9, <2>10, <2>11, LaterSame DEF Onward, Turned, Step
  <2> QED BY <1>b, <2>1, <2>3, <2>4, <2>7, <2>8, <2>12 DEF g
<1> QED BY <1>1, <1>2

LEMMA ReplaceLockDoes ==
    ASSUME RequestInv, NEW p \in Procs, ReplaceLock(p)
    PROVE  /\ \E c : Turned(p, c) /\ c.pc = "replace" /\ c.tgt = call[p].tgt
           /\ mu = Nobody /\ mu' = p /\ call[p].pc = "lock" /\ Later /\ UNCHANGED <<db, spent, scene>>
<1>0. call[p] \in Call /\ db \in Tables /\ Fits(call[p]) /\ Names(call[p], db.grants, chals) /\ call[p].pc = "lock"
  BY InvFacts DEF ReplaceLock, At
<1> DEFINE r == To(call[p], "replace")
<1>1. call' = [call EXCEPT ![p] = r] /\ mu = Nobody /\ mu' = p /\ UNCHANGED <<db, chals, spent, scene>>
  BY DEF ReplaceLock, MayLock, To
<1>2. "replace" \in Pcs
  BY DEF Pcs
<1>3. r \in Call /\ r.op = call[p].op /\ r.ref = call[p].ref /\ r.tok = call[p].tok /\ r.role = call[p].role /\ r.pc = "replace"
      /\ r.tgt = call[p].tgt
  BY <1>0, <1>2, ToFields
<1> HIDE DEF r
<1>4. Fits(r)
  BY <1>0, <1>3 DEF Fits
<1>5. Names(r, db.grants, chals)
  BY <1>0, <1>3 DEF Names
<1>6. Authority(r) => Authority(call[p])
  BY <1>0, <1>3 DEF Authority
<1> QED BY <1>0, <1>1, <1>3, <1>4, <1>5, <1>6, LaterSame DEF Turned

LEMMA WithoutGrown ==
    ASSUME NEW gs \in Seq(Grant), NEW gone PROVE GrownGrants(gs, Without(gs, gone))
BY WithoutGrants DEF GrownGrants

LEMMA ReplaceDeleteDoes ==
    ASSUME RequestInv, NEW p \in Procs, ReplaceDelete(p)
    PROVE  Proceeds(p, "mint") /\ db' = DeleteUnusedByUser(db, call[p].tgt) /\ call[p].pc = "replace"
<1>0. call[p] \in Call /\ db \in Tables /\ Fits(call[p]) /\ Names(call[p], db.grants, chals) /\ call[p].pc = "replace"
  BY InvFacts DEF ReplaceDelete, At
<1> DEFINE e == DeleteUnusedByUser(db, call[p].tgt)
<1>1. Step(p, To(call[p], "mint"), e)
  BY DEF ReplaceDelete
<1>2. GrownGrants(db.grants, e.grants)
  BY <1>0, TablesFields, DeleteUnusedDoes, WithoutGrown DEF Links
<1> HIDE DEF e
<1>3. "mint" \in Pcs
  BY DEF Pcs
<1>4. Fits(To(call[p], "mint"))
  BY <1>0, <1>3, ToFields DEF Fits
<1>5. Names(To(call[p], "mint"), db.grants, chals)
  BY <1>0, <1>3, ToFields DEF Names
<1>6. Proceeds(p, "mint") /\ db' = e
  BY <1>0, <1>1, <1>2, <1>3, <1>4, <1>5, ProceedsTo DEF DoorPcs
<1> QED BY <1>0, <1>6 DEF e

LEMMA AppendGrown ==
    ASSUME NEW gs \in Seq(Grant), NEW g \in Grant
    PROVE  /\ GrownGrants(gs, Append(gs, g)) /\ Append(gs, g) \in Seq(Grant) /\ Len(Append(gs, g)) = Len(gs) + 1
           /\ Append(gs, g)[Len(gs) + 1] = g /\ \A i \in 1..Len(gs) : Append(gs, g)[i] = gs[i]
BY DEF GrownGrants

LEMMA ReplaceMintDoes ==
    ASSUME RequestInv, NEW p \in Procs, ReplaceMint(p)
    PROVE  /\ call[p].pc = "mint" /\ mu = p /\ mu' = Nobody /\ Later /\ UNCHANGED <<spent, scene>>
           /\ \/ \E c : Turned(p, c) /\ c.pc = "idle" /\ db' = db
              \/ /\ \E c : Turned(p, c) /\ c.pc = "recipient" /\ c.tgt = call[p].tgt /\ c.tok = Len(db.grants) + 1
                 /\ call[p].tgt \in Rows(db)
                 /\ \E why \in {"invite", "recovery"} :
                      /\ NewGrant(call[p].tgt, why, TRUE) \in Grant
                      /\ Links(db, db', Append(db.grants, NewGrant(call[p].tgt, why, TRUE)))
<1>0. call[p] \in Call /\ db \in Tables /\ Fits(call[p]) /\ Names(call[p], db.grants, chals) /\ call[p].pc = "mint"
  BY InvFacts DEF ReplaceMint, At
<1>1. mu = p /\ mu' = Nobody /\ Later /\ UNCHANGED <<chals, spent, scene>>
  <2>1. mu = p
    BY <1>0 DEF RequestInv, Mutex
  <2>2. mu' = Nobody /\ UNCHANGED <<chals, spent, scene>>
    BY <2>1 DEF ReplaceMint, Unlocked
  <2> QED BY <2>1, <2>2, LaterSame
<1>2. CASE call' = [call EXCEPT ![p] = NoCall] /\ UNCHANGED db
  <2>1. NoCall.pc = "idle" /\ Fits(NoCall) /\ Names(NoCall, db'.grants, chals') /\ ~Authority(NoCall)
    BY NoCallFits DEF NoCall
  <2> HIDE DEF NoCall
  <2> QED BY <1>0, <1>1, <1>2, <2>1 DEF Turned
<1>3. CASE ~(call' = [call EXCEPT ![p] = NoCall] /\ UNCHANGED db)
  <2> DEFINE n == Len(db.grants) + 1
             r == [call[p] EXCEPT !.pc = "recipient", !.tok = n]
  <2>1. PICK why \in {"invite", "recovery"} :
          /\ call[p].tgt \in Rows(db) /\ db' = CreateGrant(db, call[p].tgt, why, TRUE)
          /\ call' = [call EXCEPT ![p].pc = "recipient", ![p].tok = Len(db.grants) + 1]
    BY <1>3 DEF ReplaceMint
  <2> DEFINE g == NewGrant(call[p].tgt, why, TRUE)
  <2>2. call' = [call EXCEPT ![p] = r]
    <3>1. call \in [Procs -> Call]
      BY InvFacts
    <3> QED BY <2>1, <3>1
  <2>3. call[p].tgt \in Accounts
    BY <2>1, RowOf
  <2>4. g \in Grant /\ Links(db, db', Append(db.grants, g)) /\ g.user = call[p].tgt
    BY <1>0, <2>1, <2>3, CreateGrantDoes DEF NewGrant
  <2>5. n \in Nat /\ n = Len(db.grants) + 1 /\ Len(db.grants) \in Nat /\ db.grants \in Seq(Grant)
    BY <1>0, TablesFields
  <2>6. "recipient" \in Pcs
    BY DEF Pcs
  <2> HIDE DEF n, g
  <2>7. r \in Call /\ r.op = call[p].op /\ r.ref = call[p].ref /\ r.tok = n /\ r.role = call[p].role /\ r.pc = "recipient"
        /\ r.tgt = call[p].tgt
    BY <1>0, <2>5, <2>6 DEF Call
  <2> HIDE DEF r
  <2>8. Len(db'.grants) = n /\ db'.grants[n].user = call[p].tgt
    BY <2>4, <2>5, AppendGrown DEF Links
  <2>9. Fits(r)
    BY <1>0, <2>7 DEF Fits
  <2>10. Names(r, db'.grants, chals')
    <3>1. n \in 0..Len(db'.grants) /\ n \in 1..Len(db'.grants)
      BY <2>5, <2>8
    <3> QED BY <1>0, <1>1, <2>7, <2>8, <3>1 DEF Names
  <2>11. Authority(r) => Authority(call[p])
    BY <1>0, <2>7 DEF Authority
  <2>12. Turned(p, r)
    BY <2>2, <2>9, <2>10, <2>11 DEF Turned
  <2> QED BY <1>0, <1>1, <2>1, <2>4, <2>5, <2>7, <2>12 DEF g
<1> QED BY <1>2, <1>3

LEMMA RecipientDoes ==
    ASSUME RequestInv, NEW p \in Procs, RecipientAfterMint(p)
    PROVE  \/ Calm(p)
           \/ /\ \E c : Onward(p, c) /\ c.pc = "deliver" /\ c.tok = call[p].tok /\ c.row = db.users[call[p].tgt]
              /\ db' = db /\ Later /\ call[p].pc = "recipient"
              /\ call[p].tok \in 1..Len(db.grants) /\ db.grants[call[p].tok].user = call[p].tgt
<1>0. call[p] \in Call /\ db \in Tables /\ Fits(call[p]) /\ Names(call[p], db.grants, chals) /\ call[p].pc = "recipient"
  BY InvFacts DEF RecipientAfterMint, At
<1>1. CASE Reply(p)
  BY <1>0, <1>1, EndCalm DEF DuePcs
<1>2. CASE /\ call[p].tgt \in Rows(db)
           /\ Step(p, [call[p] EXCEPT !.pc = "deliver", !.row = db.users[call[p].tgt]], db)
  <2> DEFINE w == db.users[call[p].tgt]
             r == [call[p] EXCEPT !.pc = "deliver", !.row = w]
  <2>1. w \in User /\ Step(p, r, db)
    BY <1>2, RowOf
  <2>2. "deliver" \in Pcs
    BY DEF Pcs
  <2> HIDE DEF w
  <2>3. r \in Call /\ r.op = call[p].op /\ r.ref = call[p].ref /\ r.tok = call[p].tok /\ r.role = call[p].role /\ r.pc = "deliver"
        /\ r.row = w
    BY <1>0, <2>1, <2>2 DEF Call
  <2> HIDE DEF r
  <2>4. Fits(r)
    BY <1>0, <2>3 DEF Fits
  <2>5. Names(r, db.grants, chals)
    BY <1>0, <2>3 DEF Names
  <2>6. Authority(r) => Authority(call[p])
    BY <1>0, <2>3 DEF Authority
  <2>7. Onward(p, r) /\ db' = db /\ Later
    BY <2>1, <2>4, <2>5, <2>6, LaterSame DEF Onward, Turned, Step
  <2>8. call[p].tok \in 1..Len(db.grants) /\ db.grants[call[p].tok].user = call[p].tgt
    BY <1>0 DEF Names
  <2> QED BY <1>0, <2>3, <2>7, <2>8 DEF w
<1> QED BY <1>1, <1>2 DEF RecipientAfterMint, Recipient, Try

LEMMA DeliverStepDoes ==
    ASSUME RequestInv, NEW p \in Procs, Deliver(p)
    PROVE  /\ Goes(p, "idle", call[p].tgt) /\ call[p].pc = "deliver" /\ call[p].tok \in 1..Len(db.grants)
           /\ [db.grants[call[p].tok] EXCEPT !.to = call[p].row.email] \in Grant
           /\ Links(db, db', [db.grants EXCEPT ![call[p].tok] = [db.grants[call[p].tok] EXCEPT !.to = call[p].row.email]])
<1>0. call[p] \in Call /\ db \in Tables /\ Fits(call[p]) /\ Names(call[p], db.grants, chals) /\ call[p].pc = "deliver"
  BY InvFacts DEF Deliver, At
<1>1. call[p].tok \in 1..Len(db.grants)
  BY <1>0 DEF Names
<1>2. call[p].row.email \in Addresses \cup {NoAddr}
  <2>1. call[p].row \in User
    BY <1>0 DEF Call
  <2> QED BY <2>1 DEF User
<1>3. /\ [db.grants[call[p].tok] EXCEPT !.to = call[p].row.email] \in Grant
      /\ Links(db, [db EXCEPT !.grants[call[p].tok].to = call[p].row.email],
               [db.grants EXCEPT ![call[p].tok] = [db.grants[call[p].tok] EXCEPT !.to = call[p].row.email]])
  BY <1>0, <1>1, <1>2, DeliverDoes
<1>4. Goes(p, "idle", call[p].tgt) /\ db' = [db EXCEPT !.grants[call[p].tok].to = call[p].row.email]
  BY GoesNowhere DEF Deliver, Step
<1> QED BY <1>0, <1>1, <1>3, <1>4
\* A used link, and how many credentials there were.
UsedUp(g, n) == [g EXCEPT !.st = "used", !.upto = n]

LEMMA GrantEdited ==
    ASSUME NEW gs \in Seq(Grant), NEW i \in 1..Len(gs), NEW g \in Grant, g.user = gs[i].user
    PROVE  /\ [gs EXCEPT ![i] = g] \in Seq(Grant) /\ GrownGrants(gs, [gs EXCEPT ![i] = g])
           /\ Len([gs EXCEPT ![i] = g]) = Len(gs) /\ [gs EXCEPT ![i] = g][i] = g
           /\ \A j \in 1..Len(gs) : j # i => [gs EXCEPT ![i] = g][j] = gs[j]
BY DEF GrownGrants

LEMMA ConsumeGrantDoes ==
    ASSUME RequestInv, NEW p \in Procs, ConsumeGrant(p)
    PROVE  \/ Calm(p)
           \/ /\ \E pc \in {"revoke_old", "set_handle"} :
                    Proceeds(p, pc) /\ (pc = "set_handle" => db.grants[call[p].tok].reason # "recovery")
              /\ call[p].pc = "consume" /\ call[p].tok \in 1..Len(db.grants)
              /\ db.grants[call[p].tok].st = "unused"
              /\ UsedUp(db.grants[call[p].tok], Len(db.creds)) \in Grant
              /\ Links(db, db', [db.grants EXCEPT ![call[p].tok] = UsedUp(db.grants[call[p].tok], Len(db.creds))])
<1>0. call[p] \in Call /\ db \in Tables /\ Fits(call[p]) /\ Names(call[p], db.grants, chals) /\ call[p].pc = "consume"
  BY InvFacts DEF ConsumeGrant, At
<1>1. CASE Reply(p)
  BY <1>0, <1>1, EndCalm DEF DuePcs
<1>2. CASE ~Reply(p)
  <2> DEFINE e == Consume(db, call[p].tok)
             g == db.grants[call[p].tok]
  <2>1. PICK pc \in {"revoke_old", "set_handle"} :
          /\ g.st = "unused" /\ (pc = "set_handle" => g.reason # "recovery") /\ Step(p, To(call[p], pc), e)
    BY <1>2 DEF ConsumeGrant, Redeemable, RevokesOld, Try
  <2>2. call[p].op = "reg_finish" /\ chals[call[p].ref].aad = "webauthn"
    BY <1>0 DEF Fits, Names
  <2>3. call[p].tok \in 1..Len(db.grants)
    BY <1>0, <2>2 DEF Names
  <2>4. UsedUp(g, Len(db.creds)) \in Grant /\ Links(db, e, [db.grants EXCEPT ![call[p].tok] = UsedUp(g, Len(db.creds))])
    BY <1>0, <2>3, ConsumeDoes DEF UsedUp
  <2>5. g \in Grant /\ UsedUp(g, Len(db.creds)).user = g.user
    <3>1. g \in Grant
      BY <1>0, <2>3, TablesFields
    <3> QED BY <3>1 DEF UsedUp, Grant
  <2> HIDE DEF e
  <2>6. GrownGrants(db.grants, e.grants)
    <3>1. db.grants \in Seq(Grant) /\ e.grants = [db.grants EXCEPT ![call[p].tok] = UsedUp(g, Len(db.creds))]
      BY <1>0, <2>4, TablesFields DEF Links
    <3>2. UsedUp(g, Len(db.creds)).user = db.grants[call[p].tok].user
      BY <2>5
    <3> HIDE DEF g
    <3> QED BY <2>3, <2>4, <3>1, <3>2, GrantEdited
  <2>7. pc \in Pcs
    BY DEF Pcs
  <2>8. Fits(To(call[p], pc))
    BY <1>0, <2>2, <2>7, ToFields DEF Fits
  <2>9. Names(To(call[p], pc), db.grants, chals)
    <3>1. OpenedBy(To(call[p], pc)) = {"webauthn", "claim"}
      BY <1>0, <2>2, <2>7, ToFields, OpenedByIs
    <3> QED BY <1>0, <2>2, <2>7, <3>1, ToFields DEF Names
  <2>10. Proceeds(p, pc) /\ db' = e
    BY <1>0, <2>1, <2>6, <2>7, <2>8, <2>9, ProceedsTo DEF DoorPcs
  <2> QED BY <1>0, <2>1, <2>3, <2>4, <2>10
<1> QED BY <1>1, <1>2

LEMMA RevokeOldDoes ==
    ASSUME RequestInv, NEW p \in Procs, RevokeOld(p)
    PROVE  /\ Proceeds(p, "set_handle") /\ call[p].pc = "revoke_old"
           /\ Keys(db, db', Without(db.creds, Of(db.creds, call[p].tgt)))
<1>0. call[p] \in Call /\ db \in Tables /\ Fits(call[p]) /\ Names(call[p], db.grants, chals) /\ call[p].pc = "revoke_old"
  BY InvFacts DEF RevokeOld, At
<1> DEFINE e == DeleteAllByUser(db, call[p].tgt)
<1>1. Step(p, To(call[p], "set_handle"), e)
  BY DEF RevokeOld
<1>2. Keys(db, e, Without(db.creds, Of(db.creds, call[p].tgt)))
  BY <1>0, DeleteCredentialsDoes
<1> HIDE DEF e
<1>3. GrownGrants(db.grants, e.grants)
  BY <1>0, <1>2, TablesFields, GrownSame DEF Keys
<1>4. "set_handle" \in Pcs
  BY DEF Pcs
<1>5. call[p].op = "reg_finish" /\ chals[call[p].ref].aad = "webauthn"
  BY <1>0 DEF Fits, Names
<1>6. Fits(To(call[p], "set_handle"))
  BY <1>0, <1>4, <1>5, ToFields DEF Fits
<1>7. Names(To(call[p], "set_handle"), db.grants, chals)
  <2>1. OpenedBy(To(call[p], "set_handle")) = {"webauthn", "claim"}
    BY <1>0, <1>4, <1>5, ToFields, OpenedByIs
  <2> QED BY <1>0, <1>4, <1>5, <2>1, ToFields DEF Names
<1>8. Proceeds(p, "set_handle") /\ db' = e
  BY <1>0, <1>1, <1>3, <1>4, <1>6, <1>7, ProceedsTo DEF DoorPcs
<1> QED BY <1>0, <1>2, <1>8

LEMMA ConsumeBootstrapDoes ==
    ASSUME RequestInv, NEW p \in Procs, ConsumeBootstrap(p)
    PROVE  \/ Calm(p)
           \/ Proceeds(p, "create_admin") /\ call[p].pc = "consume_boot" /\ db.boot.open /\ db' = ConsumeBoot(db)
<1>0. call[p] \in Call /\ db \in Tables /\ Fits(call[p]) /\ Names(call[p], db.grants, chals) /\ call[p].pc = "consume_boot"
  BY InvFacts DEF ConsumeBootstrap, At
<1>1. CASE Reply(p)
  BY <1>0, <1>1, EndCalm DEF DuePcs
<1>2. CASE BootOpen(db) /\ Step(p, To(call[p], "create_admin"), ConsumeBoot(db))
  <2> DEFINE e == ConsumeBoot(db)
  <2>1. GrownGrants(db.grants, e.grants)
    BY <1>0, TablesFields, ConsumeBootDoes, GrownSame
  <2>2. Step(p, To(call[p], "create_admin"), e) /\ db.boot.open
    BY <1>2 DEF BootOpen
  <2> HIDE DEF e
  <2>3. "create_admin" \in Pcs
    BY DEF Pcs
  <2>4. Fits(To(call[p], "create_admin"))
    BY <1>0, <2>3, ToFields DEF Fits
  <2>5. Names(To(call[p], "create_admin"), db.grants, chals)
    BY <1>0, <2>3, ToFields DEF Names
  <2>6. Proceeds(p, "create_admin") /\ db' = e
    BY <1>0, <2>1, <2>2, <2>3, <2>4, <2>5, ProceedsTo DEF DoorPcs
  <2> QED BY <1>0, <2>2, <2>6 DEF e
<1> QED BY <1>1, <1>2 DEF ConsumeBootstrap, Try

LEMMA CreateAdminDoes ==
    ASSUME RequestInv, NEW p \in Procs, CreateAdmin(p)
    PROVE  /\ call[p].pc = "create_admin" /\ chals[call[p].ref].aad = "claim" /\ Later
           /\ \/ Goes(p, "idle", call[p].tgt) /\ db' = db
              \/ /\ \E c : Onward(p, c) /\ c.pc = "set_handle" /\ c.op = call[p].op /\ c.ref = call[p].ref
                 /\ \E a : Arrives(p, a, "admin", Nobody, "claim")
<1>0. call[p] \in Call /\ db \in Tables /\ Fits(call[p]) /\ Names(call[p], db.grants, chals) /\ call[p].pc = "create_admin"
      /\ chals \in Seq(Challenge)
  BY InvFacts DEF CreateAdmin, At
<1>1. call[p].op = "reg_finish" /\ chals[call[p].ref].aad = "claim" /\ call[p].ref \in 1..Len(chals)
  BY <1>0 DEF Fits, Names
<1>2. CASE Reply(p)
  BY <1>0, <1>1, <1>2, GoesNowhere, LaterSame DEF Reply, Step
<1>3. CASE ~Reply(p)
  <2> DEFINE a == chals[call[p].ref].addr
             e == Create(db, a, "admin", Nobody, "claim")
             u == NewId(db)
             r == [call[p] EXCEPT !.pc = "set_handle", !.tgt = u]
  <2>1. CanCreate(db, a, Nobody) /\ Step(p, r, e)
    BY <1>3 DEF CreateAdmin, Try
  <2>2. a \in Addresses \cup {NoAddr}
    <3>1. chals[call[p].ref] \in Challenge
      BY <1>0, <1>1
    <3> QED BY <3>1 DEF Challenge
  <2> HIDE DEF a
  <2>3. u \in Accounts /\ db.users[u].life = "unborn" /\ Rewrites(db, e, u, Newcomer(a, "admin", Nobody, "claim"))
    BY <1>0, <2>1, <2>2, CreateDoes
  <2>4. "set_handle" \in Pcs /\ u \in Accounts \cup {Nobody}
    BY <2>3 DEF Pcs
  <2>5. Step(p, r, e)
    BY <2>1
  <2> HIDE DEF e, u
  <2>6. r \in Call /\ r.op = call[p].op /\ r.ref = call[p].ref /\ r.tok = call[p].tok /\ r.role = call[p].role /\ r.pc = "set_handle"
    BY <1>0, <2>4 DEF Call
  <2> HIDE DEF r
  <2>7. Fits(r)
    BY <1>0, <1>1, <2>6 DEF Fits
  <2>8. Names(r, db.grants, chals)
    <3>1. OpenedBy(r) = {"webauthn", "claim"}
      BY <1>1, <2>6, OpenedByIs
    <3> QED BY <1>0, <1>1, <2>6, <3>1 DEF Names
  <2>9. Authority(r) => Authority(call[p])
    BY <1>0, <2>6 DEF Authority
  <2>10. e.grants = db.grants
    BY <2>3 DEF Rewrites, Apart
  <2>11. Onward(p, r) /\ db' = e /\ Later
    BY <2>5, <2>7, <2>8, <2>9, <2>10, LaterSame DEF Onward, Turned, Step
  <2> QED BY <1>0, <1>1, <2>3, <2>6, <2>11 DEF Arrives, u
<1> QED BY <1>2, <1>3

LEMMA ArriveCalm ==
    ASSUME RequestInv, NEW p \in Procs, Arrive(p)
    PROVE  Calm(p)
<1>0. call[p].pc = "idle" /\ chals \in Seq(Challenge) /\ db \in Tables /\ scene \in DOMAIN Scenes
  BY InvFacts DEF Arrive, At, RequestInv
<1>1. PICK a \in S.asks : \E sid \in Sids(a), ref \in Refs(a.op), tok \in Toks(a.op) :
        call' = [call EXCEPT ![p] =
             [op |-> a.op, door |-> a.door, me |-> a.me, tgt |-> a.tgt, addr |-> a.addr, role |-> a.role, dis |-> a.dis,
              sub |-> a.sub, verified |-> a.verified, pc |-> FirstCheck(a.op, a.door),
              sid |-> sid, ref |-> ref, tok |-> tok, row |-> NoUser, admins |-> NotCounted]]
  BY DEF Arrive
<1>2. PICK sid \in Sids(a), ref \in Refs(a.op), tok \in Toks(a.op) :
        call' = [call EXCEPT ![p] =
             [op |-> a.op, door |-> a.door, me |-> a.me, tgt |-> a.tgt, addr |-> a.addr, role |-> a.role, dis |-> a.dis,
              sub |-> a.sub, verified |-> a.verified, pc |-> FirstCheck(a.op, a.door),
              sid |-> sid, ref |-> ref, tok |-> tok, row |-> NoUser, admins |-> NotCounted]]
  BY <1>1
<1> DEFINE r == [op |-> a.op, door |-> a.door, me |-> a.me, tgt |-> a.tgt, addr |-> a.addr, role |-> a.role, dis |-> a.dis,
                 sub |-> a.sub, verified |-> a.verified, pc |-> FirstCheck(a.op, a.door),
                 sid |-> sid, ref |-> ref, tok |-> tok, row |-> NoUser, admins |-> NotCounted]
<1>3. a \in Ask /\ (a.op = "invite" => a.role # "keep")
  BY <1>0, SceneAssumption DEF S
<1>4. Len(db.grants) \in Nat /\ Len(db.creds) \in Nat /\ Len(db.mails) \in Nat /\ Len(db.keys) \in Nat /\ Len(db.sessions) \in Nat
      /\ db.boot.token \in Nat /\ Len(chals) \in Nat
  BY <1>0, TablesFields
<1>5. sid \in Nat /\ ref \in Nat /\ tok \in Nat
  BY <1>4 DEF Sids, Refs, Toks
<1>6. FirstCheck(a.op, a.door) \in {"handler", "key", "session"} /\ (a.op \in AdminOps => FirstCheck(a.op, a.door) # "handler")
  BY DEF FirstCheck, AdminOps, OpenOps
<1>7. NoUser \in User
  BY DEF NoUser, User, NoAddr
<1>8. FirstCheck(a.op, a.door) \in Pcs /\ FirstCheck(a.op, a.door) \in QuietPcs
  BY <1>6 DEF Pcs, QuietPcs, PlainPcs
<1>9. a.op \in {"login_finish", "pk_finish", "reg_finish"} => ref \in 1..Len(chals)
  BY DEF Refs
<1>10. a.op \in {"reg_begin", "reg_finish"} => tok \in 0..Len(db.grants)
  BY DEF Toks
<1>11. r \in Call
  <2>1. NotCounted \in SUBSET (Accounts \cup {Nobody})
    BY DEF NotCounted
  <2> HIDE DEF NoUser, Ops
  <2> QED BY <1>3, <1>5, <1>7, <1>8, <2>1 DEF Call, Ask
<1>12. r.op = a.op /\ r.ref = ref /\ r.tok = tok /\ r.role = a.role /\ r.pc = FirstCheck(a.op, a.door)
  OBVIOUS
<1>13. call' = [call EXCEPT ![p] = r]
  BY <1>2
<1> HIDE DEF r
<1>14. Fits(r)
  BY <1>3, <1>6, <1>11, <1>12 DEF Fits
<1>15. UNCHANGED <<db, chals, mu, scene>> /\ spent' = [spent EXCEPT !.calls = @ + 1] /\ spent.calls < S.calls
  BY DEF Arrive
<1>16. Names(r, db.grants, chals)
  BY <1>6, <1>9, <1>10, <1>12 DEF Names
<1>17. ~Authority(r)
  BY <1>6, <1>12 DEF Authority
<1>18. Charged
  <2>1. spent \in [calls : 0..S.calls, faults : 0..S.faults] /\ S.calls \in Nat /\ S.faults \in Nat
    BY <1>0, SceneAssumption DEF RequestInv, TypeOK, S
  <2> QED BY <1>15, <2>1 DEF Charged
<1>19. Settled(r)
  BY <1>8, <1>12, QuietSettled
<1> QED BY <1>0, <1>13, <1>14, <1>15, <1>16, <1>17, <1>18, <1>19, TurnCalm, LaterSame DEF DuePcs

LEMMA FailDoes ==
    ASSUME RequestInv, NEW p \in Procs, Fail(p)
    PROVE  /\ \E c : Turned(p, c) /\ c.pc \in {"idle", "new_session"}
           /\ db' = db /\ Later /\ Charged /\ spent'.faults # 0 /\ mu' = Unlocked(p) /\ scene' = scene
<1>0. call[p] \in Call /\ db \in Tables /\ Fits(call[p]) /\ Names(call[p], db.grants, chals) /\ call \in [Procs -> Call]
  BY InvFacts
<1>1. /\ db' = db /\ chals' = chals /\ scene' = scene /\ mu' = Unlocked(p)
      /\ spent' = [spent EXCEPT !.faults = @ + 1] /\ spent.faults < S.faults
  BY DEF Fail, Fault
<1>2. Later /\ Charged
  BY <1>1, LaterSame, SpentFault
<1>3. spent'.faults # 0
  <2>1. spent \in [calls : 0..S.calls, faults : 0..S.faults] /\ S.calls \in Nat /\ S.faults \in Nat
    BY SceneAssumption DEF RequestInv, TypeOK, S
  <2> QED BY <1>1, <2>1
<1>4. \/ call' = [call EXCEPT ![p] = To(call[p], "new_session")] /\ call[p].pc \in {"sync_list", "sync_set", "drop"}
      \/ call' = [call EXCEPT ![p] = NoCall]
  BY <1>0 DEF Fail
<1>5. CASE call' = [call EXCEPT ![p] = NoCall]
  <2>1. NoCall.pc = "idle" /\ Fits(NoCall) /\ Names(NoCall, db'.grants, chals') /\ ~Authority(NoCall)
    BY NoCallFits DEF NoCall
  <2> HIDE DEF NoCall
  <2> QED BY <1>1, <1>2, <1>3, <1>5, <2>1 DEF Turned
<1>6. CASE call' = [call EXCEPT ![p] = To(call[p], "new_session")] /\ call[p].pc \in {"sync_list", "sync_set", "drop"}
  <2> DEFINE r == To(call[p], "new_session")
  <2>1. "new_session" \in Pcs /\ "new_session" \in PlainPcs
    BY DEF Pcs, PlainPcs
  <2>2. r \in Call /\ r.op = call[p].op /\ r.ref = call[p].ref /\ r.tok = call[p].tok /\ r.role = call[p].role /\ r.pc = "new_session"
    BY <1>0, <2>1, ToFields
  <2>3. call' = [call EXCEPT ![p] = r]
    BY <1>6
  <2> HIDE DEF r
  <2>4. Fits(r) /\ Names(r, db.grants, chals)
    BY <1>0, <2>1, <2>2, PlainFits
  <2>5. Authority(r) => Authority(call[p])
    BY <1>6, <2>2 DEF Authority
  <2> QED BY <1>1, <1>2, <1>3, <2>2, <2>3, <2>4, <2>5 DEF Turned
<1> QED BY <1>4, <1>5, <1>6
-----------------------------------------------------------------------------
(* What a write to an account leaves *)

RowsKept ==
    \A v \in Rows(db) :
        /\ v \in Rows(db')
        /\ \/ db'.users[v].sub = db.users[v].sub
           \/ db.users[v].role = "user" /\ NormalizeAddress(db'.users[v].email) = NormalizeAddress(db.users[v].email)
PendKept == \A v \in Accounts : Pended(db.users[v], db.mails) => Pended(db'.users[v], db'.mails)
MailsKept(pc, u) == \A v \in Rows(db) : NormalizeAddress(db'.users[v].email) = NormalizeAddress(db.users[v].email) \/ (pc = "drop" /\ u = v)
NoClaims == \A v \in Accounts : db'.users[v].by = "claim" => db.users[v].by = "claim"
AdminsGuarded(p) ==
    EnabledAdmins(db) # {} /\ EnabledAdmins(db') = {} => call[p].admins \notin {NotCounted, EnabledAdmins(db)}
NoNewAdmin == AdminExists(db') => AdminExists(db)

AccountWrite(p) ==
    /\ Apart(db, db') /\ RowsKept /\ PendKept /\ NoClaims /\ AdminsGuarded(p)
    /\ NoNewAdmin \/ Authority(call[p])
    /\ call[p].pc \notin DuePcs
    /\ call[p].pc = "confirm" =>
         LET r == db.users[call[p].me] IN
         r.plive /\ r.ptok = call[p].tok /\ call[p].me \in Accounts /\ db'.users[call[p].me].email = r.pend
    /\ \E pc, u : Goes(p, pc, u) /\ pc \in PlainPcs \cup {"set_dis", "drop"} /\ pc # call[p].pc /\ MailsKept(pc, u)

LEMMA RowWrite ==
    ASSUME RequestInv, NEW u \in Accounts, NEW r, Rewrites(db, db', u, r),
           db.users[u].life = "row" =>
               /\ r.life = "row"
               /\ r.sub = db.users[u].sub \/ (db.users[u].role = "user" /\ NormalizeAddress(r.email) = NormalizeAddress(db.users[u].email)),
           r.plive => db.users[u].plive /\ r.ptok = db.users[u].ptok /\ r.pend = db.users[u].pend
    PROVE  RowsKept /\ PendKept /\ Apart(db, db') /\ \A v \in Accounts : db'.users[v] = IF v = u THEN r ELSE db.users[v]
<1>0. db \in Tables
  BY DEF RequestInv, TypeOK
<1>1. \A v \in Accounts : db'.users[v] = IF v = u THEN r ELSE db.users[v]
  <2>1. db.users \in [Accounts -> User]
    BY <1>0, TablesFields
  <2> QED BY <2>1 DEF Rewrites
<1>2. RowsKept
  BY <1>1 DEF RowsKept, Rows
<1>3. db'.mails = db.mails /\ Apart(db, db')
  BY DEF Rewrites
<1>4. PendKept
  BY <1>1, <1>3 DEF PendKept, Pended
<1> QED BY <1>1, <1>2, <1>3, <1>4

\* Role, state and origin as before, or of one who signs up.
LEMMA SameStanding ==
    ASSUME RequestInv, NEW u \in Accounts, NEW r, \A v \in Accounts : db'.users[v] = IF v = u THEN r ELSE db.users[v],
           \/ r.life = db.users[u].life /\ r.role = db.users[u].role /\ r.dis = db.users[u].dis
           \/ db.users[u].life = "unborn" /\ r.role = "user",
           r.by = "claim" => db.users[u].by = "claim", NEW p \in Procs
    PROVE  NoClaims /\ NoNewAdmin /\ AdminsGuarded(p)
<1>1. NoClaims
  BY DEF NoClaims
<1>2. NoNewAdmin
  BY DEF NoNewAdmin, AdminExists, Rows
<1>3. EnabledAdmins(db) \subseteq EnabledAdmins(db')
  BY DEF EnabledAdmins, Rows, IsEnabledAdmin
<1> QED BY <1>1, <1>2, <1>3 DEF AdminsGuarded

\* Whoever writes without the last administrator has not counted the ones there are.
LEMMA SparedGuards ==
    ASSUME RequestInv, NEW p \in Procs, NEW u \in Accounts, u = call[p].tgt, Spared(call[p]),
           \A v \in Accounts : v # u => db'.users[v] = db.users[v]
    PROVE  AdminsGuarded(p)
<1>1. ASSUME EnabledAdmins(db) # {}, EnabledAdmins(db') = {} PROVE EnabledAdmins(db) = {u}
  BY <1>1 DEF EnabledAdmins, Rows
<1> QED BY <1>1 DEF AdminsGuarded, Spared

LEMMA ApplyRoleWrites ==
    ASSUME RequestInv, NEW p \in Procs, ApplyRole(p)
    PROVE  Calm(p) \/ AccountWrite(p)
<1> DEFINE u == call[p].tgt
           r == [db.users[u] EXCEPT !.role = call[p].role]
<1>0. call[p].pc = "set_role" /\ Fits(call[p])
  BY InvFacts DEF ApplyRole, At
<1>1. SUFFICES ASSUME ~Calm(p) PROVE AccountWrite(p)
  OBVIOUS
<1>2. Goes(p, "set_dis", u) /\ u \in Rows(db) /\ call[p].role \in {"admin", "user"} /\ Rewrites(db, db', u, r)
  BY <1>1, ApplyRoleDoes
<1>3. u \in Accounts /\ db.users[u] \in User
  BY <1>2, RowOf
<1>4. /\ r.life = db.users[u].life /\ r.sub = db.users[u].sub /\ r.email = db.users[u].email /\ r.role = call[p].role
      /\ r.plive = db.users[u].plive /\ r.ptok = db.users[u].ptok /\ r.pend = db.users[u].pend
      /\ r.dis = db.users[u].dis /\ r.by = db.users[u].by
  BY <1>3 DEF User
<1> HIDE DEF r
<1>5. RowsKept /\ PendKept /\ Apart(db, db') /\ \A v \in Accounts : db'.users[v] = IF v = u THEN r ELSE db.users[v]
  BY <1>2, <1>3, <1>4, RowWrite
<1>6. NoClaims
  BY <1>4, <1>5 DEF NoClaims
<1>7. Authority(call[p])
  BY <1>0 DEF Fits, Authority
<1>8. AdminsGuarded(p)
  <2>1. CASE call[p].role = "user"
    BY <1>0, <1>3, <1>5, <2>1, SparedGuards DEF Fits
  <2>2. CASE call[p].role = "admin"
    <3>1. EnabledAdmins(db) \subseteq EnabledAdmins(db')
      BY <1>4, <1>5, <2>2 DEF EnabledAdmins, Rows, IsEnabledAdmin
    <3> QED BY <3>1 DEF AdminsGuarded
  <2> QED BY <1>2, <2>1, <2>2
<1>9. MailsKept("set_dis", u)
  BY <1>4, <1>5 DEF MailsKept, Rows
<1> QED BY <1>0, <1>2, <1>5, <1>6, <1>7, <1>8, <1>9 DEF AccountWrite, DuePcs

LEMMA ApplyDisabledWrites ==
    ASSUME RequestInv, NEW p \in Procs, ApplyDisabled(p)
    PROVE  Calm(p) \/ AccountWrite(p)
<1> DEFINE u == call[p].tgt
           b == call[p].dis = "on"
           r == [db.users[u] EXCEPT !.dis = b]
<1>0. call[p].pc = "set_dis" /\ Fits(call[p])
  BY InvFacts DEF ApplyDisabled, At
<1>1. SUFFICES ASSUME ~Calm(p) PROVE AccountWrite(p)
  OBVIOUS
<1>2. (Goes(p, "end_sessions", u) \/ Goes(p, "idle", u)) /\ u \in Rows(db) /\ Rewrites(db, db', u, r)
  BY <1>1, ApplyDisabledDoes
<1>3. u \in Accounts /\ db.users[u] \in User
  BY <1>2, RowOf
<1>4. /\ r.life = db.users[u].life /\ r.sub = db.users[u].sub /\ r.email = db.users[u].email /\ r.role = db.users[u].role
      /\ r.plive = db.users[u].plive /\ r.ptok = db.users[u].ptok /\ r.pend = db.users[u].pend
      /\ r.dis = b /\ r.by = db.users[u].by
  BY <1>3 DEF User
<1> HIDE DEF r
<1>5. RowsKept /\ PendKept /\ Apart(db, db') /\ \A v \in Accounts : db'.users[v] = IF v = u THEN r ELSE db.users[v]
  BY <1>2, <1>3, <1>4, RowWrite
<1>6. NoClaims
  BY <1>4, <1>5 DEF NoClaims
<1>7. NoNewAdmin
  BY <1>4, <1>5 DEF NoNewAdmin, AdminExists, Rows
<1>8. AdminsGuarded(p)
  <2>1. CASE b
    BY <1>0, <1>3, <1>5, <2>1, SparedGuards DEF Fits
  <2>2. CASE ~b
    <3>1. \A v \in Accounts : IsEnabledAdmin(db.users[v]) => IsEnabledAdmin(db'.users[v])
      BY <1>4, <1>5, <2>2 DEF IsEnabledAdmin
    <3>2. \A v \in Accounts : db'.users[v].life = db.users[v].life
      BY <1>4, <1>5
    <3>3. EnabledAdmins(db) \subseteq EnabledAdmins(db')
      BY <3>1, <3>2 DEF EnabledAdmins, Rows
    <3> QED BY <3>3 DEF AdminsGuarded
  <2> QED BY <2>1, <2>2
<1>9. \A pc : MailsKept(pc, u)
  BY <1>4, <1>5 DEF MailsKept, Rows
<1>10. \E pc \in {"end_sessions", "idle"} : Goes(p, pc, u) /\ MailsKept(pc, u) /\ pc \in PlainPcs /\ pc # call[p].pc
  BY <1>0, <1>2, <1>9 DEF PlainPcs
<1> QED BY <1>0, <1>5, <1>6, <1>7, <1>8, <1>10 DEF AccountWrite, DuePcs
LEMMA RequestPendWrites ==
    ASSUME RequestInv, NEW p \in Procs, RequestPend(p)
    PROVE  Calm(p) \/ AccountWrite(p)
<1> DEFINE u == call[p].me
           a == call[p].addr
           n == Len(db.mails) + 1
           r == [db.users[u] EXCEPT !.pend = a, !.ptok = n, !.plive = TRUE]
<1>0. call[p].pc = "set_pending" /\ db \in Tables
  BY InvFacts DEF RequestPend, At
<1>1. SUFFICES ASSUME ~Calm(p) PROVE AccountWrite(p)
  OBVIOUS
<1>2. Goes(p, "mail_confirm", call[p].tgt) /\ u \in Rows(db) /\ a \in Addresses \cup {NoAddr} /\ db' = SetPendingEmail(db, u, a)
  BY <1>1, RequestPendDoes
<1>3. u \in Accounts /\ db.users[u] \in User /\ n \in Nat /\ db.mails \in Seq(Addresses \cup {NoAddr})
      /\ db.users \in [Accounts -> User]
  BY <1>0, <1>2, RowOf, TablesFields
<1>4. Apart(db, db') /\ db'.mails = Append(db.mails, a) /\ db'.users = [db.users EXCEPT ![u] = r]
  <2>1. db \in Tables /\ u \in Accounts /\ a \in Addresses \cup {NoAddr} /\ db' = SetPendingEmail(db, u, a)
    BY <1>0, <1>2, <1>3
  <2>2. db'.users = [db.users EXCEPT ![u] = r]
    BY <2>1, SetPendingDoes
  <2> HIDE DEF u, a, n, r
  <2>3. Apart(db, db')
    BY <2>1, SetPendingDoes
  <2>4. db'.mails = Append(db.mails, a)
    BY <2>1, SetPendingDoes
  <2> QED BY <2>2, <2>3, <2>4
<1>5. /\ r.life = db.users[u].life /\ r.sub = db.users[u].sub /\ r.email = db.users[u].email /\ r.role = db.users[u].role
      /\ r.ptok = n /\ r.pend = a /\ r.dis = db.users[u].dis /\ r.by = db.users[u].by
  BY <1>3 DEF User
<1> HIDE DEF r
<1>6. \A v \in Accounts : db'.users[v] = IF v = u THEN r ELSE db.users[v]
  BY <1>3, <1>4
<1>7. RowsKept
  BY <1>5, <1>6 DEF RowsKept, Rows
<1>8. PendKept
  <2>1. n \in 1..Len(db'.mails) /\ db'.mails[n] = a /\ Len(db'.mails) = Len(db.mails) + 1
        /\ \A i \in 1..Len(db.mails) : db'.mails[i] = db.mails[i] /\ i \in 1..Len(db'.mails)
    BY <1>2, <1>3, <1>4
  <2> HIDE DEF n
  <2> QED BY <1>5, <1>6, <2>1 DEF PendKept, Pended
<1>9. NoClaims /\ NoNewAdmin /\ AdminsGuarded(p)
  BY <1>3, <1>5, <1>6, SameStanding
<1>10. MailsKept("mail_confirm", call[p].tgt)
  BY <1>5, <1>6 DEF MailsKept, Rows
<1>11. "mail_confirm" \in PlainPcs
  BY DEF PlainPcs
<1> QED BY <1>0, <1>2, <1>4, <1>7, <1>8, <1>9, <1>10, <1>11 DEF AccountWrite, DuePcs

LEMMA UnpendWrites ==
    ASSUME RequestInv, NEW p \in Procs, RequestWithdraw(p) \/ Cancel(p)
    PROVE  Calm(p) \/ AccountWrite(p)
<1> DEFINE u == call[p].me
           r == Unpended(db.users[u])
<1>0. call[p].pc \in {"withdraw", "cancel"}
  BY DEF RequestWithdraw, Cancel, At
<1>1. SUFFICES ASSUME ~Calm(p) PROVE AccountWrite(p)
  OBVIOUS
<1>2. Goes(p, "idle", call[p].tgt) /\ u \in Rows(db) /\ Rewrites(db, db', u, r)
  BY <1>1, UnpendDoes
<1>3. u \in Accounts /\ db.users[u] \in User
  BY <1>2, RowOf
<1>4. /\ r.life = db.users[u].life /\ r.sub = db.users[u].sub /\ r.email = db.users[u].email /\ r.role = db.users[u].role
      /\ ~r.plive /\ r.dis = db.users[u].dis /\ r.by = db.users[u].by
  BY <1>3, UserFields
<1> HIDE DEF r
<1>5. RowsKept /\ PendKept /\ Apart(db, db') /\ \A v \in Accounts : db'.users[v] = IF v = u THEN r ELSE db.users[v]
  BY <1>2, <1>3, <1>4, RowWrite
<1>6. NoClaims /\ NoNewAdmin /\ AdminsGuarded(p)
  BY <1>3, <1>4, <1>5, SameStanding
<1>7. MailsKept("idle", call[p].tgt)
  BY <1>4, <1>5 DEF MailsKept, Rows
<1>8. "idle" \in PlainPcs
  BY DEF PlainPcs
<1> QED BY <1>0, <1>2, <1>5, <1>6, <1>7, <1>8 DEF AccountWrite, DuePcs

LEMMA ReaddressesWrites ==
    ASSUME RequestInv, NEW p \in Procs, NEW u, NEW a, Readdresses(p, u, a), call[p].pc \notin DuePcs,
           call[p].pc = "confirm" => u = call[p].me /\ CanConfirm(db, call[p].me, call[p].tok) /\ a = db.users[u].pend
    PROVE  AccountWrite(p)
<1> DEFINE q == [db.users[u] EXCEPT !.email = a]
           r == Unpended(q)
<1>2. Goes(p, "drop", u) /\ u \in Rows(db) /\ a \in Addresses \cup {NoAddr} /\ Rewrites(db, db', u, r)
  BY DEF Readdresses
<1>3. u \in Accounts /\ db.users[u] \in User
  BY <1>2, RowOf
<1>4. /\ q \in User /\ q.life = db.users[u].life /\ q.sub = db.users[u].sub /\ q.email = a /\ q.role = db.users[u].role
      /\ q.dis = db.users[u].dis /\ q.by = db.users[u].by
  BY <1>2, <1>3 DEF User
<1> HIDE DEF q
<1>5. /\ r.life = db.users[u].life /\ r.sub = db.users[u].sub /\ r.email = a /\ r.role = db.users[u].role
      /\ ~r.plive /\ r.dis = db.users[u].dis /\ r.by = db.users[u].by
  BY <1>4, UserFields
<1> HIDE DEF r
<1>6. RowsKept /\ PendKept /\ Apart(db, db') /\ \A v \in Accounts : db'.users[v] = IF v = u THEN r ELSE db.users[v]
  BY <1>2, <1>3, <1>5, RowWrite
<1>7. NoClaims /\ NoNewAdmin /\ AdminsGuarded(p)
  BY <1>3, <1>5, <1>6, SameStanding
<1>8. MailsKept("drop", u)
  BY <1>5, <1>6 DEF MailsKept, Rows
<1>9. call[p].pc = "confirm" =>
        LET s == db.users[call[p].me] IN
        s.plive /\ s.ptok = call[p].tok /\ call[p].me \in Accounts /\ db'.users[call[p].me].email = s.pend
  BY <1>3, <1>5, <1>6 DEF CanConfirm
<1>10. call[p].pc # "drop"
  BY DEF DuePcs
<1> QED BY <1>2, <1>6, <1>7, <1>8, <1>9, <1>10 DEF AccountWrite

LEMMA LinkWrites ==
    ASSUME RequestInv, NEW p \in Procs, Link(p)
    PROVE  Calm(p) \/ AccountWrite(p)
<1> DEFINE u == call[p].tgt
           r == [db.users[u] EXCEPT !.email = call[p].addr, !.sub = call[p].sub]
<1>0. call[p].pc = "link" /\ call[p] \in Call
  BY InvFacts DEF Link, At
<1>1. SUFFICES ASSUME ~Calm(p) PROVE AccountWrite(p)
  OBVIOUS
<1>2. /\ Goes(p, "new_session", u) /\ CanLinkOIDC(db, u, call[p].row, call[p].addr, call[p].sub)
      /\ call[p].row.role = "user" /\ NormalizeAddress(call[p].row.email) = NormalizeAddress(call[p].addr) /\ Rewrites(db, db', u, r)
  BY <1>1, LinkStepDoes
<1>3. /\ u \in Accounts /\ db.users[u] \in User /\ db.users[u].role = "user"
      /\ NormalizeAddress(db.users[u].email) = NormalizeAddress(call[p].addr)
  BY <1>2, RowOf DEF CanLinkOIDC
<1>4. /\ r.life = db.users[u].life /\ r.email = call[p].addr /\ r.role = db.users[u].role
      /\ r.plive = db.users[u].plive /\ r.ptok = db.users[u].ptok /\ r.pend = db.users[u].pend
      /\ r.dis = db.users[u].dis /\ r.by = db.users[u].by
  BY <1>3 DEF User
<1> HIDE DEF r
<1>5. RowsKept /\ PendKept /\ Apart(db, db') /\ \A v \in Accounts : db'.users[v] = IF v = u THEN r ELSE db.users[v]
  BY <1>2, <1>3, <1>4, RowWrite
<1>6. NoClaims /\ NoNewAdmin /\ AdminsGuarded(p)
  BY <1>3, <1>4, <1>5, SameStanding
<1>7. MailsKept("new_session", u)
  BY <1>3, <1>4, <1>5 DEF MailsKept, Rows
<1>8. "new_session" \in PlainPcs
  BY DEF PlainPcs
<1> QED BY <1>0, <1>2, <1>5, <1>6, <1>7, <1>8 DEF AccountWrite, DuePcs

LEMMA ArrivesWrites ==
    ASSUME RequestInv, NEW p \in Procs, NEW a, NEW x, NEW s, NEW by, Arrives(p, a, x, s, by)
    PROVE  /\ RowsKept /\ PendKept /\ Apart(db, db') /\ \A pc, u : MailsKept(pc, u)
           /\ EnabledAdmins(db) \subseteq EnabledAdmins(db')
           /\ x = "user" => NoNewAdmin
           /\ by # "claim" => NoClaims
<1> DEFINE u == NewId(db)
           r == Newcomer(a, x, s, by)
<1>1. u \in Accounts /\ db.users[u].life = "unborn" /\ Rewrites(db, db', u, r)
  BY DEF Arrives
<1>2. ~r.plive /\ r.role = x /\ r.by = by
  BY DEF Newcomer, NoUser
<1> HIDE DEF u, r
<1>3. RowsKept /\ PendKept /\ Apart(db, db') /\ \A v \in Accounts : db'.users[v] = IF v = u THEN r ELSE db.users[v]
  BY <1>1, <1>2, RowWrite
<1>4. \A v \in Rows(db) : v \in Accounts /\ v # u /\ db'.users[v] = db.users[v]
  BY <1>1, <1>3 DEF Rows
<1>5. \A pc, w : MailsKept(pc, w)
  BY <1>4 DEF MailsKept
<1>6. EnabledAdmins(db) \subseteq EnabledAdmins(db')
  BY <1>4 DEF EnabledAdmins, Rows
<1>7. x = "user" => NoNewAdmin
  BY <1>2, <1>3 DEF NoNewAdmin, AdminExists, Rows
<1>8. by # "claim" => NoClaims
  BY <1>2, <1>3 DEF NoClaims
<1> QED BY <1>3, <1>5, <1>6, <1>7, <1>8

LEMMA SignupWrites ==
    ASSUME RequestInv, NEW p \in Procs, Signup(p)
    PROVE  Calm(p) \/ AccountWrite(p)
<1>0. call[p].pc = "signup" /\ "new_session" \in PlainPcs
  BY DEF Signup, At, PlainPcs
<1>1. SUFFICES ASSUME ~Calm(p) PROVE AccountWrite(p)
  OBVIOUS
<1>2. Goes(p, "new_session", call[p].tgt) /\ Arrives(p, call[p].addr, "user", call[p].sub, "oidc")
  BY <1>1, SignupDoes
<1>3. /\ RowsKept /\ PendKept /\ Apart(db, db') /\ \A pc, u : MailsKept(pc, u)
      /\ EnabledAdmins(db) \subseteq EnabledAdmins(db') /\ NoNewAdmin /\ NoClaims
  BY <1>2, ArrivesWrites
<1>4. AdminsGuarded(p)
  BY <1>3 DEF AdminsGuarded
<1> QED BY <1>0, <1>2, <1>3, <1>4 DEF AccountWrite, DuePcs

LEMMA InviteCreateWrites ==
    ASSUME RequestInv, NEW p \in Procs, InviteCreate(p)
    PROVE  Calm(p) \/ AccountWrite(p)
<1>0. call[p].pc = "invite_create" /\ "issue_invite" \in PlainPcs
  BY DEF InviteCreate, At, PlainPcs
<1>1. SUFFICES ASSUME ~Calm(p) PROVE AccountWrite(p)
  OBVIOUS
<1>2. /\ Goes(p, "issue_invite", call[p].tgt) /\ Arrives(p, call[p].addr, call[p].role, Nobody, "invite")
      /\ Authority(call[p])
  BY <1>1, InviteCreateDoes
<1>3. /\ RowsKept /\ PendKept /\ Apart(db, db') /\ \A pc, u : MailsKept(pc, u)
      /\ EnabledAdmins(db) \subseteq EnabledAdmins(db') /\ NoClaims
  BY <1>2, ArrivesWrites
<1>4. AdminsGuarded(p)
  BY <1>3 DEF AdminsGuarded
<1> QED BY <1>0, <1>2, <1>3, <1>4 DEF AccountWrite, DuePcs

LEMMA AccountSteps ==
    ASSUME RequestInv, NEW p \in Procs,
           \/ ApplyRole(p) \/ ApplyDisabled(p) \/ RequestPend(p) \/ RequestWithdraw(p) \/ Cancel(p) \/ Confirm(p)
           \/ AdminSet(p) \/ SyncSet(p) \/ Link(p) \/ Signup(p) \/ InviteCreate(p)
    PROVE  Calm(p) \/ AccountWrite(p)
<1>1. CASE Confirm(p)
  BY <1>1, ConfirmStepDoes, ReaddressesWrites DEF Confirm, At, DuePcs
<1>2. CASE AdminSet(p) \/ SyncSet(p)
  BY <1>2, SetEmailStepsDo, ReaddressesWrites DEF AdminSet, SyncSet, At, DuePcs
<1> QED BY <1>1, <1>2, ApplyRoleWrites, ApplyDisabledWrites, RequestPendWrites, UnpendWrites, LinkWrites, SignupWrites,
           InviteCreateWrites
-----------------------------------------------------------------------------
(* Restarts and time *)

LEMMA RestartDoes ==
    ASSUME RequestInv, Restart
    PROVE  /\ call' = [p \in Procs |-> NoCall] /\ mu' = Nobody /\ scene' = scene
           /\ Later /\ Charged /\ spent'.faults # 0
           /\ db' = db \/ (~AdminExists(db) /\ db' = SetTokenHash(db))
<1>0. chals \in Seq(Challenge) /\ db \in Tables
  BY DEF RequestInv, TypeOK
<1>1. /\ call' = [p \in Procs |-> NoCall] /\ mu' = Nobody /\ scene' = scene
      /\ chals' = [i \in 1..Len(chals) |-> [chals[i] EXCEPT !.used = FALSE]]
      /\ spent' = [spent EXCEPT !.faults = @ + 1] /\ spent.faults < S.faults
      /\ db' = db \/ (~AdminExists(db) /\ db' = SetTokenHash(db))
  BY DEF Restart, Fault, Startup
<1>2. \A i \in 1..Len(chals) : /\ [chals[i] EXCEPT !.used = FALSE] \in Challenge
                               /\ [chals[i] EXCEPT !.used = FALSE].aad = chals[i].aad
  <2> TAKE i \in 1..Len(chals)
  <2>1. chals[i] \in Challenge
    BY <1>0
  <2> QED BY <2>1 DEF Challenge
<1>3. chals' \in Seq(Challenge) /\ Len(chals') = Len(chals) /\ \A i \in 1..Len(chals) : chals'[i].aad = chals[i].aad
  <2>1. chals' \in [1..Len(chals) -> Challenge] /\ Len(chals) \in Nat
    BY <1>0, <1>1, <1>2
  <2>2. chals' \in Seq(Challenge) /\ Len(chals') = Len(chals)
    BY <2>1
  <2> QED BY <1>1, <1>2, <2>2
<1>4. Later
  BY <1>0, <1>3 DEF Later, GrownChals
<1>5. Charged
  BY <1>1, SpentFault
<1>6. spent'.faults # 0
  <2>1. spent \in [calls : 0..S.calls, faults : 0..S.faults] /\ S.calls \in Nat /\ S.faults \in Nat
    BY SceneAssumption DEF RequestInv, TypeOK, S
  <2> QED BY <1>1, <2>1
<1> QED BY <1>1, <1>4, <1>5, <1>6

\* No request moves, and accounts keep who and what they are.
Meanwhile ==
    /\ UNCHANGED <<chals, mu, call, scene>> /\ Charged /\ db' \in Tables
    /\ db'.creds = db.creds /\ db'.boot = db.boot
    /\ RowsKept /\ PendKept /\ NoClaims /\ NoNewAdmin /\ \A pc, u : MailsKept(pc, u)
    /\ EnabledAdmins(db) \subseteq EnabledAdmins(db')
    /\ Rows(db') = Rows(db)
    /\ Len(db'.grants) = Len(db.grants)
    /\ \A i \in 1..Len(db.grants) :
         /\ db'.grants[i].user = db.grants[i].user /\ db'.grants[i].reason = db.grants[i].reason
         /\ db'.grants[i].replaces = db.grants[i].replaces /\ db'.grants[i].to = db.grants[i].to
         /\ db'.grants[i].upto = db.grants[i].upto
         /\ db'.grants[i].st = db.grants[i].st \/ db'.grants[i].st = "gone"

LEMMA SameRows ==
    ASSUME RequestInv, db'.users = db.users, db'.mails = db.mails
    PROVE  /\ RowsKept /\ PendKept /\ NoClaims /\ NoNewAdmin /\ \A pc, u : MailsKept(pc, u)
           /\ EnabledAdmins(db') = EnabledAdmins(db) /\ Rows(db') = Rows(db)
<1>1. Rows(db') = Rows(db)
  BY DEF Rows
<1>2. EnabledAdmins(db') = EnabledAdmins(db)
  BY <1>1 DEF EnabledAdmins
<1> QED BY <1>1, <1>2 DEF RowsKept, PendKept, NoClaims, NoNewAdmin, MailsKept, AdminExists

\* A pending change that goes changes nothing else.
LEMMA PendingGoes ==
    ASSUME RequestInv, db'.mails = db.mails,
           \A v \in Accounts :
               /\ db'.users[v].life = db.users[v].life /\ db'.users[v].email = db.users[v].email
               /\ db'.users[v].role = db.users[v].role /\ db'.users[v].dis = db.users[v].dis
               /\ db'.users[v].sub = db.users[v].sub /\ db'.users[v].by = db.users[v].by
               /\ db'.users[v].plive => db'.users[v] = db.users[v]
    PROVE  /\ RowsKept /\ PendKept /\ NoClaims /\ NoNewAdmin /\ \A pc, u : MailsKept(pc, u)
           /\ EnabledAdmins(db') = EnabledAdmins(db) /\ Rows(db') = Rows(db)
<1>1. Rows(db') = Rows(db) /\ Rows(db) \subseteq Accounts
  BY DEF Rows
<1>2. EnabledAdmins(db') = EnabledAdmins(db)
  BY <1>1 DEF EnabledAdmins, IsEnabledAdmin
<1>3. RowsKept /\ NoClaims /\ NoNewAdmin /\ \A pc, u : MailsKept(pc, u)
  BY <1>1 DEF RowsKept, NoClaims, NoNewAdmin, MailsKept, AdminExists
<1>4. PendKept
  BY DEF PendKept, Pended
<1> QED BY <1>1, <1>2, <1>3, <1>4

LEMMA LinksMeanwhile ==
    ASSUME RequestInv, UNCHANGED <<chals, mu, call, scene>>, Charged, NEW gs, Links(db, db', gs), Len(gs) = Len(db.grants),
           \A i \in 1..Len(db.grants) :
             /\ gs[i].user = db.grants[i].user /\ gs[i].reason = db.grants[i].reason
             /\ gs[i].replaces = db.grants[i].replaces /\ gs[i].to = db.grants[i].to /\ gs[i].upto = db.grants[i].upto
             /\ gs[i].st = db.grants[i].st \/ gs[i].st = "gone"
    PROVE  Meanwhile
BY SameRows DEF Links, Meanwhile

LEMMA UsersMeanwhile ==
    ASSUME RequestInv, UNCHANGED <<chals, mu, call, scene>>, Charged, Apart(db, db'), db'.mails = db.mails,
           \A v \in Accounts :
               /\ db'.users[v].life = db.users[v].life /\ db'.users[v].email = db.users[v].email
               /\ db'.users[v].role = db.users[v].role /\ db'.users[v].dis = db.users[v].dis
               /\ db'.users[v].sub = db.users[v].sub /\ db'.users[v].by = db.users[v].by
               /\ db'.users[v].plive => db'.users[v] = db.users[v]
    PROVE  Meanwhile
BY PendingGoes DEF Apart, Meanwhile

LEMMA AsideMeanwhile ==
    ASSUME RequestInv, UNCHANGED <<chals, mu, call, scene>>, Charged, Aside(db, db')
    PROVE  Meanwhile
BY SameRows DEF Aside, Apart, Meanwhile

LEMMA ExpireDoes ==
    ASSUME RequestInv, Expire
    PROVE  Meanwhile
<1>0. db \in Tables /\ UNCHANGED <<chals, mu, call, scene>> /\ Charged
  BY SpentFault DEF RequestInv, TypeOK, Expire, Fault
<1>1. ASSUME NEW i \in 1..Len(db.grants), ExpireGrant(i) PROVE Meanwhile
  <2> DEFINE g == [db.grants[i] EXCEPT !.live = FALSE]
             gs == [db.grants EXCEPT ![i] = g]
  <2>1. g \in Grant /\ Links(db, db', gs)
    BY <1>0, <1>1, ExpireGrantDoes DEF ExpireGrant
  <2>2. db.grants \in Seq(Grant) /\ db.grants[i] \in Grant
    BY <1>0, TablesFields
  <2>3. /\ g.user = db.grants[i].user /\ g.reason = db.grants[i].reason /\ g.replaces = db.grants[i].replaces
        /\ g.to = db.grants[i].to /\ g.upto = db.grants[i].upto /\ g.st = db.grants[i].st
    BY <2>2 DEF Grant
  <2> HIDE DEF g
  <2>4. Len(gs) = Len(db.grants) /\ gs[i] = g /\ \A j \in 1..Len(db.grants) : j # i => gs[j] = db.grants[j]
    BY <2>1, <2>2, <2>3, GrantEdited
  <2> HIDE DEF gs
  <2> QED BY <1>0, <2>1, <2>3, <2>4, LinksMeanwhile
<1>2. ASSUME NEW u \in Accounts, ExpirePending(u) PROVE Meanwhile
  <2> DEFINE r == [db.users[u] EXCEPT !.plive = FALSE]
  <2>1. Rewrites(db, db', u, r)
    BY <1>0, <1>2, ExpirePendingDoes DEF ExpirePending
  <2>2. db.users \in [Accounts -> User] /\ db.users[u] \in User
    BY <1>0, TablesFields
  <2>3. /\ r.life = db.users[u].life /\ r.sub = db.users[u].sub /\ r.email = db.users[u].email /\ r.role = db.users[u].role
        /\ ~r.plive /\ r.dis = db.users[u].dis /\ r.by = db.users[u].by
    BY <2>2 DEF User
  <2> HIDE DEF r
  <2>4. \A v \in Accounts : db'.users[v] = IF v = u THEN r ELSE db.users[v]
    BY <2>1, <2>2 DEF Rewrites
  <2>5. Apart(db, db') /\ db'.mails = db.mails
    BY <2>1 DEF Rewrites
  <2> QED BY <1>0, <2>3, <2>4, <2>5, UsersMeanwhile
<1>3. ASSUME NEW i \in 1..Len(db.sessions), ExpireSession(i) PROVE Meanwhile
  <2>1. Aside(db, db')
    BY <1>0, <1>3, SessionsLive, Zenon DEF ExpireSession
  <2> QED BY <1>0, <2>1, AsideMeanwhile
<1> QED BY <1>1, <1>2, <1>3 DEF Expire

LEMMA PruneDoes ==
    ASSUME RequestInv, Prune
    PROVE  Meanwhile
<1>0. db \in Tables /\ UNCHANGED <<chals, mu, call, scene>> /\ Charged
  BY ChargedSame DEF RequestInv, TypeOK, Prune
<1>1. CASE db' = PruneSessions(db)
  BY <1>0, <1>1, SessionsEnd, AsideMeanwhile
<1>2. CASE db' = PruneGrants(db)
  <2> DEFINE gone == {i \in 1..Len(db.grants) : ~db.grants[i].live}
             gs == Without(db.grants, gone)
  <2>1. Links(db, db', gs)
    BY <1>0, <1>2, PruneGrantsDoes
  <2>2. db.grants \in Seq(Grant)
    BY <1>0, TablesFields
  <2> HIDE DEF gone
  <2>3. /\ Len(gs) = Len(db.grants)
        /\ \A i \in 1..Len(db.grants) :
             /\ gs[i].user = db.grants[i].user /\ gs[i].reason = db.grants[i].reason
             /\ gs[i].replaces = db.grants[i].replaces /\ gs[i].to = db.grants[i].to /\ gs[i].upto = db.grants[i].upto
             /\ gs[i].st = db.grants[i].st \/ gs[i].st = "gone"
    BY <2>2, WithoutGrants
  <2> HIDE DEF gs
  <2> QED BY <1>0, <2>1, <2>3, LinksMeanwhile
<1>3. CASE db' = ClearExpiredPendingEmails(db)
  <2>1. /\ Apart(db, db') /\ db'.mails = db.mails
        /\ db'.users = [u \in Accounts |-> IF db.users[u].plive THEN db.users[u] ELSE Unpended(db.users[u])]
    BY <1>0, <1>3, ClearExpiredDoes
  <2>2. \A v \in Accounts : db.users[v] \in User
    BY <1>0, TablesFields
  <2>3. \A v \in Accounts :
               /\ db'.users[v].life = db.users[v].life /\ db'.users[v].email = db.users[v].email
               /\ db'.users[v].role = db.users[v].role /\ db'.users[v].dis = db.users[v].dis
               /\ db'.users[v].sub = db.users[v].sub /\ db'.users[v].by = db.users[v].by
               /\ db'.users[v].plive => db'.users[v] = db.users[v]
    BY <2>1, <2>2, UserFields
  <2> QED BY <1>0, <2>1, <2>3, UsersMeanwhile
<1> QED BY <1>1, <1>2, <1>3 DEF Prune
-----------------------------------------------------------------------------
(* The requests *)

\* What is left, besides moving on and writing an account.
Busy(p) ==
    \/ DeleteTarget(p) \/ ApplyChanged(p) \/ SetHandle(p) \/ PersistCredential(p) \/ Remove(p) \/ RevokeAll(p)
    \/ IssueInvite(p) \/ RecoverMint(p) \/ ReplaceLock(p) \/ ReplaceDelete(p) \/ ReplaceMint(p)
    \/ RecipientAfterMint(p) \/ Deliver(p) \/ ConsumeGrant(p) \/ RevokeOld(p) \/ ConsumeBootstrap(p) \/ CreateAdmin(p)
    \/ Fail(p)

LEMMA StepsAre ==
    ASSUME RequestInv, Next
    PROVE  \/ \E p \in Procs : Calm(p) \/ AccountWrite(p) \/ (Busy(p) /\ ~Calm(p))
           \/ Restart \/ Expire \/ Prune
<1>1. ASSUME NEW p \in Procs, AccountStep(p) PROVE Calm(p) \/ AccountWrite(p) \/ Busy(p)
  BY <1>1, AuthenticationCalm, SessionStepsCalm, HandlersCalm, LookupsCalm, FindersCalm, GuardsCalm, InviteCalm,
     FindEmailCalm, UnsentCalm, AccountSteps DEF AccountStep, Busy
<1>2. ASSUME NEW p \in Procs, RegistrationStep(p) PROVE Calm(p) \/ AccountWrite(p) \/ Busy(p)
  BY <1>2, LookupsCalm, FindersCalm, ClassifyCalm, GivesCalm, ClaimChallengeCalm, VerifyCalm, FinishersCalm
     DEF RegistrationStep, Busy
<1>3. ASSUME NEW p \in Procs, Arrive(p) \/ Fail(p) PROVE Calm(p) \/ AccountWrite(p) \/ Busy(p)
  BY <1>3, ArriveCalm DEF Busy
<1> QED BY <1>1, <1>2, <1>3 DEF Next, CallStep

LEMMA RequestKept ==
    ASSUME RequestInv, NEW p \in Procs, NEW c, call' = [call EXCEPT ![p] = c], Fits(c), Names(c, db'.grants, chals'),
           db' \in Tables, GrownGrants(db.grants, db'.grants), Later, Charged, scene' = scene,
           \/ mu' = mu /\ (c.pc \in {"replace", "mint"} <=> call[p].pc \in {"replace", "mint"})
           \/ mu = Nobody /\ mu' = p /\ c.pc = "replace"
           \/ mu' = Unlocked(p) /\ c.pc \notin {"replace", "mint"}
    PROVE  RequestInv'
<1>0. /\ call \in [Procs -> Call] /\ Mutex /\ mu \in Procs \cup {Nobody} /\ Nobody \notin Procs /\ scene \in DOMAIN Scenes
      /\ db \in Tables /\ chals \in Seq(Challenge)
      /\ \A q \in Procs : call[q] \in Call /\ Fits(call[q]) /\ Names(call[q], db.grants, chals)
  BY SceneAssumption DEF RequestInv, TypeOK
<1>1. call' \in [Procs -> Call] /\ call'[p] = c /\ \A q \in Procs : q # p => call'[q] = call[q]
  <2>1. c \in Call
    BY DEF Fits
  <2> QED BY <1>0, <2>1
<1>2. \A q \in Procs : Fits(call'[q]) /\ Names(call'[q], db'.grants, chals')
  <2> TAKE q \in Procs
  <2>1. CASE q = p
    BY <1>1, <2>1
  <2>2. CASE q # p
    <3>1. Names(call[q], db'.grants, chals')
      BY <1>0, TablesFields, NamesGrow DEF Later
    <3> QED BY <1>0, <1>1, <2>2, <3>1
  <2> QED BY <2>1, <2>2
<1>3. Mutex' /\ mu' \in Procs \cup {Nobody}
  <2>1. CASE mu' = mu /\ (c.pc \in {"replace", "mint"} <=> call[p].pc \in {"replace", "mint"})
    BY <1>0, <1>1, <2>1 DEF Mutex
  <2>2. CASE mu = Nobody /\ mu' = p /\ c.pc = "replace"
    BY <1>0, <1>1, <2>2 DEF Mutex
  <2>3. CASE mu' = Unlocked(p) /\ c.pc \notin {"replace", "mint"}
    <3>1. CASE mu = p
      BY <1>0, <1>1, <2>3, <3>1 DEF Mutex, Unlocked
    <3>2. CASE mu # p
      BY <1>0, <1>1, <2>3, <3>2 DEF Mutex, Unlocked
    <3> QED BY <3>1, <3>2
  <2> QED BY <2>1, <2>2, <2>3
<1>4. spent' \in [calls : 0..S'.calls, faults : 0..S'.faults]
  BY DEF Charged, S
<1>5. mu' # Nobody => call'[mu'].pc \in {"replace", "mint"}
  BY <1>3 DEF Mutex
<1>6. chals' \in Seq(Challenge)
  BY DEF Later
<1>7. TypeOK'
  BY <1>1, <1>3, <1>4, <1>5, <1>6 DEF TypeOK
<1> QED BY <1>0, <1>2, <1>3, <1>7 DEF RequestInv

LEMMA GoesKeeps ==
    ASSUME RequestInv, NEW p \in Procs, NEW pc, NEW u, Goes(p, pc, u), db' \in Tables, GrownGrants(db.grants, db'.grants),
           pc \notin {"replace", "mint"}, call[p].pc \notin {"replace", "mint"}
    PROVE  RequestInv'
<1>1. PICK c : Onward(p, c) /\ c.pc = pc
  BY DEF Goes
<1> QED BY <1>1, RequestKept, ChargedSame DEF Onward, Turned, Goes

LEMMA ProceedsKeeps ==
    ASSUME RequestInv, NEW p \in Procs, NEW pc, Proceeds(p, pc), db' \in Tables, GrownGrants(db.grants, db'.grants),
           pc \in {"replace", "mint"} <=> call[p].pc \in {"replace", "mint"}
    PROVE  RequestInv'
<1>1. PICK c : Onward(p, c) /\ c.pc = pc
  BY DEF Proceeds
<1> QED BY <1>1, RequestKept, ChargedSame DEF Onward, Turned, Proceeds

LEMMA LinksGrow == ASSUME NEW d \in Tables, NEW e, NEW gs, Links(d, e, gs), GrownGrants(d.grants, gs)
                   PROVE  e \in Tables /\ GrownGrants(d.grants, e.grants)
BY DEF Links

LEMMA KeysGrow == ASSUME NEW d \in Tables, NEW e, NEW cs, Keys(d, e, cs) PROVE e \in Tables /\ GrownGrants(d.grants, e.grants)
BY TablesFields, GrownSame DEF Keys

LEMMA BusyKeeps ==
    ASSUME RequestInv, NEW p \in Procs, Busy(p), ~Calm(p)
    PROVE  RequestInv'
<1>0. db \in Tables /\ db.grants \in Seq(Grant) /\ GrownGrants(db.grants, db.grants)
  BY InvFacts, TablesFields, GrownSame
<1>1. CASE DeleteTarget(p)
  <2>1. Goes(p, "idle", call[p].tgt) /\ call[p].tgt \in Accounts /\ db' = DeleteUser(db, call[p].tgt)
    BY <1>1, DeleteTargetDoes, RowOf
  <2>5. DeleteUser(db, call[p].tgt) \in Tables /\ DeleteUser(db, call[p].tgt).grants = Without(db.grants, Of(db.grants, call[p].tgt))
    BY <1>0, <2>1, DeleteUserDoes
  <2>6. \A X : GrownGrants(db.grants, Without(db.grants, X))
    BY <1>0, WithoutGrown
  <2>2. db' \in Tables /\ GrownGrants(db.grants, db'.grants)
    BY <2>1, <2>5, <2>6
  <2>3. call[p].pc = "delete"
    BY <1>1 DEF DeleteTarget, At
  <2> QED BY <2>1, <2>2, <2>3, GoesKeeps
<1>2. CASE ApplyChanged(p)
  <2>1. /\ Goes(p, "new_session", call[p].tgt) \/ Goes(p, "idle", call[p].tgt)
        /\ db' = DeleteUnusedByUser(db, call[p].tgt) /\ call[p].pc = "drop"
    BY <1>2, ApplyChangedDoes
  <2>2. db' \in Tables /\ GrownGrants(db.grants, db'.grants)
    BY <1>0, <2>1, DeleteUnusedDoes, WithoutGrown DEF Links
  <2> QED BY <2>1, <2>2, GoesKeeps
<1>3. CASE SetHandle(p)
  <2>1. PICK h \in Nat : /\ Proceeds(p, "create_cred") /\ call[p].pc = "set_handle"
                         /\ Rewrites(db, db', call[p].tgt, [db.users[call[p].tgt] EXCEPT !.handle = h])
    BY <1>3, SetHandleStepDoes
  <2>2. db' \in Tables /\ GrownGrants(db.grants, db'.grants)
    BY <1>0, <2>1 DEF Rewrites, Apart
  <2> QED BY <2>1, <2>2, ProceedsKeeps
<1>4. CASE PersistCredential(p)
  <2>1. /\ Goes(p, "idle", call[p].tgt) \/ Goes(p, "new_session", call[p].tgt)
        /\ call[p].pc = "create_cred" /\ \E cs : Keys(db, db', cs)
    BY <1>4, PersistDoes
  <2>2. db' \in Tables /\ GrownGrants(db.grants, db'.grants)
    BY <1>0, <2>1 DEF Keys
  <2> QED BY <2>1, <2>2, GoesKeeps
<1>5. CASE Remove(p) \/ RevokeAll(p)
  <2>1. /\ Goes(p, "idle", call[p].tgt) \/ Goes(p, "lock", call[p].tgt)
        /\ call[p].pc \in {"remove", "revoke_all"} /\ \E cs : Keys(db, db', cs)
    BY <1>5, CredsDeletedDo
  <2>2. db' \in Tables /\ GrownGrants(db.grants, db'.grants)
    BY <1>0, <2>1 DEF Keys
  <2> QED BY <2>1, <2>2, GoesKeeps
<1>6. CASE IssueInvite(p) \/ RecoverMint(p)
  <2>1. PICK c : Later /\ Onward(p, c) /\ c.pc = "deliver" /\ call[p].pc \notin DuePcs
    BY <1>6, IssueDoes
  <2>2. \E g \in Grant : Links(db, db', Append(db.grants, g))
    BY <1>6, IssueDoes
  <2>3. db' \in Tables /\ GrownGrants(db.grants, db'.grants)
    BY <1>0, <2>2, AppendGrown DEF Links
  <2> QED BY <2>1, <2>3, RequestKept, ChargedSame DEF Onward, Turned, DuePcs
<1>7. CASE ReplaceLock(p)
  <2>1. PICK c : Turned(p, c) /\ c.pc = "replace"
    BY <1>7, ReplaceLockDoes
  <2>2. mu = Nobody /\ mu' = p /\ Later /\ UNCHANGED <<db, spent, scene>>
    BY <1>7, ReplaceLockDoes
  <2> QED BY <1>0, <2>1, <2>2, RequestKept, ChargedSame DEF Turned
<1>8. CASE ReplaceDelete(p)
  <2>1. Proceeds(p, "mint") /\ db' = DeleteUnusedByUser(db, call[p].tgt) /\ call[p].pc = "replace"
    BY <1>8, ReplaceDeleteDoes
  <2>2. db' \in Tables /\ GrownGrants(db.grants, db'.grants)
    BY <1>0, <2>1, DeleteUnusedDoes, WithoutGrown DEF Links
  <2> QED BY <2>1, <2>2, ProceedsKeeps
<1>9. CASE ReplaceMint(p)
  <2>1. call[p].pc = "mint" /\ mu = p /\ mu' = Nobody /\ Later /\ UNCHANGED <<spent, scene>>
    BY <1>9, ReplaceMintDoes
  <2>2. PICK c : Turned(p, c) /\ c.pc \in {"idle", "recipient"}
    BY <1>9, ReplaceMintDoes
  <2>3. db' = db \/ \E g \in Grant : Links(db, db', Append(db.grants, g))
    BY <1>9, ReplaceMintDoes
  <2>4. db' \in Tables /\ GrownGrants(db.grants, db'.grants)
    BY <1>0, <2>3, AppendGrown DEF Links
  <2>5. mu' = Unlocked(p)
    BY <2>1 DEF Unlocked
  <2> QED BY <2>1, <2>2, <2>4, <2>5, RequestKept, ChargedSame DEF Turned
<1>10. CASE RecipientAfterMint(p)
  <2>1. PICK c : Onward(p, c) /\ c.pc = "deliver"
    BY <1>10, RecipientDoes
  <2>2. db' = db /\ Later /\ call[p].pc = "recipient"
    BY <1>10, RecipientDoes
  <2> QED BY <1>0, <2>1, <2>2, RequestKept, ChargedSame DEF Onward, Turned
<1>11. CASE Deliver(p)
  <2>1. Goes(p, "idle", call[p].tgt) /\ call[p].pc = "deliver" /\ call[p].tok \in 1..Len(db.grants)
    BY <1>11, DeliverStepDoes
  <2> DEFINE g == [db.grants[call[p].tok] EXCEPT !.to = call[p].row.email]
  <2>2. g \in Grant /\ Links(db, db', [db.grants EXCEPT ![call[p].tok] = g])
    BY <1>11, DeliverStepDoes
  <2>3. g.user = db.grants[call[p].tok].user
    <3>1. db.grants[call[p].tok] \in Grant
      BY <1>0, <2>1
    <3> QED BY <3>1 DEF Grant
  <2> HIDE DEF g
  <2>4. db' \in Tables /\ GrownGrants(db.grants, db'.grants)
    BY <1>0, <2>1, <2>2, <2>3, GrantEdited DEF Links
  <2> QED BY <2>1, <2>4, GoesKeeps
<1>12. CASE ConsumeGrant(p)
  <2>1. PICK pc \in {"revoke_old", "set_handle"} : Proceeds(p, pc)
    BY <1>12, ConsumeGrantDoes
  <2> DEFINE g == UsedUp(db.grants[call[p].tok], Len(db.creds))
  <2>2. call[p].pc = "consume" /\ call[p].tok \in 1..Len(db.grants) /\ g \in Grant
        /\ Links(db, db', [db.grants EXCEPT ![call[p].tok] = g])
    BY <1>12, ConsumeGrantDoes
  <2>3. g.user = db.grants[call[p].tok].user
    <3>1. db.grants[call[p].tok] \in Grant
      BY <1>0, <2>2
    <3> QED BY <3>1 DEF Grant, UsedUp
  <2> HIDE DEF g
  <2>4. db' \in Tables /\ GrownGrants(db.grants, db'.grants)
    BY <1>0, <2>2, <2>3, GrantEdited DEF Links
  <2> QED BY <2>1, <2>2, <2>4, ProceedsKeeps
<1>13. CASE RevokeOld(p)
  <2>1. Proceeds(p, "set_handle") /\ call[p].pc = "revoke_old" /\ \E cs : Keys(db, db', cs)
    BY <1>13, RevokeOldDoes
  <2>2. db' \in Tables /\ GrownGrants(db.grants, db'.grants)
    BY <1>0, <2>1 DEF Keys
  <2> QED BY <2>1, <2>2, ProceedsKeeps
<1>14. CASE ConsumeBootstrap(p)
  <2>1. Proceeds(p, "create_admin") /\ call[p].pc = "consume_boot" /\ db' = ConsumeBoot(db)
    BY <1>14, ConsumeBootstrapDoes
  <2>2. db' \in Tables /\ GrownGrants(db.grants, db'.grants)
    BY <1>0, <2>1, ConsumeBootDoes
  <2> QED BY <2>1, <2>2, ProceedsKeeps
<1>15. CASE CreateAdmin(p)
  <2>1. call[p].pc = "create_admin" /\ Later
    BY <1>15, CreateAdminDoes
  <2>2. CASE Goes(p, "idle", call[p].tgt) /\ db' = db
    BY <1>0, <2>1, <2>2, GoesKeeps
  <2>3. CASE ~(Goes(p, "idle", call[p].tgt) /\ db' = db)
    <3>1. PICK c : Onward(p, c) /\ c.pc = "set_handle"
      BY <1>15, <2>3, CreateAdminDoes
    <3>2. \E a : Arrives(p, a, "admin", Nobody, "claim")
      BY <1>15, <2>3, CreateAdminDoes
    <3>3. db' \in Tables /\ GrownGrants(db.grants, db'.grants)
      BY <1>0, <3>2 DEF Arrives, Rewrites, Apart
    <3> QED BY <2>1, <3>1, <3>3, RequestKept, ChargedSame DEF Onward, Turned
  <2> QED BY <2>2, <2>3
<1>16. CASE Fail(p)
  <2>1. PICK c : Turned(p, c) /\ c.pc \in {"idle", "new_session"}
    BY <1>16, FailDoes
  <2>2. db' = db /\ Later /\ Charged /\ mu' = Unlocked(p) /\ scene' = scene
    BY <1>16, FailDoes
  <2> QED BY <1>0, <2>1, <2>2, RequestKept DEF Turned
<1> QED BY <1>1, <1>2, <1>3, <1>4, <1>5, <1>6, <1>7, <1>8, <1>9, <1>10, <1>11, <1>12, <1>13, <1>14, <1>15, <1>16 DEF Busy

LEMMA RequestInvNext ==
    ASSUME RequestInv, [Next]_vars
    PROVE  RequestInv'
<1>0. db \in Tables /\ db.grants \in Seq(Grant) /\ GrownGrants(db.grants, db.grants) /\ chals \in Seq(Challenge)
      /\ scene \in DOMAIN Scenes
      /\ \A q \in Procs : call[q] \in Call /\ Fits(call[q]) /\ Names(call[q], db.grants, chals)
  BY TablesFields, GrownSame DEF RequestInv, TypeOK
<1>1. ASSUME NEW p \in Procs, Calm(p) PROVE RequestInv'
  <2>1. PICK c : call' = [call EXCEPT ![p] = c] /\ Fits(c) /\ Names(c, db.grants, chals') /\ Settled(c)
    BY <1>1 DEF Calm
  <2>2. Later /\ Charged /\ UNCHANGED <<mu, scene>> /\ call[p].pc \notin DuePcs /\ db' \in Tables /\ db'.grants = db.grants
    BY <1>1 DEF Calm, Aside, Apart
  <2>3. c.pc \notin {"replace", "mint"} /\ call[p].pc \notin {"replace", "mint"}
    BY <2>1, <2>2 DEF Settled, QuietPcs, PlainPcs, DuePcs
  <2> QED BY <1>0, <2>1, <2>2, <2>3, RequestKept
<1>2. ASSUME NEW p \in Procs, AccountWrite(p) PROVE RequestInv'
  <2>1. PICK pc, u : Goes(p, pc, u) /\ pc \in PlainPcs \cup {"set_dis", "drop"}
    BY <1>2 DEF AccountWrite
  <2>2. call[p].pc \notin DuePcs /\ db' \in Tables /\ db'.grants = db.grants
    BY <1>2 DEF AccountWrite, Apart
  <2>3. pc \notin {"replace", "mint"} /\ call[p].pc \notin {"replace", "mint"}
    BY <2>1, <2>2 DEF PlainPcs, DuePcs
  <2> QED BY <1>0, <2>1, <2>2, <2>3, GoesKeeps
<1>3. ASSUME Restart PROVE RequestInv'
  <2>1. /\ call' = [p \in Procs |-> NoCall] /\ mu' = Nobody /\ scene' = scene /\ Later /\ Charged
        /\ db' = db \/ (~AdminExists(db) /\ db' = SetTokenHash(db))
    BY <1>3, RestartDoes
  <2>2. db' \in Tables
    BY <1>0, <2>1, SetTokenDoes
  <2>3. NoCall.pc = "idle"
    BY DEF NoCall
  <2>4. NoCall \in Call /\ Fits(NoCall) /\ Names(NoCall, db'.grants, chals')
    BY NoCallFits
  <2> HIDE DEF NoCall
  <2>5. Mutex'
    BY <2>1, <2>3, SceneAssumption DEF Mutex
  <2>6. TypeOK'
    BY <2>1, <2>2, <2>4 DEF TypeOK, Later, Charged, S
  <2> QED BY <1>0, <2>1, <2>4, <2>5, <2>6 DEF RequestInv
<1>4. ASSUME Meanwhile PROVE RequestInv'
  <2>1. GrownGrants(db.grants, db'.grants) /\ db' \in Tables /\ UNCHANGED <<chals, mu, call, scene>> /\ Charged
    BY <1>0, <1>4 DEF Meanwhile, GrownGrants
  <2>2. \A q \in Procs : Names(call[q], db'.grants, chals)
    BY <1>0, <2>1, NamesGrow, ChalsSame
  <2>3. TypeOK'
    BY <2>1 DEF TypeOK, RequestInv, Charged, S
  <2> QED BY <1>0, <2>1, <2>2, <2>3 DEF RequestInv, Mutex
<1>5. CASE UNCHANGED vars
  BY <1>5 DEF RequestInv, TypeOK, Mutex, vars, S
<1> QED BY <1>1, <1>2, <1>3, <1>4, <1>5, StepsAre, BusyKeeps, ExpireDoes, PruneDoes

LEMMA InitFacts ==
    ASSUME Init
    PROVE  /\ scene \in DOMAIN Scenes /\ db \in Tables /\ Consistent(db) /\ chals \in Seq(Challenge)
           /\ call = [p \in Procs |-> NoCall] /\ spent = [calls |-> 0, faults |-> 0] /\ mu = Nobody
           /\ S.calls \in Nat /\ S.faults \in Nat
BY SceneAssumption DEF Init, S

LEMMA RequestInvInit == ASSUME Init PROVE RequestInv
<1>1. /\ scene \in DOMAIN Scenes /\ db \in Tables /\ chals \in Seq(Challenge)
      /\ call = [p \in Procs |-> NoCall] /\ spent = [calls |-> 0, faults |-> 0] /\ mu = Nobody
      /\ S.calls \in Nat /\ S.faults \in Nat
  BY InitFacts
<1>2. NoCall.pc = "idle"
  BY DEF NoCall
<1>3. NoCall \in Call /\ Fits(NoCall) /\ Names(NoCall, db.grants, chals)
  BY NoCallFits
<1> HIDE DEF NoCall
<1>4. Mutex
  BY <1>1, <1>2, SceneAssumption DEF Mutex
<1>5. TypeOK
  BY <1>1, <1>3 DEF TypeOK
<1> QED BY <1>1, <1>3, <1>4, <1>5 DEF RequestInv

LEMMA RequestInvAlways == Spec => []RequestInv
<1>1. Init => RequestInv
  BY RequestInvInit
<1>2. RequestInv /\ [Next]_vars => RequestInv'
  BY RequestInvNext
<1> QED BY <1>1, <1>2, PTL DEF Spec

(***************************************************************************)
(* Tables, challenges and requests stay well formed, and replaceMu is held *)
(* only by a request between its delete and its mint, however requests,    *)
(* failures and restarts interleave (ReissueInvite, IssueRecovery).        *)
(***************************************************************************)
THEOREM RegistrationTypeCorrect == Spec => []TypeOK
<1>1. RequestInv => TypeOK
  BY DEF RequestInv
<1> QED BY <1>1, RequestInvAlways, PTL
-----------------------------------------------------------------------------
(* What the other steps do to accounts *)

\* Accounts keep who and what they are.
RowsSteady ==
    /\ RowsKept /\ PendKept /\ NoClaims /\ NoNewAdmin /\ \A pc, u : MailsKept(pc, u)
    /\ EnabledAdmins(db) \subseteq EnabledAdmins(db') /\ Rows(db') = Rows(db)

LEMMA SteadyRows == ASSUME RequestInv, db'.users = db.users, db'.mails = db.mails PROVE RowsSteady
BY SameRows DEF RowsSteady

LEMMA CalmSteady == ASSUME RequestInv, NEW p \in Procs, Calm(p) PROVE RowsSteady /\ db'.boot = db.boot /\ db'.grants = db.grants
BY SteadyRows DEF Calm, Aside, Apart

LEMMA MeanwhileSteady == ASSUME Meanwhile PROVE RowsSteady
BY DEF Meanwhile, RowsSteady

LEMMA RestartSteady == ASSUME RequestInv, Restart PROVE RowsSteady
<1>1. db' = db \/ db' = SetTokenHash(db)
  BY RestartDoes
<1>2. db \in Tables
  BY DEF RequestInv, TypeOK
<1>3. db'.users = db.users /\ db'.mails = db.mails
  BY <1>1, <1>2, SetTokenDoes
<1> QED BY <1>3, SteadyRows

LEMMA HandleSteady == ASSUME RequestInv, NEW p \in Procs, SetHandle(p), ~Calm(p) PROVE RowsSteady /\ db'.boot = db.boot
<1>1. PICK h \in Nat : call[p].tgt \in Rows(db) /\ Rewrites(db, db', call[p].tgt, [db.users[call[p].tgt] EXCEPT !.handle = h])
  BY SetHandleStepDoes
<1> DEFINE u == call[p].tgt
           r == [db.users[u] EXCEPT !.handle = h]
<1>2. u \in Accounts /\ db.users[u] \in User
  BY <1>1, RowOf
<1>3. /\ r.life = db.users[u].life /\ r.email = db.users[u].email /\ r.role = db.users[u].role /\ r.dis = db.users[u].dis
      /\ r.sub = db.users[u].sub /\ r.by = db.users[u].by
      /\ r.plive = db.users[u].plive /\ r.ptok = db.users[u].ptok /\ r.pend = db.users[u].pend
  BY <1>2 DEF User
<1>4. Rewrites(db, db', u, r)
  BY <1>1
<1> HIDE DEF r, u
<1>5. RowsKept /\ PendKept /\ \A v \in Accounts : db'.users[v] = IF v = u THEN r ELSE db.users[v]
  BY <1>2, <1>3, <1>4, RowWrite
<1>6. NoClaims /\ NoNewAdmin
  BY <1>2, <1>3, <1>5, SameStanding
<1>7. EnabledAdmins(db) \subseteq EnabledAdmins(db') /\ Rows(db') = Rows(db)
  BY <1>3, <1>5 DEF EnabledAdmins, Rows, IsEnabledAdmin
<1>8. \A pc, w : MailsKept(pc, w)
  BY <1>3, <1>5 DEF MailsKept, Rows
<1> QED BY <1>4, <1>5, <1>6, <1>7, <1>8 DEF RowsSteady, Rewrites, Apart

LEMMA BusySteady ==
    ASSUME RequestInv, NEW p \in Procs, Busy(p), ~Calm(p), ~DeleteTarget(p), ~CreateAdmin(p)
    PROVE  RowsSteady /\ (ConsumeBootstrap(p) \/ db'.boot = db.boot)
<1>0. db \in Tables
  BY DEF RequestInv, TypeOK
<1>1. CASE SetHandle(p)
  BY <1>1, HandleSteady
<1>2. CASE ApplyChanged(p) \/ ReplaceDelete(p)
  <2>1. db' = DeleteUnusedByUser(db, call[p].tgt)
    BY <1>2, ApplyChangedDoes, ReplaceDeleteDoes
  <2>2. db'.users = db.users /\ db'.mails = db.mails /\ db'.boot = db.boot
    BY <1>0, <2>1, DeleteUnusedDoes DEF Links
  <2> QED BY <2>2, SteadyRows
<1>3. CASE PersistCredential(p) \/ Remove(p) \/ RevokeAll(p) \/ RevokeOld(p)
  <2>1. \E cs : Keys(db, db', cs)
    BY <1>3, PersistDoes, CredsDeletedDo, RevokeOldDoes
  <2>2. db'.users = db.users /\ db'.mails = db.mails /\ db'.boot = db.boot
    BY <2>1 DEF Keys
  <2> QED BY <2>2, SteadyRows
<1>4. CASE ReplaceLock(p) \/ RecipientAfterMint(p) \/ Fail(p)
  <2>1. db' = db
    BY <1>4, ReplaceLockDoes, RecipientDoes, FailDoes
  <2> QED BY <2>1, SteadyRows
<1>5. CASE IssueInvite(p) \/ RecoverMint(p) \/ ReplaceMint(p) \/ Deliver(p) \/ ConsumeGrant(p)
  <2>1. db' = db \/ \E gs : Links(db, db', gs)
    BY <1>5, IssueDoes, ReplaceMintDoes, DeliverStepDoes, ConsumeGrantDoes
  <2>2. db'.users = db.users /\ db'.mails = db.mails /\ db'.boot = db.boot
    BY <2>1 DEF Links
  <2> QED BY <2>2, SteadyRows
<1>6. CASE ConsumeBootstrap(p)
  <2>1. db' = ConsumeBoot(db)
    BY <1>6, ConsumeBootstrapDoes
  <2>2. db'.users = db.users /\ db'.mails = db.mails
    BY <1>0, <2>1, ConsumeBootDoes
  <2> QED BY <1>6, <2>2, SteadyRows
<1> QED BY <1>1, <1>2, <1>3, <1>4, <1>5, <1>6 DEF Busy

\* One request moves, to where no change of address begins.
LEMMA BusyMoves ==
    ASSUME RequestInv, NEW p \in Procs, Busy(p), ~Calm(p)
    PROVE  /\ call[p].pc # "confirm" \/ Fail(p)
           /\ \E c : /\ call' = [call EXCEPT ![p] = c] /\ c.pc # "drop"
                     /\ Authority(c) => Authority(call[p])
                     /\ c.pc = "create_admin" => ConsumeBootstrap(p)
<1>1. CASE ReplaceLock(p) \/ ReplaceMint(p) \/ Fail(p)
  <2>1. \E c : Turned(p, c) /\ c.pc \in {"replace", "idle", "recipient", "new_session"}
    BY <1>1, ReplaceLockDoes, ReplaceMintDoes, FailDoes
  <2>2. call[p].pc # "confirm" \/ Fail(p)
    BY <1>1, ReplaceLockDoes, ReplaceMintDoes
  <2> QED BY <2>1, <2>2 DEF Turned
<1>2. CASE DeleteTarget(p) \/ ApplyChanged(p) \/ PersistCredential(p) \/ Remove(p) \/ RevokeAll(p) \/ Deliver(p)
  <2>1. \E pc \in {"idle", "new_session", "lock"} : Goes(p, pc, call[p].tgt)
    BY <1>2, DeleteTargetDoes, ApplyChangedDoes, PersistDoes, CredsDeletedDo, DeliverStepDoes
  <2>2. call[p].pc \in {"delete", "drop", "create_cred", "remove", "revoke_all", "deliver"}
    BY <1>2 DEF DeleteTarget, ApplyChanged, PersistCredential, Remove, RevokeAll, Deliver, At
  <2> QED BY <2>1, <2>2 DEF Goes, Onward, Turned
<1>3. CASE SetHandle(p) \/ ReplaceDelete(p) \/ ConsumeGrant(p) \/ RevokeOld(p)
  <2>1. \E pc \in {"create_cred", "mint", "revoke_old", "set_handle"} : Proceeds(p, pc)
    BY <1>3, SetHandleStepDoes, ReplaceDeleteDoes, ConsumeGrantDoes, RevokeOldDoes
  <2>2. call[p].pc \in {"set_handle", "replace", "consume", "revoke_old"}
    BY <1>3 DEF SetHandle, ReplaceDelete, ConsumeGrant, RevokeOld, At
  <2> QED BY <2>1, <2>2 DEF Proceeds, Onward, Turned
<1>4. CASE ConsumeBootstrap(p)
  <2>1. Proceeds(p, "create_admin") /\ call[p].pc = "consume_boot"
    BY <1>4, ConsumeBootstrapDoes
  <2> QED BY <1>4, <2>1 DEF Proceeds, Onward, Turned
<1>5. CASE IssueInvite(p) \/ RecoverMint(p) \/ RecipientAfterMint(p)
  <2>1. \E c : Onward(p, c) /\ c.pc = "deliver"
    BY <1>5, IssueDoes, RecipientDoes
  <2>2. call[p].pc \in {"issue_invite", "recover_mint", "recipient"}
    BY <1>5 DEF IssueInvite, RecoverMint, RecipientAfterMint, At
  <2> QED BY <2>1, <2>2 DEF Onward, Turned
<1>6. CASE CreateAdmin(p)
  <2>1. \E c : Onward(p, c) /\ c.pc \in {"idle", "set_handle"}
    BY <1>6, CreateAdminDoes DEF Goes
  <2>2. call[p].pc = "create_admin"
    BY <1>6, CreateAdminDoes
  <2> QED BY <2>1, <2>2 DEF Onward, Turned
<1> QED BY <1>1, <1>2, <1>3, <1>4, <1>5, <1>6 DEF Busy

\* A deleted account is not an administrator, has no pending change and is nobody's claim.
LEMMA DeletedRow ==
    ASSUME RequestInv, NEW p \in Procs, DeleteTarget(p), ~Calm(p)
    PROVE  /\ call[p].tgt \in Accounts /\ call[p].pc = "delete" /\ Goes(p, "idle", call[p].tgt)
           /\ call[p].tgt \notin Rows(db') /\ db'.boot = db.boot /\ db'.mails = db.mails
           /\ \A v \in Accounts : v # call[p].tgt => db'.users[v] = db.users[v]
           /\ PendKept /\ NoClaims /\ NoNewAdmin /\ AdminsGuarded(p)
<1> DEFINE u == call[p].tgt
           r == [NoUser EXCEPT !.life = "gone"]
<1>1. u \in Accounts /\ Goes(p, "idle", u) /\ db' = DeleteUser(db, u) /\ db \in Tables /\ Fits(call[p])
  BY DeleteTargetDoes, RowOf, InvFacts
<1>2. call[p].pc = "delete" /\ Spared(call[p])
  BY <1>1 DEF DeleteTarget, At, Fits
<1>3. db'.users = [db.users EXCEPT ![u] = r] /\ db'.boot = db.boot /\ db'.mails = db.mails
  BY <1>1, DeleteUserDoes
<1>4. r.life = "gone" /\ ~r.plive /\ r.by = "seed"
  BY DEF NoUser
<1>5. db.users \in [Accounts -> User]
  BY <1>1, TablesFields
<1> HIDE DEF r
<1>6. \A v \in Accounts : db'.users[v] = IF v = u THEN r ELSE db.users[v]
  BY <1>1, <1>3, <1>5
<1>7. u \notin Rows(db')
  BY <1>1, <1>4, <1>6 DEF Rows
<1>8. PendKept
  BY <1>3, <1>4, <1>6 DEF PendKept, Pended
<1>9. NoClaims
  BY <1>4, <1>6 DEF NoClaims
<1>10. NoNewAdmin
  BY <1>4, <1>6 DEF NoNewAdmin, AdminExists, Rows
<1>11. AdminsGuarded(p)
  BY <1>1, <1>2, <1>6, SparedGuards
<1> QED BY <1>1, <1>2, <1>3, <1>6, <1>7, <1>8, <1>9, <1>10, <1>11

\* The first administrator comes, or does not.
LEMMA ClaimedRow ==
    ASSUME RequestInv, NEW p \in Procs, CreateAdmin(p)
    PROVE  /\ RowsKept /\ PendKept /\ (\A pc, u : MailsKept(pc, u))
           /\ EnabledAdmins(db) \subseteq EnabledAdmins(db') /\ db'.boot = db.boot /\ db'.grants = db.grants
           /\ At(p, "create_admin") /\ \E c : call' = [call EXCEPT ![p] = c] /\ c.pc \in {"idle", "set_handle"}
<1>1. CASE db' = db
  BY <1>1, SteadyRows, CreateAdminDoes DEF RowsSteady, At, Goes, Onward, Turned
<1>2. CASE db' # db
  <2>1. \E a : Arrives(p, a, "admin", Nobody, "claim")
    BY <1>2, CreateAdminDoes
  <2>2. \E c : Onward(p, c) /\ c.pc = "set_handle"
    BY <1>2, CreateAdminDoes
  <2>3. /\ RowsKept /\ PendKept /\ Apart(db, db') /\ (\A pc, u : MailsKept(pc, u))
        /\ EnabledAdmins(db) \subseteq EnabledAdmins(db')
    BY <2>1, ArrivesWrites
  <2> QED BY <2>2, <2>3, CreateAdminDoes DEF Apart, At, Onward, Turned
<1> QED BY <1>1, <1>2

-----------------------------------------------------------------------------
(* Which steps may write what *)

\* The steps, with what is known of their effect on accounts.
LEMMA StepKinds ==
    ASSUME RequestInv, [Next]_vars
    PROVE  \/ RowsSteady
           \/ \E p \in Procs : \/ AccountWrite(p)
                               \/ DeleteTarget(p) /\ ~Calm(p)
                               \/ CreateAdmin(p)
<1>1. CASE UNCHANGED vars
  BY <1>1, SteadyRows DEF vars
<1>2. CASE Restart \/ Expire \/ Prune
  BY <1>2, RestartSteady, ExpireDoes, PruneDoes, MeanwhileSteady
<1>3. ASSUME NEW p \in Procs, Calm(p) \/ AccountWrite(p) \/ (Busy(p) /\ ~Calm(p))
      PROVE  RowsSteady \/ AccountWrite(p) \/ (DeleteTarget(p) /\ ~Calm(p)) \/ CreateAdmin(p)
  BY <1>3, CalmSteady, BusySteady
<1> QED BY <1>1, <1>2, <1>3, StepsAre

(***************************************************************************)
(* An identity is linked only to an account that is not an administrator   *)
(* and has the mailbox the provider vouched for at the moment of the       *)
(* write, in whatever form it is stored and whatever happened after the    *)
(* lookup (LinkOIDC's WHERE clause against SetRole, ConfirmPendingEmail    *)
(* and SetEmail).                                                          *)
(***************************************************************************)
THEOREM LinkedWhileEligibleAlways == Spec => LinkedWhileEligible
<1>1. ASSUME RequestInv, [Next]_vars, NEW u \in Rows(db), db.users[u].sub # db'.users[u].sub
      PROVE  u \notin Rows(db)' \/ (db.users[u].role = "user" /\ NormalizeAddress(db'.users[u].email) = NormalizeAddress(db.users[u].email))
  <2>1. CASE RowsSteady
    BY <1>1, <2>1 DEF RowsSteady, RowsKept
  <2>2. ASSUME NEW p \in Procs, AccountWrite(p) \/ CreateAdmin(p) PROVE db.users[u].role = "user" /\ NormalizeAddress(db'.users[u].email) = NormalizeAddress(db.users[u].email)
    BY <1>1, <2>2, ClaimedRow DEF AccountWrite, RowsKept
  <2>3. ASSUME NEW p \in Procs, DeleteTarget(p), ~Calm(p) PROVE u \notin Rows(db')
    BY <1>1, <2>3, DeletedRow, RowOf
  <2> QED BY <1>1, <2>1, <2>2, <2>3, StepKinds
<1>2. RequestInv /\ [Next]_vars =>
        [\A u \in Rows(db) : db.users[u].sub # db'.users[u].sub =>
            \/ u \notin Rows(db)'
            \/ /\ db.users[u].role = "user"
               /\ NormalizeAddress(db'.users[u].email) = NormalizeAddress(db.users[u].email)]_vars
  BY <1>1
<1> QED BY <1>2, RequestInvAlways, PTL DEF Spec, LinkedWhileEligible

(***************************************************************************)
(* Only a request that counted the administrators, and whose count is out  *)
(* of date, takes away the last one who can sign in (guardLastAdmin in     *)
(* SetRole, SetDisabled and DeleteUser), for any number of requests and    *)
(* administrators.                                                         *)
(***************************************************************************)
THEOREM LastAdminGuardedAlways == Spec => LastAdminGuarded
<1>1. ASSUME RequestInv, [Next]_vars, EnabledAdmins(db) # {}, EnabledAdmins(db') = {}
      PROVE  \E p \in Procs : call[p] # call'[p] /\ call[p].admins \notin {NotCounted, EnabledAdmins(db)}
  <2>0. call \in [Procs -> Call]
    BY <1>1 DEF RequestInv, TypeOK
  <2>1. ~RowsSteady /\ \A p \in Procs : ~CreateAdmin(p)
    BY <1>1, ClaimedRow DEF RowsSteady
  <2>2. ASSUME NEW p \in Procs, AccountWrite(p) PROVE call[p] # call'[p] /\ call[p].admins \notin {NotCounted, EnabledAdmins(db)}
    <3>1. PICK pc, u : Goes(p, pc, u) /\ pc # call[p].pc
      BY <2>2 DEF AccountWrite
    <3>2. PICK c : call' = [call EXCEPT ![p] = c] /\ c.pc # call[p].pc
      BY <3>1 DEF Goes, Onward, Turned
    <3> QED BY <1>1, <2>0, <2>2, <3>2 DEF AccountWrite, AdminsGuarded
  <2>3. ASSUME NEW p \in Procs, DeleteTarget(p), ~Calm(p) PROVE call[p] # call'[p] /\ call[p].admins \notin {NotCounted, EnabledAdmins(db)}
    <3>1. Goes(p, "idle", call[p].tgt) /\ call[p].pc = "delete" /\ AdminsGuarded(p)
      BY <1>1, <2>3, DeletedRow
    <3>2. PICK c : call' = [call EXCEPT ![p] = c] /\ c.pc # call[p].pc
      BY <3>1 DEF Goes, Onward, Turned
    <3> QED BY <1>1, <2>0, <3>1, <3>2 DEF AdminsGuarded
  <2> QED BY <1>1, <2>1, <2>2, <2>3, StepKinds
<1>2. RequestInv /\ [Next]_vars =>
        [EnabledAdmins(db) # {} /\ EnabledAdmins(db)' = {} =>
            \E p \in Procs : /\ call[p] # call'[p]
                             /\ call[p].admins \notin {NotCounted, EnabledAdmins(db)}]_vars
  BY <1>1
<1> QED BY <1>2, RequestInvAlways, PTL DEF Spec, LastAdminGuarded

LEMMA PendInvNext == ASSUME RequestInv, PendInv, [Next]_vars PROVE PendInv'
<1>1. PendKept
  BY StepKinds, ClaimedRow, DeletedRow DEF RowsSteady, AccountWrite
<1> QED BY <1>1 DEF PendKept, PendInv

LEMMA PendInvAlways == Spec => []PendInv
<1>1. Init => PendInv
  BY InitFacts DEF PendInv, Pended, Consistent
<1>2. RequestInv /\ PendInv /\ [Next]_vars => PendInv'
  BY PendInvNext
<1> QED BY <1>1, <1>2, RequestInvAlways, PTL DEF Spec

(***************************************************************************)
(* A confirmed address is the one that very link was mailed to             *)
(* (ConfirmPendingEmail), whatever was requested, withdrawn or expired in  *)
(* between, and by whichever request.                                      *)
(***************************************************************************)
THEOREM ConfirmedAddressAlways == Spec => ConfirmedAddress
<1>1. ASSUME RequestInv, PendInv, [Next]_vars, NEW p \in Procs, At(p, "confirm"), call'[p].pc = "drop"
      PROVE  db'.users[call[p].me].email = db.mails[call[p].tok]
  <2>0. call \in [Procs -> Call] /\ call[p].pc = "confirm"
    BY <1>1 DEF RequestInv, TypeOK, At
  <2>1. ~UNCHANGED vars
    BY <1>1, <2>0 DEF vars
  <2>2. ASSUME NEW q \in Procs, NEW c, call' = [call EXCEPT ![q] = c] PROVE q = p /\ c.pc = "drop"
    BY <1>1, <2>0, <2>2
  <2>3. \A q \in Procs : ~Calm(q)
    <3>1. ASSUME NEW q \in Procs, Calm(q) PROVE FALSE
      <4>1. PICK c : call' = [call EXCEPT ![q] = c] /\ Settled(c)
        BY <3>1 DEF Calm
      <4> QED BY <2>2, <4>1 DEF Settled, QuietPcs, PlainPcs
    <3> QED BY <3>1
  <2>4. \A q \in Procs : ~(Busy(q) /\ ~Calm(q))
    BY <1>1, <2>2, BusyMoves
  <2>5. ~Restart
    <3>1. NoCall.pc = "idle"
      BY DEF NoCall
    <3> HIDE DEF NoCall
    <3> QED BY <1>1, <3>1, RestartDoes
  <2>6. ~Expire /\ ~Prune
    BY <1>1, <2>0, ExpireDoes, PruneDoes DEF Meanwhile
  <2>7. PICK q \in Procs : AccountWrite(q)
    BY <1>1, <2>1, <2>3, <2>4, <2>5, <2>6, StepsAre
  <2>8. \E c : call' = [call EXCEPT ![q] = c]
    BY <2>7 DEF AccountWrite, Goes, Onward, Turned
  <2>9. q = p
    BY <2>2, <2>8
  <2>10. /\ db.users[call[p].me].plive /\ db.users[call[p].me].ptok = call[p].tok /\ call[p].me \in Accounts
         /\ db'.users[call[p].me].email = db.users[call[p].me].pend
    BY <2>0, <2>7, <2>9 DEF AccountWrite
  <2> QED BY <1>1, <2>10 DEF PendInv, Pended
<1>2. RequestInv /\ PendInv /\ [Next]_vars =>
        [\A p \in Procs : At(p, "confirm") /\ call'[p].pc = "drop" =>
            db'.users[call[p].me].email = db.mails[call[p].tok]]_vars
  BY <1>1
<1> QED BY <1>2, RequestInvAlways, PendInvAlways, PTL DEF Spec, ConfirmedAddress

-----------------------------------------------------------------------------
(* The first administrator *)

\* A step that gives nobody more and opens nothing.
LEMMA FirstKept ==
    ASSUME RequestInv, FirstInv, NEW p \in Procs, NEW c, call' = [call EXCEPT ![p] = c],
           db'.boot = db.boot, NoNewAdmin \/ Authority(call[p]), c.pc # "create_admin",
           Authority(c) => Authority(call[p]) \/ AdminExists(db)
    PROVE  FirstInv'
<1>0. call \in [Procs -> Call]
  BY DEF RequestInv, TypeOK
<1>1. call'[p] = c /\ \A q \in Procs : q # p => call'[q] = call[q]
  BY <1>0
<1>2. \A q \in Procs : call'[q].pc = "create_admin" => q # p /\ call[q].pc = "create_admin"
  BY <1>1
<1>3. Vacant' => Vacant
  BY <1>2 DEF Vacant, At
<1>4. Vacant => NoNewAdmin /\ ~AdminExists(db) /\ ~Authority(c) /\ \A q \in Procs : ~Authority(call[q])
  BY DEF FirstInv
<1>5. Vacant' => ~AdminExists(db') /\ \A q \in Procs : ~Authority(call'[q])
  BY <1>1, <1>3, <1>4 DEF NoNewAdmin
<1>6. \A q, s \in Procs : call'[q].pc = "create_admin" => ~db'.boot.open /\ (call'[s].pc = "create_admin" => q = s)
  BY <1>2 DEF FirstInv, At
<1> QED BY <1>5, <1>6 DEF FirstInv, At

LEMMA FirstInvNext == ASSUME RequestInv, FirstInv, [Next]_vars PROVE FirstInv'
<1>0. call \in [Procs -> Call] /\ db \in Tables
  BY DEF RequestInv, TypeOK
<1>1. ASSUME NEW p \in Procs, Calm(p) PROVE FirstInv'
  <2>1. PICK c : /\ call' = [call EXCEPT ![p] = c] /\ Settled(c)
                 /\ Authority(c) => Authority(call[p]) \/ AdminExists(db)
    BY <1>1 DEF Calm
  <2>2. c.pc # "create_admin"
    BY <2>1 DEF Settled, QuietPcs, PlainPcs
  <2> QED BY <1>1, <2>1, <2>2, CalmSteady, FirstKept DEF RowsSteady
<1>2. ASSUME NEW p \in Procs, AccountWrite(p) PROVE FirstInv'
  <2>1. PICK c : /\ call' = [call EXCEPT ![p] = c] /\ c.pc \in PlainPcs \cup {"set_dis", "drop"}
                 /\ Authority(c) => Authority(call[p])
    BY <1>2 DEF AccountWrite, Goes, Onward, Turned
  <2>2. c.pc # "create_admin"
    BY <2>1 DEF PlainPcs
  <2> QED BY <1>2, <2>1, <2>2, FirstKept DEF AccountWrite, Apart
<1>3. ASSUME NEW p \in Procs, Busy(p), ~Calm(p) PROVE FirstInv'
  <2>1. PICK c : /\ call' = [call EXCEPT ![p] = c] /\ (Authority(c) => Authority(call[p]))
                 /\ c.pc = "create_admin" => ConsumeBootstrap(p)
    BY <1>3, BusyMoves
  <2>2. CASE ConsumeBootstrap(p)
    <3>1. Proceeds(p, "create_admin") /\ db.boot.open /\ db' = ConsumeBoot(db)
      BY <1>3, <2>2, ConsumeBootstrapDoes
    <3>2. db'.users = db.users /\ db'.mails = db.mails /\ ~db'.boot.open
      BY <1>0, <3>1, ConsumeBootDoes
    <3>3. NoNewAdmin
      BY <3>2, SameRows
    <3>4. call'[p].pc = "create_admin" /\ (Authority(call'[p]) => Authority(call[p])) /\ \A q \in Procs : q # p => call'[q] = call[q]
      BY <1>0, <3>1 DEF Proceeds, Onward, Turned
    <3>5. \A q \in Procs : call[q].pc # "create_admin"
      BY <3>1 DEF FirstInv, At
    <3>6. ~AdminExists(db') /\ \A q \in Procs : ~Authority(call'[q])
      BY <3>1, <3>3, <3>4 DEF FirstInv, Vacant, NoNewAdmin
    <3> QED BY <3>2, <3>4, <3>5, <3>6 DEF FirstInv, At
  <2>3. CASE CreateAdmin(p)
    <3>1. call[p].pc = "create_admin" /\ db'.boot = db.boot
      BY <2>3, ClaimedRow DEF At
    <3>2. PICK e : call' = [call EXCEPT ![p] = e] /\ e.pc \in {"idle", "set_handle"}
      BY <2>3, ClaimedRow
    <3>3. ~db'.boot.open /\ \A q \in Procs : q # p => call[q].pc # "create_admin"
      BY <3>1 DEF FirstInv, At
    <3>4. \A q \in Procs : call'[q].pc # "create_admin"
      BY <1>0, <3>2, <3>3
    <3> QED BY <3>3, <3>4 DEF FirstInv, Vacant, At
  <2>4. CASE DeleteTarget(p)
    BY <1>3, <2>1, <2>2, <2>4, DeletedRow, FirstKept
  <2>5. CASE ~DeleteTarget(p) /\ ~CreateAdmin(p) /\ ~ConsumeBootstrap(p)
    BY <1>3, <2>1, <2>5, BusySteady, FirstKept DEF RowsSteady
  <2> QED BY <2>2, <2>3, <2>4, <2>5
<1>4. CASE Restart
  <2>1. call' = [p \in Procs |-> NoCall] /\ (db' = db \/ (~AdminExists(db) /\ db' = SetTokenHash(db)))
    BY <1>4, RestartDoes
  <2>2. NoCall.pc = "idle" /\ ~Authority(NoCall)
    BY NoCallFits DEF NoCall
  <2> HIDE DEF NoCall
  <2>3. NoNewAdmin
    BY <1>4, RestartSteady DEF RowsSteady
  <2>4. Vacant' => ~AdminExists(db')
    BY <2>1, <2>2, <2>3 DEF Vacant, At, FirstInv, NoNewAdmin
  <2> QED BY <2>1, <2>2, <2>4 DEF FirstInv, At
<1>5. CASE Expire \/ Prune
  <2>1. NoNewAdmin /\ call' = call /\ db'.boot = db.boot
    BY <1>5, ExpireDoes, PruneDoes DEF Meanwhile
  <2> QED BY <2>1 DEF FirstInv, Vacant, At, NoNewAdmin
<1>6. CASE UNCHANGED vars
  <2>1. NoNewAdmin /\ call' = call /\ db'.boot = db.boot
    BY <1>6, SameRows DEF vars
  <2> QED BY <2>1 DEF FirstInv, Vacant, At, NoNewAdmin
<1> QED BY <1>1, <1>2, <1>3, <1>4, <1>5, <1>6, StepsAre

LEMMA FirstInvAlways == Spec => []FirstInv
<1>1. Init => FirstInv
  <2>1. NoCall.pc = "idle" /\ ~Authority(NoCall)
    BY NoCallFits DEF NoCall
  <2> HIDE DEF NoCall
  <2>2. Init => Consistent(db) /\ call = [p \in Procs |-> NoCall]
    BY InitFacts
  <2> QED BY <2>1, <2>2 DEF FirstInv, Vacant, At, Consistent
<1>2. RequestInv /\ FirstInv /\ [Next]_vars => FirstInv'
  BY FirstInvNext
<1> QED BY <1>1, <1>2, RequestInvAlways, PTL DEF Spec

(***************************************************************************)
(* The setup token makes an administrator only while there is none,        *)
(* however many claims are in flight, wherever they fail and however often *)
(* the server restarts and mints a token (BootstrapRepo.Consume).          *)
(***************************************************************************)
THEOREM OneFirstAdminAlways == Spec => OneFirstAdmin
<1>1. ASSUME RequestInv, FirstInv, [Next]_vars, NEW u \in Accounts, db.users[u].by # "claim", db'.users[u].by = "claim"
      PROVE  ~AdminExists(db)
  <2>1. ~NoClaims
    BY <1>1 DEF NoClaims
  <2>2. PICK p \in Procs : CreateAdmin(p)
    BY <1>1, <2>1, StepKinds, DeletedRow DEF RowsSteady, AccountWrite
  <2>3. At(p, "create_admin")
    BY <1>1, <2>2, ClaimedRow
  <2> QED BY <1>1, <2>3 DEF FirstInv, Vacant
<1>2. RequestInv /\ FirstInv /\ [Next]_vars =>
        [\A u \in Accounts : db.users[u].by # "claim" /\ db'.users[u].by = "claim" => ~AdminExists(db)]_vars
  BY <1>1
<1> QED BY <1>2, RequestInvAlways, FirstInvAlways, PTL DEF Spec, OneFirstAdmin

-----------------------------------------------------------------------------
(* Redeeming a link: at most once, and in place of what was there *)

\* Links are used up and deleted, never renewed; credentials are deleted.
LinksAge(gs, hs) ==
    /\ Len(hs) \in Nat /\ Len(hs) >= Len(gs)
    /\ \A i \in 1..Len(gs) : /\ hs[i].user = gs[i].user /\ hs[i].reason = gs[i].reason /\ hs[i].upto = gs[i].upto
                             /\ hs[i].st = "unused" => gs[i].st = "unused"
    /\ \A i \in 1..Len(hs) : i > Len(gs) => hs[i].upto = 0
CredsAge(cs, ds) ==
    /\ Len(ds) = Len(cs)
    /\ \A i \in 1..Len(cs) : /\ ds[i].user = cs[i].user /\ ds[i].grant = cs[i].grant
                             /\ cs[i].st = "gone" => ds[i].st = "gone"

\* q holds a link only if it did before, and skips no revocation.
Keeps(q) ==
    Holding(call'[q], chals') =>
        /\ Holding(call[q], chals) /\ call'[q].tok = call[q].tok
        /\ call'[q].pc # "revoke_old" =>
             call[q].pc # "revoke_old" \/ Replaced(db'.grants[call[q].tok], db'.creds)

LEMMA LinksSame == ASSUME NEW gs \in Seq(Grant) PROVE LinksAge(gs, gs)
BY DEF LinksAge
LEMMA CredsSame == ASSUME NEW cs \in Seq(Credential) PROVE CredsAge(cs, cs)
BY DEF CredsAge
LEMMA LinksWithout == ASSUME NEW gs \in Seq(Grant), NEW X PROVE LinksAge(gs, Without(gs, X))
BY WithoutGrants DEF LinksAge
LEMMA CredsWithout == ASSUME NEW cs \in Seq(Credential), NEW X PROVE CredsAge(cs, Without(cs, X))
BY WithoutCreds DEF CredsAge
LEMMA LinksAppend ==
    ASSUME NEW gs \in Seq(Grant), NEW g \in Grant, g.upto = 0 PROVE LinksAge(gs, Append(gs, g))
<1>1. Len(gs) \in Nat
  OBVIOUS
<1> QED BY <1>1, AppendGrown DEF LinksAge

LEMMA HolderNames ==
    ASSUME RequestInv, NEW q \in Procs, Holding(call[q], chals)
    PROVE  call[q].tok \in 1..Len(db.grants) /\ db.grants[call[q].tok].user = call[q].tgt
BY InvFacts DEF Holding, Names

LEMMA ReplacedAges ==
    ASSUME NEW gs \in Seq(Grant), NEW hs, NEW cs \in Seq(Credential), NEW ds, LinksAge(gs, hs), CredsAge(cs, ds),
           NEW g \in 1..Len(gs), gs[g].upto <= Len(cs), Replaced(gs[g], cs)
    PROVE  Replaced(hs[g], ds)
<1>1. gs[g] \in Grant
  OBVIOUS
<1>2. gs[g].upto \in Nat /\ Len(cs) \in Nat
  BY <1>1 DEF Grant
<1>3. \A j \in 1..gs[g].upto : j \in 1..Len(cs)
  BY <1>2
<1> QED BY <1>3 DEF Replaced, LinksAge, CredsAge

LEMMA RedeemAges ==
    ASSUME RequestInv, RedeemInv, LinksAge(db.grants, db'.grants), CredsAge(db.creds, db'.creds), \A q \in Procs : Keeps(q)
    PROVE  RedeemInv'
<1> DEFINE gs == db.grants
           cs == db.creds
           hs == db'.grants
           ds == db'.creds
<1>0. gs \in Seq(Grant) /\ cs \in Seq(Credential) /\ Len(gs) \in Nat /\ Len(cs) \in Nat
  BY TablesFields DEF RequestInv, TypeOK
<1>1. Registered1(gs, cs) /\ LinksAge(gs, hs) /\ CredsAge(cs, ds)
  BY DEF RedeemInv
<1>2. \A q \in Procs : Holding(call[q], chals) => call[q].tok \in 1..Len(gs)
  BY HolderNames
<1> HIDE DEF gs, cs, hs, ds
<1>3. \A g \in 1..Len(gs) : gs[g].upto <= Len(cs) /\ (Replaced(gs[g], cs) => Replaced(hs[g], ds))
  BY <1>0, <1>1, ReplacedAges DEF Registered1
<1>4. Registered1(hs, ds)
  <2>1. \A g \in 1..Len(hs) : hs[g].upto <= Len(ds)
    <3>1. TAKE g \in 1..Len(hs)
    <3>2. CASE g \in 1..Len(gs)
      BY <1>0, <1>1, <1>3, <3>2 DEF LinksAge, CredsAge
    <3>3. CASE g > Len(gs)
      BY <1>0, <1>1, <3>3 DEF LinksAge, CredsAge
    <3> QED BY <1>0, <1>1, <3>2, <3>3 DEF LinksAge
  <2>2. ASSUME NEW i \in 1..Len(ds), ds[i].grant > 0
        PROVE  /\ ds[i].grant <= Len(hs) /\ hs[ds[i].grant].st # "unused" /\ hs[ds[i].grant].user = ds[i].user
               /\ Replaced(hs[ds[i].grant], ds)
               /\ \A j \in 1..Len(ds) : ds[j].grant = ds[i].grant => i = j
    <3>1. i \in 1..Len(cs) /\ ds[i].grant = cs[i].grant /\ ds[i].user = cs[i].user
      BY <1>1, <2>2 DEF CredsAge
    <3>2. /\ cs[i].grant <= Len(gs) /\ gs[cs[i].grant].st # "unused" /\ gs[cs[i].grant].user = cs[i].user
          /\ Replaced(gs[cs[i].grant], cs) /\ \A j \in 1..Len(cs) : cs[j].grant = cs[i].grant => i = j
      BY <1>1, <2>2, <3>1 DEF Registered1
    <3>3. cs[i] \in Credential
      BY <1>0, <3>1
    <3>4. cs[i].grant \in 1..Len(gs)
      BY <1>0, <2>2, <3>1, <3>2, <3>3 DEF Credential
    <3>5. hs[cs[i].grant].st # "unused" /\ hs[cs[i].grant].user = cs[i].user /\ Replaced(hs[cs[i].grant], ds)
      BY <1>1, <1>3, <3>2, <3>4 DEF LinksAge
    <3>6. \A j \in 1..Len(ds) : ds[j].grant = ds[i].grant => i = j
      BY <1>1, <3>1, <3>2 DEF CredsAge
    <3>7. cs[i].grant <= Len(hs)
      BY <1>0, <1>1, <3>2, <3>3 DEF LinksAge, Credential
    <3> QED BY <3>1, <3>5, <3>6, <3>7
  <2> QED BY <2>1, <2>2 DEF Registered1
<1>5. ASSUME NEW q \in Procs PROVE Redeems(call'[q], hs, ds, chals')
  <2>1. SUFFICES ASSUME Holding(call'[q], chals')
        PROVE  /\ hs[call'[q].tok].st # "unused" /\ \A i \in 1..Len(ds) : ds[i].grant # call'[q].tok
               /\ call'[q].pc # "revoke_old" => Replaced(hs[call'[q].tok], ds)
    BY DEF Redeems
  <2>2. /\ Holding(call[q], chals) /\ call'[q].tok = call[q].tok
        /\ call'[q].pc # "revoke_old" => call[q].pc # "revoke_old" \/ Replaced(hs[call[q].tok], ds)
    BY <2>1 DEF Keeps, hs, ds
  <2>3. Redeems(call[q], gs, cs, chals) /\ call[q].tok \in 1..Len(gs)
    BY <1>2, <2>2 DEF RedeemInv, gs, cs
  <2>4. gs[call[q].tok].st # "unused" /\ \A i \in 1..Len(cs) : cs[i].grant # call[q].tok
    BY <2>2, <2>3 DEF Redeems
  <2>5. call[q].pc # "revoke_old" => Replaced(gs[call[q].tok], cs)
    BY <2>2, <2>3 DEF Redeems
  <2>6. hs[call[q].tok].st # "unused" /\ \A i \in 1..Len(ds) : ds[i].grant # call[q].tok
    BY <1>1, <2>3, <2>4 DEF LinksAge, CredsAge
  <2>7. call[q].pc # "revoke_old" => Replaced(hs[call[q].tok], ds)
    BY <1>3, <2>3, <2>5
  <2> QED BY <2>2, <2>6, <2>7
<1>6. ASSUME NEW q \in Procs, NEW s \in Procs, Holding(call'[q], chals'), Holding(call'[s], chals'), call'[q].tok = call'[s].tok
      PROVE  q = s
  BY <1>6 DEF RedeemInv, Keeps
<1> QED BY <1>4, <1>5, <1>6 DEF RedeemInv, gs, cs, hs, ds

\* Only p moves: the others hold what they held.
LEMMA OthersHold ==
    ASSUME RequestInv, NEW p \in Procs, NEW c, call' = [call EXCEPT ![p] = c], Later
    PROVE  /\ call'[p] = c
           /\ \A q \in Procs : q # p =>
                call'[q] = call[q] /\ (Holding(call'[q], chals') => Holding(call[q], chals)) /\ Keeps(q)
<1>0. call \in [Procs -> Call]
  BY DEF RequestInv, TypeOK
<1>1. call'[p] = c
  BY <1>0
<1>2. ASSUME NEW q \in Procs, q # p PROVE call'[q] = call[q] /\ (Holding(call'[q], chals') => Holding(call[q], chals)) /\ Keeps(q)
  <2>1. call'[q] = call[q]
    BY <1>0, <1>2
  <2>2. Holding(call[q], chals') => Holding(call[q], chals)
    <3>1. Names(call[q], db.grants, chals)
      BY InvFacts
    <3> QED BY <3>1 DEF Holding, Names, Later, GrownChals
  <2> QED BY <2>1, <2>2 DEF Keeps
<1> QED BY <1>1, <1>2

LEMMA RedeemMoves ==
    ASSUME RequestInv, RedeemInv, LinksAge(db.grants, db'.grants), CredsAge(db.creds, db'.creds),
           NEW p \in Procs, NEW c, call' = [call EXCEPT ![p] = c], Later, ~Holding(c, chals')
    PROVE  RedeemInv'
<1>1. Keeps(p)
  <2>1. call'[p] = c
    BY OthersHold
  <2> QED BY <2>1 DEF Keeps
<1>2. \A q \in Procs : q # p => Keeps(q)
  BY OthersHold
<1> QED BY <1>1, <1>2, RedeemAges

\* A credential is registered, for the link its request holds or for none.
LEMMA RedeemRegisters ==
    ASSUME RequestInv, RedeemInv, NEW p \in Procs, NEW c, call' = [call EXCEPT ![p] = c], Later, ~Holding(c, chals'),
           NEW n \in Credential, db'.grants = db.grants, db'.creds = Append(db.creds, n),
           n.grant = 0 \/ (Holding(call[p], chals) /\ call[p].pc # "revoke_old" /\ n.grant = call[p].tok /\ n.user = call[p].tgt)
    PROVE  RedeemInv'
<1> DEFINE gs == db.grants
           cs == db.creds
           ds == db'.creds
<1>0. gs \in Seq(Grant) /\ cs \in Seq(Credential) /\ Len(gs) \in Nat /\ Len(cs) \in Nat /\ n.grant \in Nat
  BY TablesFields DEF RequestInv, TypeOK, Credential
<1>1. Registered1(gs, cs) /\ db'.grants = gs
  BY DEF RedeemInv
<1>2. Len(ds) = Len(cs) + 1 /\ ds[Len(cs) + 1] = n /\ \A i \in 1..Len(cs) : ds[i] = cs[i]
  BY <1>0
<1>3. n.grant > 0 =>
        /\ n.grant \in 1..Len(gs) /\ gs[n.grant].st # "unused" /\ gs[n.grant].user = n.user /\ Replaced(gs[n.grant], cs)
        /\ \A i \in 1..Len(cs) : cs[i].grant # n.grant
        /\ Holding(call[p], chals) /\ call[p].tok = n.grant
  BY <1>0, HolderNames DEF RedeemInv, Redeems
<1>4. \A q \in Procs : Holding(call'[q], chals') =>
        q # p /\ Holding(call[q], chals) /\ call'[q] = call[q] /\ Redeems(call[q], gs, cs, chals) /\ call[q].tok \in 1..Len(gs)
  <2>1. call'[p] = c
    BY OthersHold
  <2>2. ASSUME NEW q \in Procs, Holding(call'[q], chals') PROVE q # p /\ Holding(call[q], chals) /\ call'[q] = call[q]
    <3>1. q # p
      BY <2>1, <2>2
    <3> QED BY <2>2, <3>1, OthersHold
  <2> QED BY <2>2, HolderNames DEF RedeemInv
<1>5. \A q \in Procs : Holding(call'[q], chals') => call[q].tok # n.grant
  BY <1>0, <1>3, <1>4 DEF RedeemInv
<1> HIDE DEF gs, cs, ds
<1>6. \A g \in 1..Len(gs) : gs[g].upto <= Len(cs) /\ (Replaced(gs[g], cs) => Replaced(gs[g], ds))
  <2>1. TAKE g \in 1..Len(gs)
  <2>2. gs[g] \in Grant
    BY <1>0
  <2>3. gs[g].upto \in Nat /\ gs[g].upto <= Len(cs)
    BY <1>1, <2>2 DEF Registered1, Grant
  <2>4. \A j \in 1..gs[g].upto : ds[j] = cs[j]
    BY <1>0, <1>2, <2>3
  <2> QED BY <2>3, <2>4 DEF Replaced
<1>7. Registered1(gs, ds)
  <2>1. \A g \in 1..Len(gs) : gs[g].upto <= Len(ds)
    <3>1. TAKE g \in 1..Len(gs)
    <3>2. gs[g] \in Grant
      BY <1>0
    <3> QED BY <1>0, <1>2, <1>6, <3>2 DEF Grant
  <2>2. ASSUME NEW i \in 1..Len(ds), ds[i].grant > 0
        PROVE  /\ ds[i].grant <= Len(gs) /\ gs[ds[i].grant].st # "unused" /\ gs[ds[i].grant].user = ds[i].user
               /\ Replaced(gs[ds[i].grant], ds)
               /\ \A j \in 1..Len(ds) : ds[j].grant = ds[i].grant => i = j
    <3>1. CASE i \in 1..Len(cs)
      <4>1. ds[i] = cs[i] /\ cs[i] \in Credential
        BY <1>0, <1>2, <3>1
      <4>2. /\ cs[i].grant <= Len(gs) /\ gs[cs[i].grant].st # "unused" /\ gs[cs[i].grant].user = cs[i].user
            /\ Replaced(gs[cs[i].grant], cs) /\ \A j \in 1..Len(cs) : cs[j].grant = cs[i].grant => i = j
        BY <1>1, <2>2, <3>1, <4>1 DEF Registered1
      <4>3. cs[i].grant \in 1..Len(gs)
        BY <1>0, <2>2, <4>1, <4>2 DEF Credential
      <4>4. cs[i].grant # n.grant
        BY <1>0, <1>3, <2>2, <3>1, <4>1
      <4>6. \A j \in 1..Len(ds) : j \in 1..Len(cs) \/ j = Len(cs) + 1
        BY <1>0, <1>2
      <4>7. \A j \in 1..Len(cs) : ds[j].grant = cs[i].grant => i = j
        BY <1>2, <4>2
      <4>5. \A j \in 1..Len(ds) : ds[j].grant = cs[i].grant => i = j
        BY <1>2, <4>4, <4>6, <4>7
      <4> QED BY <1>6, <4>1, <4>2, <4>3, <4>5
    <3>2. CASE i = Len(cs) + 1
      <4>1. ds[i] = n /\ n.grant > 0
        BY <1>2, <2>2, <3>2
      <4>5. \A j \in 1..Len(cs) : ds[j].grant # n.grant
        BY <1>2, <1>3, <4>1
      <4>6. \A j \in 1..Len(ds) : j \in 1..Len(cs) \/ j = Len(cs) + 1
        BY <1>0, <1>2
      <4>2. \A j \in 1..Len(ds) : ds[j].grant = n.grant => i = j
        BY <3>2, <4>5, <4>6
      <4>3. /\ n.grant \in 1..Len(gs) /\ gs[n.grant].st # "unused" /\ gs[n.grant].user = n.user
            /\ Replaced(gs[n.grant], cs)
        BY <1>3, <4>1
      <4>4. Replaced(gs[n.grant], ds)
        BY <1>6, <4>3
      <4>7. n.grant <= Len(gs)
        BY <1>0, <4>3
      <4> QED BY <4>1, <4>2, <4>3, <4>4, <4>7
    <3> QED BY <1>0, <1>2, <3>1, <3>2
  <2> QED BY <2>1, <2>2 DEF Registered1
<1>8. ASSUME NEW q \in Procs PROVE Redeems(call'[q], gs, ds, chals')
  <2>1. SUFFICES ASSUME Holding(call'[q], chals')
        PROVE  /\ gs[call'[q].tok].st # "unused" /\ \A i \in 1..Len(ds) : ds[i].grant # call'[q].tok
               /\ call'[q].pc # "revoke_old" => Replaced(gs[call'[q].tok], ds)
    BY DEF Redeems
  <2>2. /\ Holding(call[q], chals) /\ call'[q] = call[q] /\ Redeems(call[q], gs, cs, chals) /\ call[q].tok \in 1..Len(gs)
        /\ call[q].tok # n.grant
    BY <1>4, <1>5, <2>1
  <2>3. gs[call[q].tok].st # "unused" /\ \A i \in 1..Len(cs) : cs[i].grant # call[q].tok
    BY <2>2 DEF Redeems
  <2>4. \A i \in 1..Len(ds) : ds[i].grant # call[q].tok
    <3>1. TAKE i \in 1..Len(ds)
    <3>2. i \in 1..Len(cs) \/ i = Len(cs) + 1
      BY <1>0, <1>2
    <3>3. CASE i \in 1..Len(cs)
      BY <1>2, <2>3, <3>3
    <3>4. CASE i = Len(cs) + 1
      BY <1>2, <2>2, <3>4
    <3> QED BY <3>2, <3>3, <3>4
  <2>5. call[q].pc # "revoke_old" => Replaced(gs[call[q].tok], ds)
    BY <1>6, <2>2 DEF Redeems
  <2> QED BY <2>2, <2>3, <2>4, <2>5
<1>9. ASSUME NEW q \in Procs, NEW s \in Procs, Holding(call'[q], chals'), Holding(call'[s], chals'), call'[q].tok = call'[s].tok
      PROVE  q = s
  BY <1>4, <1>9 DEF RedeemInv
<1> QED BY <1>1, <1>7, <1>8, <1>9 DEF RedeemInv, gs, cs, ds

\* A link that was unused is used up, and its request holds it.
LEMMA RedeemConsumes ==
    ASSUME RequestInv, RedeemInv, NEW p \in Procs, NEW c, call' = [call EXCEPT ![p] = c], Later,
           NEW g \in 1..Len(db.grants), c.tok = g, db.grants[g].st = "unused", db'.creds = db.creds,
           NEW n \in Grant, db'.grants = [db.grants EXCEPT ![g] = n],
           n.user = db.grants[g].user, n.st = "used", n.upto = Len(db.creds), n.reason = db.grants[g].reason,
           c.pc # "revoke_old" => n.reason # "recovery"
    PROVE  RedeemInv'
<1> DEFINE gs == db.grants
           cs == db.creds
           hs == db'.grants
<1>0. gs \in Seq(Grant) /\ cs \in Seq(Credential) /\ Len(gs) \in Nat /\ Len(cs) \in Nat
  BY TablesFields DEF RequestInv, TypeOK
<1>1. Registered1(gs, cs) /\ db'.creds = cs
  BY DEF RedeemInv
<1>2. Len(hs) = Len(gs) /\ hs[g] = n /\ \A i \in 1..Len(gs) : i # g => hs[i] = gs[i]
  BY <1>0, GrantEdited
<1>3. gs[g].st = "unused" /\ g \in 1..Len(gs)
  OBVIOUS
<1>4. \A q \in Procs : q # p /\ Holding(call'[q], chals') =>
        Holding(call[q], chals) /\ call'[q] = call[q] /\ Redeems(call[q], gs, cs, chals) /\ call[q].tok \in 1..Len(gs)
  BY OthersHold, HolderNames DEF RedeemInv
<1>5. call'[p] = c
  BY OthersHold
<1> HIDE DEF gs, cs, hs
<1>6. \A q \in Procs : q # p /\ Holding(call'[q], chals') => call[q].tok # g
  BY <1>3, <1>4 DEF Redeems
<1>7. \A i \in 1..Len(cs) : cs[i].grant # g
  <2>1. \A i \in 1..Len(cs) : cs[i].grant > 0 => gs[cs[i].grant].st # "unused"
    BY <1>1 DEF Registered1
  <2>2. g > 0
    BY <1>0, <1>3
  <2> QED BY <1>3, <2>1, <2>2
<1>8. Registered1(hs, cs)
  <2>1. \A i \in 1..Len(hs) : hs[i].upto <= Len(cs)
    <3>1. TAKE i \in 1..Len(hs)
    <3>2. CASE i = g
      BY <1>0, <1>2, <3>2 DEF cs
    <3>3. CASE i # g
      BY <1>1, <1>2, <3>3 DEF Registered1
    <3> QED BY <3>2, <3>3
  <2>2. ASSUME NEW i \in 1..Len(cs), cs[i].grant > 0
        PROVE  /\ cs[i].grant <= Len(hs) /\ hs[cs[i].grant].st # "unused" /\ hs[cs[i].grant].user = cs[i].user
               /\ Replaced(hs[cs[i].grant], cs)
               /\ \A j \in 1..Len(cs) : cs[j].grant = cs[i].grant => i = j
    <3>1. /\ cs[i].grant <= Len(gs) /\ gs[cs[i].grant].st # "unused" /\ gs[cs[i].grant].user = cs[i].user
          /\ Replaced(gs[cs[i].grant], cs) /\ \A j \in 1..Len(cs) : cs[j].grant = cs[i].grant => i = j
      BY <1>1, <2>2 DEF Registered1
    <3>2. cs[i] \in Credential
      BY <1>0
    <3>3. cs[i].grant \in 1..Len(gs) /\ cs[i].grant # g
      BY <1>0, <1>7, <2>2, <3>1, <3>2 DEF Credential
    <3>4. hs[cs[i].grant] = gs[cs[i].grant]
      BY <1>2, <3>3
    <3> QED BY <1>2, <3>1, <3>4
  <2> QED BY <2>1, <2>2 DEF Registered1
<1>9. ASSUME NEW q \in Procs PROVE Redeems(call'[q], hs, cs, chals')
  <2>1. CASE q = p
    <3>1. hs[c.tok] = n /\ n.st = "used" /\ \A i \in 1..Len(cs) : cs[i].grant # c.tok
      BY <1>2, <1>7
    <3>2. c.pc # "revoke_old" => Replaced(n, cs)
      BY DEF Replaced
    <3> QED BY <1>5, <2>1, <3>1, <3>2 DEF Redeems
  <2>2. CASE q # p
    <3>1. SUFFICES ASSUME Holding(call'[q], chals') PROVE Redeems(call'[q], hs, cs, chals')
      BY DEF Redeems
    <3>2. /\ Holding(call[q], chals) /\ call'[q] = call[q] /\ Redeems(call[q], gs, cs, chals)
          /\ hs[call[q].tok] = gs[call[q].tok]
      BY <1>2, <1>4, <1>6, <2>2, <3>1
    <3> QED BY <3>2 DEF Redeems
  <2> QED BY <2>1, <2>2
<1>10. ASSUME NEW q \in Procs, NEW s \in Procs, Holding(call'[q], chals'), Holding(call'[s], chals'), call'[q].tok = call'[s].tok
       PROVE  q = s
  <2>1. CASE q # p /\ s # p
    BY <1>4, <1>10, <2>1 DEF RedeemInv
  <2>2. CASE q = p /\ s # p
    BY <1>4, <1>5, <1>6, <1>10, <2>2
  <2>3. CASE q # p /\ s = p
    BY <1>4, <1>5, <1>6, <1>10, <2>3
  <2> QED BY <2>1, <2>2, <2>3
<1> QED BY <1>1, <1>8, <1>9, <1>10 DEF RedeemInv, gs, cs, hs

LEMMA LinksEdited ==
    ASSUME NEW gs \in Seq(Grant), NEW i \in 1..Len(gs), NEW a \in Addresses \cup {NoAddr}
    PROVE  LinksAge(gs, [gs EXCEPT ![i] = [gs[i] EXCEPT !.to = a]])
<1>1. gs[i] \in Grant /\ Len(gs) \in Nat
  OBVIOUS
<1> DEFINE g == [gs[i] EXCEPT !.to = a]
<1>2. g \in Grant /\ g.user = gs[i].user /\ g.reason = gs[i].reason /\ g.upto = gs[i].upto /\ g.st = gs[i].st
  BY <1>1 DEF Grant
<1> HIDE DEF g
<1>3. LinksAge(gs, [gs EXCEPT ![i] = g])
  BY <1>1, <1>2, GrantEdited DEF LinksAge
<1> QED BY <1>3 DEF g

\* The request keeps its link from one statement to the next.
LEMMA ProceedsKeep ==
    ASSUME RequestInv, NEW p \in Procs, NEW pc, Proceeds(p, pc), call[p].pc \in {"revoke_old", "set_handle", "create_cred"},
           pc # "revoke_old" => call[p].pc # "revoke_old" \/ Replaced(db'.grants[call[p].tok], db'.creds)
    PROVE  \A q \in Procs : Keeps(q)
<1>1. PICK c : call' = [call EXCEPT ![p] = c] /\ c.pc = pc /\ Same(c, call[p])
  BY DEF Proceeds, Onward, Turned
<1>2. Later
  BY DEF Proceeds
<1>3. call'[p] = c /\ \A q \in Procs : q # p => Keeps(q)
  BY <1>1, <1>2, OthersHold
<1>4. Holding(c, chals') => Holding(call[p], chals)
  <2>1. Names(call[p], db.grants, chals)
    BY InvFacts
  <2> QED BY <1>1, <1>2, <2>1 DEF Holding, Names, Later, GrownChals, Same
<1>5. Keeps(p)
  BY <1>1, <1>3, <1>4 DEF Keeps, Same
<1> QED BY <1>3, <1>5

LEMMA RedeemBusy == ASSUME RequestInv, RedeemInv, NEW p \in Procs, Busy(p), ~Calm(p) PROVE RedeemInv'
<1>0. /\ db \in Tables /\ db.grants \in Seq(Grant) /\ db.creds \in Seq(Credential)
      /\ call[p] \in Call /\ Fits(call[p]) /\ Names(call[p], db.grants, chals)
      /\ LinksAge(db.grants, db.grants) /\ CredsAge(db.creds, db.creds)
  BY InvFacts, TablesFields, LinksSame, CredsSame
<1>1. CASE DeleteTarget(p)
  <2>1. Goes(p, "idle", call[p].tgt) /\ call[p].tgt \in Accounts /\ db' = DeleteUser(db, call[p].tgt)
    BY <1>1, DeleteTargetDoes, RowOf
  <2>2. /\ db'.grants = Without(db.grants, Of(db.grants, call[p].tgt))
        /\ db'.creds = Without(db.creds, Of(db.creds, call[p].tgt))
    BY <1>0, <2>1, DeleteUserDoes
  <2>3. LinksAge(db.grants, db'.grants) /\ CredsAge(db.creds, db'.creds)
    BY <1>0, <2>2, LinksWithout, CredsWithout
  <2> QED BY <2>1, <2>3, RedeemMoves DEF Goes, Onward, Turned, Holding
<1>2. CASE ApplyChanged(p)
  <2>1. /\ Goes(p, "new_session", call[p].tgt) \/ Goes(p, "idle", call[p].tgt)
        /\ db' = DeleteUnusedByUser(db, call[p].tgt)
    BY <1>2, ApplyChangedDoes
  <2>2. db'.grants = Without(db.grants, Unused(db, call[p].tgt)) /\ db'.creds = db.creds
    BY <1>0, <2>1, DeleteUnusedDoes DEF Links
  <2>3. LinksAge(db.grants, db'.grants) /\ CredsAge(db.creds, db'.creds)
    BY <1>0, <2>2, LinksWithout
  <2> QED BY <2>1, <2>3, RedeemMoves DEF Goes, Onward, Turned, Holding
<1>3. CASE SetHandle(p)
  <2>1. Proceeds(p, "create_cred") /\ call[p].pc = "set_handle" /\ Apart(db, db')
    BY <1>3, SetHandleStepDoes DEF Rewrites
  <2>2. LinksAge(db.grants, db'.grants) /\ CredsAge(db.creds, db'.creds)
    BY <1>0, <2>1 DEF Apart
  <2> QED BY <2>1, <2>2, ProceedsKeep, RedeemAges
<1>4. CASE PersistCredential(p)
  <2>1. PICK pc \in {"idle", "new_session"} : Goes(p, pc, call[p].tgt)
    BY <1>4, PersistDoes
  <2>2. PICK h \in Nat, g \in Nat : /\ g = IF call[p].op = "reg_finish" /\ chals[call[p].ref].aad = "webauthn" THEN call[p].tok ELSE 0
                                    /\ NewCredential(call[p].tgt, h, g) \in Credential
                                    /\ Keys(db, db', Append(db.creds, NewCredential(call[p].tgt, h, g)))
    BY <1>4, PersistDoes
  <2>3. call[p].pc = "create_cred"
    BY <1>4, PersistDoes
  <2> DEFINE n == NewCredential(call[p].tgt, h, g)
  <2>4. n \in Credential /\ n.grant = g /\ n.user = call[p].tgt /\ db'.grants = db.grants /\ db'.creds = Append(db.creds, n)
    BY <2>2 DEF NewCredential, Keys
  <2> HIDE DEF n
  <2>6. n.grant = 0 \/ (Holding(call[p], chals) /\ call[p].pc # "revoke_old" /\ n.grant = call[p].tok /\ n.user = call[p].tgt)
    BY <2>2, <2>3, <2>4 DEF Holding
  <2>7. PICK c : call' = [call EXCEPT ![p] = c] /\ c.pc \in {"idle", "new_session"}
    BY <2>1 DEF Goes, Onward, Turned
  <2>8. Later /\ ~Holding(c, chals')
    BY <2>1, <2>7 DEF Goes, Holding
  <2> QED BY <2>4, <2>6, <2>7, <2>8, RedeemRegisters
<1>5. CASE Remove(p) \/ RevokeAll(p)
  <2>1. \E pc \in {"idle", "lock"} : Goes(p, pc, call[p].tgt)
    BY <1>5, CredsDeletedDo
  <2>2. PICK gone : Keys(db, db', Without(db.creds, gone))
    BY <1>5, CredsDeletedDo
  <2>3. LinksAge(db.grants, db'.grants) /\ CredsAge(db.creds, db'.creds)
    BY <1>0, <2>2, CredsWithout DEF Keys
  <2> QED BY <2>1, <2>3, RedeemMoves DEF Goes, Onward, Turned, Holding
<1>6. ASSUME NEW c, Turned(p, c), c.pc \in {"deliver", "recipient"}, Later, NEW why, NEW replaces,
             NewGrant(call[p].tgt, why, replaces) \in Grant,
             Links(db, db', Append(db.grants, NewGrant(call[p].tgt, why, replaces)))
      PROVE  RedeemInv'
  <2> DEFINE g == NewGrant(call[p].tgt, why, replaces)
  <2>1. g \in Grant /\ g.upto = 0 /\ db'.grants = Append(db.grants, g) /\ db'.creds = db.creds
    BY <1>6 DEF NewGrant, Links
  <2> HIDE DEF g
  <2>2. LinksAge(db.grants, db'.grants) /\ CredsAge(db.creds, db'.creds)
    BY <1>0, <2>1, LinksAppend
  <2> QED BY <1>6, <2>2, RedeemMoves DEF Turned, Holding
<1>7. CASE IssueInvite(p) \/ RecoverMint(p)
  <2>1. PICK c : Later /\ Onward(p, c) /\ c.pc = "deliver"
    BY <1>7, IssueDoes
  <2>2. PICK why \in {"invite", "recovery"} : NewGrant(call[p].tgt, why, FALSE) \in Grant
                         /\ Links(db, db', Append(db.grants, NewGrant(call[p].tgt, why, FALSE)))
    BY <1>7, IssueDoes
  <2> QED BY <1>6, <2>1, <2>2 DEF Onward
<1>8. CASE ReplaceLock(p) \/ RecipientAfterMint(p) \/ Fail(p)
  <2>1. PICK c : Turned(p, c) /\ c.pc \in {"replace", "deliver", "idle", "new_session"}
    BY <1>8, ReplaceLockDoes, RecipientDoes, FailDoes DEF Onward
  <2>2. db' = db /\ Later
    BY <1>8, ReplaceLockDoes, RecipientDoes, FailDoes
  <2> QED BY <1>0, <2>1, <2>2, RedeemMoves DEF Turned, Holding
<1>9. CASE ReplaceDelete(p)
  <2>1. Proceeds(p, "mint") /\ db' = DeleteUnusedByUser(db, call[p].tgt)
    BY <1>9, ReplaceDeleteDoes
  <2>2. db'.grants = Without(db.grants, Unused(db, call[p].tgt)) /\ db'.creds = db.creds
    BY <1>0, <2>1, DeleteUnusedDoes DEF Links
  <2>3. LinksAge(db.grants, db'.grants) /\ CredsAge(db.creds, db'.creds)
    BY <1>0, <2>2, LinksWithout
  <2> QED BY <2>1, <2>3, RedeemMoves DEF Proceeds, Onward, Turned, Holding
<1>10. CASE ReplaceMint(p)
  <2>1. Later
    BY <1>10, ReplaceMintDoes
  <2>2. CASE \E c : Turned(p, c) /\ c.pc = "idle" /\ db' = db
    BY <1>0, <2>1, <2>2, RedeemMoves DEF Turned, Holding
  <2>3. CASE ~\E c : Turned(p, c) /\ c.pc = "idle" /\ db' = db
    <3>1. PICK c : Turned(p, c) /\ c.pc = "recipient"
      BY <1>10, <2>3, ReplaceMintDoes
    <3>2. PICK why \in {"invite", "recovery"} : NewGrant(call[p].tgt, why, TRUE) \in Grant
                         /\ Links(db, db', Append(db.grants, NewGrant(call[p].tgt, why, TRUE)))
      BY <1>10, <2>3, ReplaceMintDoes
    <3> QED BY <1>6, <2>1, <3>1, <3>2
  <2> QED BY <2>2, <2>3
<1>11. CASE Deliver(p)
  <2>1. Goes(p, "idle", call[p].tgt) /\ call[p].tok \in 1..Len(db.grants) /\ call[p].row.email \in Addresses \cup {NoAddr}
    BY <1>0, <1>11, DeliverStepDoes DEF Call, User
  <2>2. /\ db'.grants = [db.grants EXCEPT ![call[p].tok] = [db.grants[call[p].tok] EXCEPT !.to = call[p].row.email]]
        /\ db'.creds = db.creds
    BY <1>11, DeliverStepDoes DEF Links
  <2>4. LinksAge(db.grants, [db.grants EXCEPT ![call[p].tok] = [db.grants[call[p].tok] EXCEPT !.to = call[p].row.email]])
    <3> DEFINE i == call[p].tok
               a == call[p].row.email
    <3>1. i \in 1..Len(db.grants) /\ a \in Addresses \cup {NoAddr}
      BY <2>1
    <3> HIDE DEF i, a
    <3>2. LinksAge(db.grants, [db.grants EXCEPT ![i] = [db.grants[i] EXCEPT !.to = a]])
      BY <1>0, <3>1, LinksEdited
    <3> QED BY <3>2 DEF i, a
  <2>3. LinksAge(db.grants, db'.grants) /\ CredsAge(db.creds, db'.creds)
    BY <1>0, <2>2, <2>4
  <2> QED BY <2>1, <2>3, RedeemMoves DEF Goes, Onward, Turned, Holding
<1>12. CASE ConsumeGrant(p)
  <2> DEFINE g == call[p].tok
             n == UsedUp(db.grants[g], Len(db.creds))
  <2>1. PICK pc \in {"revoke_old", "set_handle"} :
            Proceeds(p, pc) /\ (pc = "set_handle" => db.grants[g].reason # "recovery")
    BY <1>12, ConsumeGrantDoes
  <2>2. /\ g \in 1..Len(db.grants) /\ db.grants[g].st = "unused" /\ n \in Grant
        /\ Links(db, db', [db.grants EXCEPT ![g] = n])
    BY <1>12, ConsumeGrantDoes
  <2>3. db.grants[g] \in Grant
    BY <1>0, <2>2
  <2>4. n.user = db.grants[g].user /\ n.st = "used" /\ n.upto = Len(db.creds) /\ n.reason = db.grants[g].reason
    BY <2>3 DEF Grant, UsedUp
  <2>5. PICK c : call' = [call EXCEPT ![p] = c] /\ c.pc = pc /\ c.tok = g
    BY <2>1 DEF Proceeds, Onward, Turned, Same
  <2>6. Later /\ db'.creds = db.creds /\ db'.grants = [db.grants EXCEPT ![g] = n]
    BY <2>1, <2>2 DEF Proceeds, Links
  <2> HIDE DEF n, g
  <2>7. c.pc # "revoke_old" => n.reason # "recovery"
    BY <2>1, <2>4, <2>5
  <2>8. g \in 1..Len(db.grants) /\ db.grants[g].st = "unused" /\ n \in Grant
    BY <2>2
  <2> QED BY <2>4, <2>5, <2>6, <2>7, <2>8, RedeemConsumes, ZenonT(40)
<1>13. CASE RevokeOld(p)
  <2> DEFINE u == call[p].tgt
             ds == Without(db.creds, Of(db.creds, u))
  <2>1. Proceeds(p, "set_handle") /\ call[p].pc = "revoke_old" /\ Keys(db, db', ds)
    BY <1>13, RevokeOldDoes
  <2>2. LinksAge(db.grants, db'.grants) /\ CredsAge(db.creds, db'.creds)
    BY <1>0, <2>1, CredsWithout DEF Keys
  <2>3. Holding(call[p], chals)
    BY <1>0, <2>1 DEF Holding, Fits, Names
  <2>4. call[p].tok \in 1..Len(db.grants) /\ db.grants[call[p].tok].user = u
    BY <2>3, HolderNames
  <2>5. db.grants[call[p].tok] \in Grant
    BY <1>0, <2>4
  <2>6. db.grants[call[p].tok].upto \in Nat /\ db.grants[call[p].tok].upto <= Len(db.creds) /\ Len(db.creds) \in Nat
    BY <1>0, <2>4, <2>5 DEF Grant, RedeemInv, Registered1
  <2>7. \A j \in 1..Len(db.creds) : ds[j].user = u => ds[j].st = "gone"
    BY <1>0, WithoutCreds DEF Of
  <2>8. Replaced(db'.grants[call[p].tok], db'.creds)
    BY <2>1, <2>4, <2>6, <2>7 DEF Replaced, Keys
  <2> QED BY <2>1, <2>2, <2>8, ProceedsKeep, RedeemAges
<1>14. CASE ConsumeBootstrap(p)
  <2>1. Proceeds(p, "create_admin") /\ db' = ConsumeBoot(db)
    BY <1>14, ConsumeBootstrapDoes
  <2>2. db'.grants = db.grants /\ db'.creds = db.creds
    BY <1>0, <2>1, ConsumeBootDoes
  <2> QED BY <1>0, <2>1, <2>2, RedeemMoves DEF Proceeds, Onward, Turned, Holding
<1>15. CASE CreateAdmin(p)
  <2>1. Later /\ chals[call[p].ref].aad = "claim" /\ call[p].pc = "create_admin"
    BY <1>15, CreateAdminDoes
  <2>2. CASE Goes(p, "idle", call[p].tgt) /\ db' = db
    BY <1>0, <2>2, RedeemMoves DEF Goes, Onward, Turned, Holding
  <2>3. CASE ~(Goes(p, "idle", call[p].tgt) /\ db' = db)
    <3>1. PICK c : Onward(p, c) /\ c.pc = "set_handle" /\ c.op = call[p].op /\ c.ref = call[p].ref
      BY <1>15, <2>3, CreateAdminDoes
    <3>2. \E a : Arrives(p, a, "admin", Nobody, "claim")
      BY <1>15, <2>3, CreateAdminDoes
    <3>3. db'.grants = db.grants /\ db'.creds = db.creds
      BY <3>2 DEF Arrives, Rewrites, Apart
    <3>4. chals'[c.ref].aad = "claim"
      BY <1>0, <2>1, <3>1 DEF Fits, Names, Later, GrownChals
    <3> QED BY <1>0, <2>1, <3>1, <3>3, <3>4, RedeemMoves DEF Onward, Turned, Holding
  <2> QED BY <2>2, <2>3
<1> QED BY <1>1, <1>2, <1>3, <1>4, <1>5, <1>7, <1>8, <1>9, <1>10, <1>11, <1>12, <1>13, <1>14, <1>15 DEF Busy

LEMMA RedeemInvNext == ASSUME RequestInv, RedeemInv, [Next]_vars PROVE RedeemInv'
<1>0. /\ db \in Tables /\ db.grants \in Seq(Grant) /\ db.creds \in Seq(Credential)
      /\ LinksAge(db.grants, db.grants) /\ CredsAge(db.creds, db.creds)
  BY TablesFields, LinksSame, CredsSame DEF RequestInv, TypeOK
<1>1. ASSUME NEW p \in Procs, Calm(p) PROVE RedeemInv'
  <2>1. PICK c : call' = [call EXCEPT ![p] = c] /\ Settled(c)
    BY <1>1 DEF Calm
  <2>2. Later /\ db'.grants = db.grants /\ db'.creds = db.creds
    BY <1>1 DEF Calm, Aside, Apart
  <2>3. ~Holding(c, chals')
    BY <2>1 DEF Holding, Settled, QuietPcs, PlainPcs
  <2> QED BY <1>0, <2>1, <2>2, <2>3, RedeemMoves
<1>2. ASSUME NEW p \in Procs, AccountWrite(p) PROVE RedeemInv'
  <2>1. PICK c : call' = [call EXCEPT ![p] = c] /\ c.pc \in PlainPcs \cup {"set_dis", "drop"}
    BY <1>2 DEF AccountWrite, Goes, Onward, Turned
  <2>2. Later /\ db'.grants = db.grants /\ db'.creds = db.creds
    BY <1>2 DEF AccountWrite, Goes, Apart
  <2>3. ~Holding(c, chals')
    BY <2>1 DEF Holding, PlainPcs
  <2> QED BY <1>0, <2>1, <2>2, <2>3, RedeemMoves
<1>3. CASE Restart
  <2>1. call' = [p \in Procs |-> NoCall] /\ (db' = db \/ db' = SetTokenHash(db))
    BY <1>3, RestartDoes
  <2>2. db'.grants = db.grants /\ db'.creds = db.creds
    BY <1>0, <2>1, SetTokenDoes
  <2>3. NoCall.pc = "idle"
    BY DEF NoCall
  <2> HIDE DEF NoCall
  <2>4. \A q \in Procs : Keeps(q)
    BY <2>1, <2>3 DEF Keeps, Holding
  <2> QED BY <1>0, <2>2, <2>4, RedeemAges
<1>4. ASSUME Meanwhile PROVE RedeemInv'
  <2>1. LinksAge(db.grants, db'.grants) /\ CredsAge(db.creds, db'.creds)
    BY <1>0, <1>4 DEF Meanwhile, LinksAge
  <2>2. \A q \in Procs : Keeps(q)
    BY <1>4 DEF Meanwhile, Keeps
  <2> QED BY <2>1, <2>2, RedeemAges
<1>5. CASE UNCHANGED vars
  <2>1. db' = db /\ \A q \in Procs : Keeps(q)
    BY <1>5 DEF vars, Keeps
  <2> QED BY <1>0, <2>1, RedeemAges
<1> QED BY <1>1, <1>2, <1>3, <1>4, <1>5, StepsAre, RedeemBusy, ExpireDoes, PruneDoes

LEMMA RedeemInvAlways == Spec => []RedeemInv
<1>1. Init => RedeemInv
  <2>1. NoCall.pc = "idle"
    BY DEF NoCall
  <2> HIDE DEF NoCall
  <2>2. SUFFICES ASSUME Init PROVE RedeemInv
    OBVIOUS
  <2>3. Consistent(db) /\ call = [p \in Procs |-> NoCall] /\ db \in Tables
    BY <2>2, InitFacts
  <2>4. db.grants \in Seq(Grant) /\ db.creds \in Seq(Credential) /\ Len(db.creds) \in Nat
    BY <2>3, TablesFields
  <2>5. Registered1(db.grants, db.creds)
    <3>1. \A i \in 1..Len(db.grants) : db.grants[i].upto = 0
      BY <2>3 DEF Consistent
    <3>2. \A i \in 1..Len(db.creds) : db.creds[i].grant = 0
      BY <2>3 DEF Consistent
    <3>3. \A i \in 1..Len(db.grants) : db.grants[i].upto <= Len(db.creds)
      BY <2>4, <3>1
    <3> QED BY <3>2, <3>3 DEF Registered1
  <2> QED BY <2>1, <2>3, <2>5 DEF RedeemInv, Redeems, Holding
<1>2. RequestInv /\ RedeemInv /\ [Next]_vars => RedeemInv'
  BY RedeemInvNext
<1> QED BY <1>1, <1>2, RequestInvAlways, PTL DEF Spec

(***************************************************************************)
(* Of any number of redemptions of one link, in whatever order and however *)
(* often the server restarts in between, one at most registers a           *)
(* credential (RedeemFinish, AccountRecoveryRepo.Consume).                *)
(***************************************************************************)
THEOREM GrantOnceAlways == Spec => []GrantOnce
<1>1. RequestInv /\ RedeemInv => GrantOnce
  <2>1. SUFFICES ASSUME RequestInv, RedeemInv, NEW g \in 1..Len(db.grants)
                 PROVE  Cardinality({i \in 1..Len(db.creds) : db.creds[i].grant = g}) <= 1
    BY DEF GrantOnce
  <2> DEFINE R == {i \in 1..Len(db.creds) : db.creds[i].grant = g}
  <2>2. Len(db.grants) \in Nat
    BY <2>1, TablesFields DEF RequestInv, TypeOK
  <2>3. \A i, j \in R : i = j
    BY <2>1, <2>2 DEF RedeemInv, Registered1
  <2>6. SUFFICES Cardinality(R) <= 1
    OBVIOUS
  <2> HIDE DEF R
  <2>4. CASE R = {}
    BY <2>4, FS_EmptySet
  <2>5. CASE R # {}
    <3>1. PICK i : i \in R
      BY <2>5
    <3>2. R = {i}
      BY <2>3, <3>1
    <3>3. Cardinality({i}) = 1
      BY FS_Singleton
    <3> QED BY <3>2, <3>3
  <2> QED BY <2>4, <2>5
<1> QED BY <1>1, RequestInvAlways, RedeemInvAlways, PTL

(***************************************************************************)
(* Once a recovery has registered a credential, every credential the       *)
(* account had when the link was consumed is gone, also when the process   *)
(* was interrupted or another ceremony finished in between (RedeemFinish). *)
(***************************************************************************)
THEOREM RecoveryReplacesAlways == Spec => []RecoveryReplaces
<1>1. RequestInv /\ RedeemInv => RecoveryReplaces
  BY DEF RedeemInv, Registered1, Replaced, RecoveryReplaces
<1> QED BY <1>1, RequestInvAlways, RedeemInvAlways, PTL

-----------------------------------------------------------------------------
(* Replacing a link: one at a time, and mailed to who is there *)

\* Links stay whose they are, and none is renewed.
Fades(gs, hs) ==
    /\ Len(hs) = Len(gs)
    /\ \A i \in 1..Len(gs) : hs[i].user = gs[i].user /\ hs[i].replaces = gs[i].replaces /\ (hs[i].st = "unused" => gs[i].st = "unused")

LEMMA FadesSame == ASSUME NEW gs \in Seq(Grant) PROVE Fades(gs, gs)
BY DEF Fades
LEMMA FadesWithout ==
    ASSUME NEW gs \in Seq(Grant), NEW X
    PROVE  /\ Fades(gs, Without(gs, X))
           /\ \A i \in 1..Len(gs) : Without(gs, X)[i].to = gs[i].to /\ (i \in X => Without(gs, X)[i].st # "unused")
BY WithoutGrants DEF Fades

LEMMA LinkKept ==
    ASSUME RequestInv, LinkInv, Fades(db.grants, db'.grants),
           \A i \in 1..Len(db.grants) : db'.grants[i].st = "unused" => db.grants[i].user \in Rows(db'),
           \A q \in Procs : call'[q].pc = "mint" =>
               \/ call[q].pc = "mint" /\ call'[q].tgt = call[q].tgt
               \/ \A i \in Replacements(db'.grants) : db'.grants[i].user # call'[q].tgt
    PROVE  LinkInv'
<1> DEFINE gs == db.grants
           hs == db'.grants
<1>1. Fades(gs, hs)
  OBVIOUS
<1>2. /\ \A i, j \in Replacements(gs) : gs[i].user = gs[j].user => i = j
      /\ \A q \in Procs : call[q].pc = "mint" => \A i \in Replacements(gs) : gs[i].user # call[q].tgt
  BY DEF LinkInv, At
<1>3. \A i \in 1..Len(gs) : hs[i].st = "unused" => gs[i].user \in Rows(db')
  OBVIOUS
<1>4. \A q \in Procs : call'[q].pc = "mint" =>
               \/ call[q].pc = "mint" /\ call'[q].tgt = call[q].tgt
               \/ \A i \in Replacements(hs) : hs[i].user # call'[q].tgt
  OBVIOUS
<1> HIDE DEF gs, hs
<1>5. \A i \in Replacements(hs) : i \in Replacements(gs) /\ hs[i].user = gs[i].user
  BY <1>1 DEF Fades, Replacements
<1>6. \A i \in 1..Len(hs) : hs[i].st = "unused" => hs[i].user \in Rows(db')
  BY <1>1, <1>3 DEF Fades
<1>7. \A i, j \in Replacements(hs) : hs[i].user = hs[j].user => i = j
  BY <1>2, <1>5
<1>8. \A q \in Procs : call'[q].pc = "mint" => \A i \in Replacements(hs) : hs[i].user # call'[q].tgt
  BY <1>2, <1>4, <1>5
<1> QED BY <1>6, <1>7, <1>8 DEF LinkInv, At, hs

\* The account keeps its address or has a request that drops its links, and keeps that.
StillDropping(v) == \E p \in Procs : call'[p].pc = "drop" /\ call'[p].tgt = v
Follows(v) == (NormalizeAddress(db'.users[v].email) = NormalizeAddress(db.users[v].email) \/ StillDropping(v)) /\ (Dropping(v) => StillDropping(v))

LEMMA MailKept ==
    ASSUME RequestInv, MailInv, Fades(db.grants, db'.grants), spent'.faults = 0 => spent.faults = 0,
           \A i \in 1..Len(db.grants) : db'.grants[i].st = "unused" =>
               /\ Follows(db.grants[i].user)
               /\ \/ db'.grants[i].to = db.grants[i].to
                  \/ \E q \in Procs : call[q].pc = "deliver" /\ call[q].tok = i /\ NormalizeAddress(db'.grants[i].to) = NormalizeAddress(call[q].row.email),
           \A q \in Procs : call'[q].pc = "deliver" =>
               \/ call[q].pc = "deliver" /\ call'[q].tok = call[q].tok /\ call'[q].row = call[q].row
               \/ /\ call'[q].tok \in 1..Len(db.grants)
                  /\ NormalizeAddress(call'[q].row.email) = NormalizeAddress(db'.users[db.grants[call'[q].tok].user].email)
    PROVE  MailInv'
<1>0. SUFFICES ASSUME spent'.faults = 0 PROVE MailInv'
  BY DEF MailInv, AdminLinksCurrent
<1> DEFINE gs == db.grants
           hs == db'.grants
<1>1. Fades(gs, hs)
  OBVIOUS
<1>2. /\ \A i \in 1..Len(gs) : gs[i].st = "unused" /\ gs[i].replaces /\ gs[i].to # NoAddr =>
            NormalizeAddress(gs[i].to) = NormalizeAddress(db.users[gs[i].user].email) \/ Dropping(gs[i].user)
      /\ \A q \in Procs : call[q].pc = "deliver" /\ gs[call[q].tok].st = "unused" /\ gs[call[q].tok].replaces =>
            NormalizeAddress(call[q].row.email) = NormalizeAddress(db.users[gs[call[q].tok].user].email) \/ Dropping(gs[call[q].tok].user)
  BY <1>0 DEF MailInv, AdminLinksCurrent, At, Dropping
<1>3. \A i \in 1..Len(gs) : hs[i].st = "unused" =>
               /\ Follows(gs[i].user)
               /\ \/ hs[i].to = gs[i].to
                  \/ \E q \in Procs : call[q].pc = "deliver" /\ call[q].tok = i /\ NormalizeAddress(hs[i].to) = NormalizeAddress(call[q].row.email)
  OBVIOUS
<1>4. \A q \in Procs : call'[q].pc = "deliver" =>
               \/ call[q].pc = "deliver" /\ call'[q].tok = call[q].tok /\ call'[q].row = call[q].row
               \/ call'[q].tok \in 1..Len(gs) /\ NormalizeAddress(call'[q].row.email) = NormalizeAddress(db'.users[gs[call'[q].tok].user].email)
  OBVIOUS
<1>5. \A q \in Procs : call[q].pc = "deliver" => call[q].tok \in 1..Len(gs)
  BY InvFacts DEF Names
<1> HIDE DEF gs, hs
<1>6. \A i \in 1..Len(hs) : hs[i].st = "unused" /\ hs[i].replaces /\ hs[i].to # NoAddr =>
            NormalizeAddress(hs[i].to) = NormalizeAddress(db'.users[hs[i].user].email) \/ StillDropping(hs[i].user)
  <2>1. TAKE i \in 1..Len(hs)
  <2>2. HAVE hs[i].st = "unused" /\ hs[i].replaces /\ hs[i].to # NoAddr
  <2>3. i \in 1..Len(gs) /\ gs[i].st = "unused" /\ gs[i].replaces /\ hs[i].user = gs[i].user /\ Follows(gs[i].user)
    BY <1>1, <1>3, <2>2 DEF Fades
  <2>4. NormalizeAddress(hs[i].to) = NormalizeAddress(db.users[gs[i].user].email) \/ Dropping(gs[i].user)
    BY <1>2, <1>3, <2>2, <2>3
  <2> QED BY <2>3, <2>4 DEF Follows
<1>7. \A q \in Procs : call'[q].pc = "deliver" /\ hs[call'[q].tok].st = "unused" /\ hs[call'[q].tok].replaces =>
            NormalizeAddress(call'[q].row.email) = NormalizeAddress(db'.users[hs[call'[q].tok].user].email) \/ StillDropping(hs[call'[q].tok].user)
  <2>1. TAKE q \in Procs
  <2>2. HAVE call'[q].pc = "deliver" /\ hs[call'[q].tok].st = "unused" /\ hs[call'[q].tok].replaces
  <2> DEFINE i == call'[q].tok
  <2>3. i \in 1..Len(gs)
    BY <1>4, <1>5, <2>2
  <2>4. gs[i].st = "unused" /\ gs[i].replaces /\ hs[i].user = gs[i].user /\ Follows(gs[i].user)
    BY <1>1, <1>3, <2>2, <2>3 DEF Fades
  <2>5. CASE call[q].pc = "deliver" /\ i = call[q].tok /\ call'[q].row = call[q].row
    <3>1. gs[call[q].tok].st = "unused" /\ gs[call[q].tok].replaces /\ call[q].pc = "deliver"
      BY <2>4, <2>5
    <3>2. NormalizeAddress(call[q].row.email) = NormalizeAddress(db.users[gs[call[q].tok].user].email) \/ Dropping(gs[call[q].tok].user)
      BY <1>2, <3>1
    <3>3. NormalizeAddress(call'[q].row.email) = NormalizeAddress(db.users[gs[i].user].email) \/ Dropping(gs[i].user)
      BY <2>5, <3>2
    <3>4. ASSUME NEW v, Follows(v), NEW a, a = NormalizeAddress(db.users[v].email) \/ Dropping(v)
          PROVE  a = NormalizeAddress(db'.users[v].email) \/ StillDropping(v)
      BY <3>4 DEF Follows
    <3>5. NormalizeAddress(call'[q].row.email) = NormalizeAddress(db'.users[gs[i].user].email) \/ StillDropping(gs[i].user)
      BY <2>4, <3>3, <3>4
    <3>6. hs[i].user = gs[i].user
      BY <2>4
    <3>7. NormalizeAddress(call'[q].row.email) = NormalizeAddress(db'.users[hs[i].user].email) \/ StillDropping(hs[i].user)
      BY <3>5, <3>6
    <3> QED BY <3>7
  <2>6. CASE NormalizeAddress(call'[q].row.email) = NormalizeAddress(db'.users[gs[i].user].email)
    BY <2>4, <2>6
  <2> QED BY <1>4, <2>2, <2>5, <2>6
<1> QED BY <1>6, <1>7 DEF MailInv, AdminLinksCurrent, At, Dropping, StillDropping, hs

\* A link is minted, to replace others only where there is none and nobody else mints.
LEMMA LinkAppended ==
    ASSUME RequestInv, LinkInv, NEW g \in Grant, db'.grants = Append(db.grants, g), db'.users = db.users, g.user \in Rows(db),
           g.replaces => /\ \A i \in Replacements(db.grants) : db.grants[i].user # g.user
                         /\ \A q \in Procs : call'[q].pc # "mint",
           \A q \in Procs : call'[q].pc = "mint" => call[q].pc = "mint" /\ call'[q].tgt = call[q].tgt
    PROVE  LinkInv'
<1> DEFINE gs == db.grants
           hs == db'.grants
<1>0. gs \in Seq(Grant) /\ Len(gs) \in Nat
  BY TablesFields DEF RequestInv, TypeOK
<1>1. Len(hs) = Len(gs) + 1 /\ hs[Len(gs) + 1] = g /\ \A i \in 1..Len(gs) : hs[i] = gs[i]
  BY <1>0, AppendGrown
<1>2. /\ \A i \in 1..Len(gs) : gs[i].st = "unused" => gs[i].user \in Rows(db)
      /\ \A i, j \in Replacements(gs) : gs[i].user = gs[j].user => i = j
      /\ \A q \in Procs : call[q].pc = "mint" => \A i \in Replacements(gs) : gs[i].user # call[q].tgt
  BY DEF LinkInv, At
<1>3. Rows(db') = Rows(db)
  BY DEF Rows
<1>4. g.replaces => \A i \in Replacements(gs) : gs[i].user # g.user
  OBVIOUS
<1> HIDE DEF gs, hs
<1>5. \A i \in 1..Len(hs) : i \in 1..Len(gs) \/ i = Len(gs) + 1
  BY <1>0, <1>1
<1>6. \A i \in 1..Len(hs) : hs[i].st = "unused" => hs[i].user \in Rows(db')
  BY <1>1, <1>2, <1>3, <1>5
<1>7. \A i \in Replacements(hs) : (i \in Replacements(gs) /\ hs[i] = gs[i]) \/ (i = Len(gs) + 1 /\ g.replaces /\ hs[i] = g)
  BY <1>1, <1>5 DEF Replacements
<1>8. \A i, j \in Replacements(hs) : hs[i].user = hs[j].user => i = j
  BY <1>2, <1>4, <1>7
<1>9. \A q \in Procs : call'[q].pc = "mint" => \A i \in Replacements(hs) : hs[i].user # call'[q].tgt
  BY <1>2, <1>7
<1> QED BY <1>6, <1>8, <1>9 DEF LinkInv, At, hs

LEMMA MailAppended ==
    ASSUME RequestInv, MailInv, NEW g \in Grant, db'.grants = Append(db.grants, g), db'.users = db.users, g.to = NoAddr,
           spent'.faults = 0 => spent.faults = 0, \A v : Dropping(v) => StillDropping(v),
           \A q \in Procs : call'[q].pc = "deliver" =>
               \/ call[q].pc = "deliver" /\ call'[q].tok = call[q].tok /\ call'[q].row = call[q].row
               \/ call'[q].tok = Len(db.grants) + 1 /\ ~g.replaces
    PROVE  MailInv'
<1>0. SUFFICES ASSUME spent'.faults = 0 PROVE MailInv'
  BY DEF MailInv, AdminLinksCurrent
<1> DEFINE gs == db.grants
           hs == db'.grants
<1>1. gs \in Seq(Grant) /\ Len(gs) \in Nat
  BY TablesFields DEF RequestInv, TypeOK
<1>2. Len(hs) = Len(gs) + 1 /\ hs[Len(gs) + 1] = g /\ \A i \in 1..Len(gs) : hs[i] = gs[i]
  BY <1>1, AppendGrown
<1>3. /\ \A i \in 1..Len(gs) : gs[i].st = "unused" /\ gs[i].replaces /\ gs[i].to # NoAddr =>
            NormalizeAddress(gs[i].to) = NormalizeAddress(db.users[gs[i].user].email) \/ Dropping(gs[i].user)
      /\ \A q \in Procs : call[q].pc = "deliver" /\ gs[call[q].tok].st = "unused" /\ gs[call[q].tok].replaces =>
            NormalizeAddress(call[q].row.email) = NormalizeAddress(db.users[gs[call[q].tok].user].email) \/ Dropping(gs[call[q].tok].user)
  BY <1>0 DEF MailInv, AdminLinksCurrent, At, Dropping
<1>4. \A q \in Procs : call[q].pc = "deliver" => call[q].tok \in 1..Len(gs)
  BY InvFacts DEF Names
<1>5. \A q \in Procs : call'[q].pc = "deliver" =>
               \/ call[q].pc = "deliver" /\ call'[q].tok = call[q].tok /\ call'[q].row = call[q].row
               \/ call'[q].tok = Len(gs) + 1 /\ ~g.replaces
  OBVIOUS
<1> HIDE DEF gs, hs
<1>6. \A i \in 1..Len(hs) : hs[i].st = "unused" /\ hs[i].replaces /\ hs[i].to # NoAddr =>
            NormalizeAddress(hs[i].to) = NormalizeAddress(db'.users[hs[i].user].email) \/ StillDropping(hs[i].user)
  <2>1. TAKE i \in 1..Len(hs)
  <2>2. HAVE hs[i].st = "unused" /\ hs[i].replaces /\ hs[i].to # NoAddr
  <2>3. i \in 1..Len(gs)
    BY <1>1, <1>2, <2>2
  <2> QED BY <1>2, <1>3, <2>2, <2>3
<1>7. \A q \in Procs : call'[q].pc = "deliver" /\ hs[call'[q].tok].st = "unused" /\ hs[call'[q].tok].replaces =>
            NormalizeAddress(call'[q].row.email) = NormalizeAddress(db'.users[hs[call'[q].tok].user].email) \/ StillDropping(hs[call'[q].tok].user)
  <2>1. TAKE q \in Procs
  <2>2. HAVE call'[q].pc = "deliver" /\ hs[call'[q].tok].st = "unused" /\ hs[call'[q].tok].replaces
  <2>3. call[q].pc = "deliver" /\ call'[q].tok = call[q].tok /\ call'[q].row = call[q].row
    BY <1>2, <1>5, <2>2
  <2>4. hs[call[q].tok] = gs[call[q].tok]
    BY <1>2, <1>4, <2>3
  <2>5. NormalizeAddress(call[q].row.email) = NormalizeAddress(db.users[gs[call[q].tok].user].email) \/ Dropping(gs[call[q].tok].user)
    BY <1>3, <2>2, <2>3, <2>4
  <2> QED BY <2>3, <2>4, <2>5
<1> QED BY <1>6, <1>7 DEF MailInv, AdminLinksCurrent, At, Dropping, StillDropping, hs

\* Only p moves.
LEMMA OthersStay ==
    ASSUME RequestInv, NEW p \in Procs, NEW c, call' = [call EXCEPT ![p] = c]
    PROVE  /\ call'[p] = c /\ \A q \in Procs : q # p => call'[q] = call[q]
           /\ call[p].pc # "drop" => \A v : Dropping(v) => StillDropping(v)
<1>1. call \in [Procs -> Call]
  BY DEF RequestInv, TypeOK
<1>2. call'[p] = c /\ \A q \in Procs : q # p => call'[q] = call[q]
  BY <1>1
<1> QED BY <1>2 DEF Dropping, StillDropping, At

\* The links fade, accounts keep their address or p is about to drop their links.
LEMMA StandKept ==
    ASSUME RequestInv, LinkInv, MailInv, NEW p \in Procs, NEW c, call' = [call EXCEPT ![p] = c],
           c.pc \notin {"mint", "deliver"}, call[p].pc # "drop", spent'.faults = 0 => spent.faults = 0,
           Fades(db.grants, db'.grants), \A i \in 1..Len(db.grants) : db'.grants[i].to = db.grants[i].to,
           \A i \in 1..Len(db.grants) : db'.grants[i].st = "unused" => db.grants[i].user \in Rows(db'),
           \A v \in Rows(db) : v \in Rows(db') => NormalizeAddress(db'.users[v].email) = NormalizeAddress(db.users[v].email) \/ (c.pc = "drop" /\ c.tgt = v)
    PROVE  LinkInv' /\ MailInv'
<1>1. call'[p] = c /\ (\A q \in Procs : q # p => call'[q] = call[q]) /\ \A v : Dropping(v) => StillDropping(v)
  BY OthersStay
<1>2. \A q \in Procs : call'[q].pc \in {"mint", "deliver"} => call'[q] = call[q]
  BY <1>1
<1>3. LinkInv'
  BY <1>2, LinkKept
<1>4. \A i \in 1..Len(db.grants) : db'.grants[i].st = "unused" => db.grants[i].user \in Rows(db)
  BY DEF LinkInv, Fades
<1>5. c.pc = "drop" => StillDropping(c.tgt)
  BY <1>1 DEF StillDropping
<1>6. \A v \in Rows(db) : v \in Rows(db') => Follows(v)
  BY <1>1, <1>5 DEF Follows
<1>7. \A i \in 1..Len(db.grants) : db'.grants[i].st = "unused" => Follows(db.grants[i].user) /\ db'.grants[i].to = db.grants[i].to
  BY <1>4, <1>6
<1>8. MailInv'
  BY <1>2, <1>7, MailKept
<1> QED BY <1>3, <1>8

\* The grants stay, and accounts too.
LEMMA StandQuiet ==
    ASSUME RequestInv, LinkInv, MailInv, NEW p \in Procs, NEW c, call' = [call EXCEPT ![p] = c],
           c.pc \notin {"mint", "deliver"}, call[p].pc # "drop", spent'.faults = 0 => spent.faults = 0,
           db'.grants = db.grants, RowsKept,
           \A v \in Rows(db) : NormalizeAddress(db'.users[v].email) = NormalizeAddress(db.users[v].email) \/ (c.pc = "drop" /\ c.tgt = v)
    PROVE  LinkInv' /\ MailInv'
<1>1. Fades(db.grants, db'.grants)
  BY TablesFields, FadesSame DEF RequestInv, TypeOK
<1>2. \A i \in 1..Len(db.grants) : db'.grants[i].st = "unused" => db.grants[i].user \in Rows(db')
  BY DEF LinkInv, RowsKept
<1> QED BY <1>1, <1>2, StandKept

LEMMA StandQuietBusy ==
    ASSUME RequestInv, LinkInv, MailInv, NEW p \in Procs, ~Calm(p),
           \/ SetHandle(p) \/ PersistCredential(p) \/ Remove(p) \/ RevokeAll(p) \/ RevokeOld(p) \/ ConsumeBootstrap(p)
           \/ ReplaceLock(p) \/ CreateAdmin(p)
    PROVE  LinkInv' /\ MailInv'
<1>0. db \in Tables
  BY InvFacts
<1>1. ASSUME NEW c, Turned(p, c), c.pc \notin {"mint", "deliver"}, call[p].pc # "drop", spent' = spent, db'.grants = db.grants,
             RowsKept, \A pc, u : MailsKept(pc, u)
      PROVE  LinkInv' /\ MailInv'
  <2>1. \A v \in Rows(db) : NormalizeAddress(db'.users[v].email) = NormalizeAddress(db.users[v].email)
    BY <1>1 DEF MailsKept
  <2> QED BY <1>1, <2>1, StandQuiet DEF Turned
<1>2. RowsKept /\ \A pc, u : MailsKept(pc, u)
  <2>1. CASE CreateAdmin(p)
    BY <2>1, ClaimedRow
  <2>2. CASE ~CreateAdmin(p)
    <3>1. ~DeleteTarget(p) /\ Busy(p)
      BY <2>2 DEF Busy, DeleteTarget, SetHandle, PersistCredential, Remove, RevokeAll, RevokeOld, ConsumeBootstrap, ReplaceLock, At
    <3> QED BY <2>2, <3>1, BusySteady DEF RowsSteady
  <2> QED BY <2>1, <2>2
<1>3. CASE SetHandle(p) \/ RevokeOld(p) \/ ConsumeBootstrap(p)
  <2>1. \E pc \in {"create_cred", "set_handle", "create_admin"} : Proceeds(p, pc)
    BY <1>3, SetHandleStepDoes, RevokeOldDoes, ConsumeBootstrapDoes
  <2>2. call[p].pc \in {"set_handle", "revoke_old", "consume_boot"}
    BY <1>3 DEF SetHandle, RevokeOld, ConsumeBootstrap, At
  <2>3. db'.grants = db.grants
    BY <1>0, <1>3, SetHandleStepDoes, RevokeOldDoes, ConsumeBootstrapDoes, ConsumeBootDoes DEF Rewrites, Apart, Keys
  <2>4. PICK c : Onward(p, c) /\ c.pc \in {"create_cred", "set_handle", "create_admin"}
    BY <2>1 DEF Proceeds
  <2> QED BY <1>1, <1>2, <2>2, <2>3, <2>4 DEF Onward
<1>4. CASE PersistCredential(p) \/ Remove(p) \/ RevokeAll(p)
  <2>1. \E pc \in {"idle", "new_session", "lock"} : Goes(p, pc, call[p].tgt)
    BY <1>4, PersistDoes, CredsDeletedDo
  <2>2. call[p].pc \in {"create_cred", "remove", "revoke_all"}
    BY <1>4 DEF PersistCredential, Remove, RevokeAll, At
  <2>3. db'.grants = db.grants
    BY <1>4, PersistDoes, CredsDeletedDo DEF Keys
  <2>4. PICK c : Onward(p, c) /\ c.pc \in {"idle", "new_session", "lock"}
    BY <2>1 DEF Goes
  <2> QED BY <1>1, <1>2, <2>2, <2>3, <2>4 DEF Onward
<1>5. CASE ReplaceLock(p)
  <2>1. PICK c : Turned(p, c) /\ c.pc = "replace"
    BY <1>5, ReplaceLockDoes
  <2>2. db' = db /\ spent' = spent /\ call[p].pc = "lock"
    BY <1>5, ReplaceLockDoes
  <2> QED BY <1>1, <1>2, <2>1, <2>2
<1>6. CASE CreateAdmin(p)
  <2>1. PICK c : Onward(p, c) /\ c.pc \in {"idle", "set_handle"}
    BY <1>6, CreateAdminDoes DEF Goes
  <2>2. db'.grants = db.grants /\ call[p].pc = "create_admin"
    BY <1>6, ClaimedRow DEF At
  <2> QED BY <1>1, <1>2, <2>1, <2>2 DEF Onward
<1> QED BY <1>3, <1>4, <1>5, <1>6

LEMMA StandDeletes ==
    ASSUME RequestInv, LinkInv, MailInv, NEW p \in Procs, DeleteTarget(p), ~Calm(p)
    PROVE  LinkInv' /\ MailInv'
<1> DEFINE u == call[p].tgt
           X == Of(db.grants, u)
<1>1. db \in Tables /\ u \in Accounts /\ Goes(p, "idle", u) /\ db' = DeleteUser(db, u)
  BY InvFacts, DeleteTargetDoes, RowOf
<1>2. db.grants \in Seq(Grant) /\ db'.grants = Without(db.grants, X)
  BY <1>1, TablesFields, DeleteUserDoes
<1>3. call[p].pc = "delete" /\ \A v \in Accounts : v # u => db'.users[v] = db.users[v]
  BY DeletedRow
<1>4. Fades(db.grants, db'.grants) /\ \A i \in 1..Len(db.grants) : db'.grants[i].to = db.grants[i].to /\ (i \in X => db'.grants[i].st # "unused")
  BY <1>2, FadesWithout
<1>5. \A i \in 1..Len(db.grants) : db'.grants[i].st = "unused" => db.grants[i].st = "unused" /\ i \notin X /\ db.grants[i].user \in Rows(db)
  BY <1>4 DEF Fades, LinkInv
<1>6. \A i \in 1..Len(db.grants) : db'.grants[i].st = "unused" => db.grants[i].user # u
  BY <1>5 DEF Of
<1>7. \A v \in Rows(db) : v # u => v \in Rows(db') /\ NormalizeAddress(db'.users[v].email) = NormalizeAddress(db.users[v].email)
  BY <1>3 DEF Rows
<1>8. u \notin Rows(db')
  BY DeletedRow
<1>9. \A i \in 1..Len(db.grants) : db'.grants[i].st = "unused" => db.grants[i].user \in Rows(db')
  BY <1>5, <1>6, <1>7
<1>10. PICK c : Onward(p, c) /\ c.pc = "idle"
  BY <1>1 DEF Goes
<1>11. call' = [call EXCEPT ![p] = c] /\ spent' = spent
  BY <1>10 DEF Onward, Turned
<1> HIDE DEF u, X
<1> QED BY <1>3, <1>4, <1>7, <1>8, <1>9, <1>10, <1>11, StandKept

\* A change of address drops the account's links.
LEMMA StandDrops ==
    ASSUME RequestInv, LinkInv, MailInv, NEW p \in Procs, ApplyChanged(p)
    PROVE  LinkInv' /\ MailInv'
<1> DEFINE u == call[p].tgt
           X == Unused(db, u)
<1>1. db \in Tables /\ db' = DeleteUnusedByUser(db, u) /\ call[p].pc = "drop"
  BY InvFacts, ApplyChangedDoes
<1>2. db.grants \in Seq(Grant) /\ db'.grants = Without(db.grants, X) /\ db'.users = db.users
  BY <1>1, TablesFields, DeleteUnusedDoes DEF Links
<1>3. PICK c : Onward(p, c) /\ c.pc \in {"new_session", "idle"}
  BY ApplyChangedDoes DEF Goes
<1>4. call' = [call EXCEPT ![p] = c] /\ spent' = spent
  BY <1>3 DEF Onward, Turned
<1>5. call'[p] = c /\ \A q \in Procs : q # p => call'[q] = call[q]
  BY <1>4, OthersStay
<1>6. Fades(db.grants, db'.grants) /\ \A i \in 1..Len(db.grants) : db'.grants[i].to = db.grants[i].to /\ (i \in X => db'.grants[i].st # "unused")
  BY <1>2, FadesWithout
<1>7. \A i \in 1..Len(db.grants) : db'.grants[i].st = "unused" => db.grants[i].st = "unused" /\ i \notin X /\ db.grants[i].user \in Rows(db)
  BY <1>6 DEF Fades, LinkInv
<1>8. \A i \in 1..Len(db.grants) : db'.grants[i].st = "unused" => db.grants[i].user # u
  BY <1>7 DEF Unused, Of
<1>9. Rows(db') = Rows(db)
  BY <1>2 DEF Rows
<1>10. \A v : v # u => Follows(v)
  BY <1>2, <1>5 DEF Follows, Dropping, StillDropping, At
<1> HIDE DEF u, X
<1>11. \A q \in Procs : call'[q].pc \in {"mint", "deliver"} => call'[q] = call[q]
  BY <1>3, <1>5
<1>12. LinkInv'
  BY <1>6, <1>7, <1>9, <1>11, LinkKept
<1>13. MailInv'
  BY <1>4, <1>6, <1>8, <1>10, <1>11, MailKept
<1> QED BY <1>12, <1>13

\* Under the mutex: the old links go, then there is one.
LEMMA StandReplaces ==
    ASSUME RequestInv, LinkInv, MailInv, NEW p \in Procs, ReplaceDelete(p)
    PROVE  LinkInv' /\ MailInv'
<1> DEFINE u == call[p].tgt
           X == Unused(db, u)
<1>1. db \in Tables /\ db' = DeleteUnusedByUser(db, u) /\ call[p].pc = "replace" /\ Proceeds(p, "mint")
  BY InvFacts, ReplaceDeleteDoes
<1>2. db.grants \in Seq(Grant) /\ db'.grants = Without(db.grants, X) /\ db'.users = db.users
  BY <1>1, TablesFields, DeleteUnusedDoes DEF Links
<1>3. PICK c : Onward(p, c) /\ c.pc = "mint" /\ c.tgt = u
  BY <1>1 DEF Proceeds, Same
<1>4. call' = [call EXCEPT ![p] = c] /\ spent' = spent
  BY <1>3 DEF Onward, Turned
<1>5. call'[p] = c /\ (\A q \in Procs : q # p => call'[q] = call[q]) /\ \A v : Dropping(v) => StillDropping(v)
  BY <1>1, <1>4, OthersStay
<1>6. Fades(db.grants, db'.grants) /\ \A i \in 1..Len(db.grants) : db'.grants[i].to = db.grants[i].to /\ (i \in X => db'.grants[i].st # "unused")
  BY <1>2, FadesWithout
<1>7. \A i \in 1..Len(db.grants) : db'.grants[i].st = "unused" => db.grants[i].st = "unused" /\ i \notin X /\ db.grants[i].user \in Rows(db)
  BY <1>6 DEF Fades, LinkInv
<1>8. \A i \in 1..Len(db.grants) : db'.grants[i].st = "unused" => db.grants[i].user # u
  BY <1>7 DEF Unused, Of
<1>9. Rows(db') = Rows(db)
  BY <1>2 DEF Rows
<1> HIDE DEF u, X
<1>10. \A i \in Replacements(db'.grants) : db'.grants[i].user # u
  BY <1>6, <1>8 DEF Replacements, Fades
<1>11. \A q \in Procs : call'[q].pc = "mint" =>
               \/ call[q].pc = "mint" /\ call'[q].tgt = call[q].tgt
               \/ \A i \in Replacements(db'.grants) : db'.grants[i].user # call'[q].tgt
  BY <1>3, <1>5, <1>10
<1>12. LinkInv'
  BY <1>6, <1>7, <1>9, <1>11, LinkKept
<1>13. \A v : Follows(v)
  BY <1>2, <1>5 DEF Follows
<1>14. \A q \in Procs : call'[q].pc = "deliver" => call'[q] = call[q]
  BY <1>3, <1>5
<1>15. MailInv'
  BY <1>4, <1>6, <1>13, <1>14, MailKept
<1> QED BY <1>12, <1>15

LEMMA StandIssues ==
    ASSUME RequestInv, LinkInv, MailInv, NEW p \in Procs, IssueInvite(p) \/ RecoverMint(p), ~Calm(p)
    PROVE  LinkInv' /\ MailInv'
<1>1. PICK c : Onward(p, c) /\ c.pc = "deliver" /\ c.tok = Len(db.grants) + 1
  BY IssueDoes
<1>2. PICK why \in {"invite", "recovery"} :
        /\ NewGrant(call[p].tgt, why, FALSE) \in Grant
        /\ Links(db, db', Append(db.grants, NewGrant(call[p].tgt, why, FALSE)))
  BY IssueDoes
<1> DEFINE g == NewGrant(call[p].tgt, why, FALSE)
<1>3. /\ g \in Grant /\ g.user = call[p].tgt /\ ~g.replaces /\ g.to = NoAddr
      /\ db'.grants = Append(db.grants, g) /\ db'.users = db.users
  BY <1>2 DEF NewGrant, Links
<1> HIDE DEF g
<1>4. call[p].tgt \in Rows(db) /\ call[p].pc # "drop"
  BY IssueDoes DEF DuePcs
<1>5. call' = [call EXCEPT ![p] = c] /\ spent' = spent
  BY <1>1 DEF Onward, Turned
<1>6. call'[p] = c /\ (\A q \in Procs : q # p => call'[q] = call[q]) /\ \A v : Dropping(v) => StillDropping(v)
  BY <1>4, <1>5, OthersStay
<1>7. \A q \in Procs : call'[q].pc = "mint" => call'[q] = call[q]
  BY <1>1, <1>6
<1>8. LinkInv'
  BY <1>3, <1>4, <1>7, LinkAppended
<1>9. \A q \in Procs : call'[q].pc = "deliver" => call'[q] = call[q] \/ call'[q].tok = Len(db.grants) + 1
  BY <1>1, <1>6
<1>10. MailInv'
  BY <1>3, <1>5, <1>6, <1>9, MailAppended
<1> QED BY <1>8, <1>10

\* Nobody else is at its mint.
LEMMA StandMints ==
    ASSUME RequestInv, LinkInv, MailInv, NEW p \in Procs, ReplaceMint(p)
    PROVE  LinkInv' /\ MailInv'
<1>0. call[p].pc = "mint" /\ mu = p /\ spent' = spent
  BY ReplaceMintDoes
<1>1. CASE \E c : Turned(p, c) /\ c.pc = "idle" /\ db' = db
  <2>1. PICK c : Turned(p, c) /\ c.pc = "idle" /\ db' = db
    BY <1>1
  <2>2. RowsKept
    BY <2>1, SteadyRows DEF RowsSteady
  <2> QED BY <1>0, <2>1, <2>2, StandQuiet DEF Turned
<1>2. CASE ~\E c : Turned(p, c) /\ c.pc = "idle" /\ db' = db
  <2>1. PICK c : Turned(p, c) /\ c.pc = "recipient"
    BY <1>2, ReplaceMintDoes
  <2>2. PICK why \in {"invite", "recovery"} :
          /\ NewGrant(call[p].tgt, why, TRUE) \in Grant
          /\ Links(db, db', Append(db.grants, NewGrant(call[p].tgt, why, TRUE)))
    BY <1>2, ReplaceMintDoes
  <2> DEFINE g == NewGrant(call[p].tgt, why, TRUE)
  <2>3. /\ g \in Grant /\ g.user = call[p].tgt /\ g.to = NoAddr
        /\ db'.grants = Append(db.grants, g) /\ db'.users = db.users
    BY <2>2 DEF NewGrant, Links
  <2> HIDE DEF g
  <2>4. call[p].tgt \in Rows(db)
    BY <1>2, ReplaceMintDoes
  <2>5. call' = [call EXCEPT ![p] = c]
    BY <2>1 DEF Turned
  <2>6. call'[p] = c /\ (\A q \in Procs : q # p => call'[q] = call[q]) /\ \A v : Dropping(v) => StillDropping(v)
    BY <1>0, <2>5, OthersStay
  <2>7. \A q \in Procs : call'[q].pc # "mint"
    BY <1>0, <2>1, <2>6 DEF RequestInv, Mutex
  <2>8. \A i \in Replacements(db.grants) : db.grants[i].user # g.user
    BY <1>0, <2>3 DEF LinkInv, At
  <2>9. LinkInv'
    BY <2>3, <2>4, <2>7, <2>8, LinkAppended
  <2>10. \A q \in Procs : call'[q].pc = "deliver" => call'[q] = call[q]
    BY <2>1, <2>6
  <2>11. MailInv'
    BY <1>0, <2>3, <2>6, <2>10, MailAppended
  <2> QED BY <2>9, <2>11
<1> QED BY <1>1, <1>2

LEMMA StandAddresses ==
    ASSUME RequestInv, LinkInv, MailInv, NEW p \in Procs, RecipientAfterMint(p), ~Calm(p)
    PROVE  LinkInv' /\ MailInv'
<1>1. PICK c : Onward(p, c) /\ c.pc = "deliver" /\ c.tok = call[p].tok /\ c.row = db.users[call[p].tgt]
  BY RecipientDoes
<1>2. /\ db' = db /\ call[p].pc = "recipient" /\ call[p].tok \in 1..Len(db.grants)
      /\ db.grants[call[p].tok].user = call[p].tgt
  BY RecipientDoes
<1>3. call' = [call EXCEPT ![p] = c] /\ spent' = spent
  BY <1>1 DEF Onward, Turned
<1>4. call'[p] = c /\ (\A q \in Procs : q # p => call'[q] = call[q]) /\ \A v : Dropping(v) => StillDropping(v)
  BY <1>2, <1>3, OthersStay
<1>5. Fades(db.grants, db'.grants)
  BY <1>2, TablesFields, FadesSame DEF RequestInv, TypeOK
<1>6. LinkInv'
  <2>1. \A q \in Procs : call'[q].pc = "mint" => call'[q] = call[q]
    BY <1>1, <1>4
  <2>2. \A i \in 1..Len(db.grants) : db'.grants[i].st = "unused" => db.grants[i].user \in Rows(db')
    BY <1>2 DEF LinkInv
  <2> QED BY <1>5, <2>1, <2>2, LinkKept
<1>7. MailInv'
  <2>1. \A v : Follows(v)
    BY <1>2, <1>4 DEF Follows
  <2>2. \A q \in Procs : call'[q].pc = "deliver" =>
               \/ call[q].pc = "deliver" /\ call'[q].tok = call[q].tok /\ call'[q].row = call[q].row
               \/ /\ call'[q].tok \in 1..Len(db.grants)
                  /\ NormalizeAddress(call'[q].row.email) = NormalizeAddress(db'.users[db.grants[call'[q].tok].user].email)
    BY <1>1, <1>2, <1>4
  <2> QED BY <1>2, <1>3, <1>5, <2>1, <2>2, MailKept
<1> QED BY <1>6, <1>7

\* One link changes, but not whose it is or what for.
LEMMA FadesEdited ==
    ASSUME NEW gs \in Seq(Grant), NEW i \in 1..Len(gs), NEW g \in Grant,
           g.user = gs[i].user, g.replaces = gs[i].replaces, g.st = "unused" => gs[i].st = "unused"
    PROVE  Fades(gs, [gs EXCEPT ![i] = g]) /\ [gs EXCEPT ![i] = g][i] = g /\ \A j \in 1..Len(gs) : j # i => [gs EXCEPT ![i] = g][j] = gs[j]
BY GrantEdited DEF Fades

LEMMA StandDelivers ==
    ASSUME RequestInv, LinkInv, MailInv, NEW p \in Procs, Deliver(p)
    PROVE  LinkInv' /\ MailInv'
<1> DEFINE i == call[p].tok
           g == [db.grants[i] EXCEPT !.to = call[p].row.email]
<1>1. /\ Goes(p, "idle", call[p].tgt) /\ call[p].pc = "deliver" /\ i \in 1..Len(db.grants) /\ g \in Grant
      /\ Links(db, db', [db.grants EXCEPT ![i] = g])
  BY DeliverStepDoes
<1>2. db.grants \in Seq(Grant)
  BY TablesFields DEF RequestInv, TypeOK
<1>3. db.grants[i] \in Grant
  BY <1>1, <1>2
<1>4. g.user = db.grants[i].user /\ g.replaces = db.grants[i].replaces /\ g.st = db.grants[i].st /\ NormalizeAddress(g.to) = NormalizeAddress(call[p].row.email)
  BY <1>3 DEF Grant
<1>5. db'.grants = [db.grants EXCEPT ![i] = g] /\ db'.users = db.users
  BY <1>1 DEF Links
<1>6. i = call[p].tok
  OBVIOUS
<1> HIDE DEF i, g
<1>7. Fades(db.grants, db'.grants) /\ db'.grants[i] = g /\ \A j \in 1..Len(db.grants) : j # i => db'.grants[j] = db.grants[j]
  BY <1>1, <1>2, <1>4, <1>5, FadesEdited
<1>8. PICK c : Onward(p, c) /\ c.pc = "idle"
  BY <1>1 DEF Goes
<1>9. call' = [call EXCEPT ![p] = c] /\ spent' = spent
  BY <1>8 DEF Onward, Turned
<1>10. call'[p] = c /\ (\A q \in Procs : q # p => call'[q] = call[q]) /\ \A v : Dropping(v) => StillDropping(v)
  BY <1>1, <1>9, OthersStay
<1>11. \A q \in Procs : call'[q].pc \in {"mint", "deliver"} => call'[q] = call[q]
  BY <1>8, <1>10
<1>12. LinkInv'
  <2>1. \A j \in 1..Len(db.grants) : db'.grants[j].st = "unused" => db.grants[j].user \in Rows(db')
    BY <1>5, <1>7 DEF LinkInv, Fades, Rows
  <2> QED BY <1>7, <1>11, <2>1, LinkKept
<1>13. MailInv'
  <2>1. \A v : Follows(v)
    BY <1>5, <1>10 DEF Follows
  <2>2. \A j \in 1..Len(db.grants) :
          \/ db'.grants[j].to = db.grants[j].to
          \/ \E q \in Procs : call[q].pc = "deliver" /\ call[q].tok = j /\ NormalizeAddress(db'.grants[j].to) = NormalizeAddress(call[q].row.email)
    BY <1>1, <1>4, <1>6, <1>7
  <2> QED BY <1>7, <1>9, <1>11, <2>1, <2>2, MailKept
<1> QED BY <1>12, <1>13

LEMMA StandConsumes ==
    ASSUME RequestInv, LinkInv, MailInv, NEW p \in Procs, ConsumeGrant(p), ~Calm(p)
    PROVE  LinkInv' /\ MailInv'
<1> DEFINE i == call[p].tok
           g == UsedUp(db.grants[i], Len(db.creds))
<1>1. PICK pc \in {"revoke_old", "set_handle"} : Proceeds(p, pc)
  BY ConsumeGrantDoes
<1>2. /\ call[p].pc = "consume" /\ i \in 1..Len(db.grants) /\ g \in Grant
      /\ Links(db, db', [db.grants EXCEPT ![i] = g])
  BY ConsumeGrantDoes
<1>3. db.grants \in Seq(Grant)
  BY TablesFields DEF RequestInv, TypeOK
<1>4. db.grants[i] \in Grant
  BY <1>2, <1>3
<1>5. g.user = db.grants[i].user /\ g.replaces = db.grants[i].replaces /\ g.st = "used" /\ g.to = db.grants[i].to
  BY <1>4 DEF Grant, UsedUp
<1>6. db'.grants = [db.grants EXCEPT ![i] = g] /\ db'.users = db.users
  BY <1>2 DEF Links
<1> HIDE DEF i, g
<1>7. Fades(db.grants, db'.grants) /\ db'.grants[i] = g /\ \A j \in 1..Len(db.grants) : j # i => db'.grants[j] = db.grants[j]
  BY <1>2, <1>3, <1>5, <1>6, FadesEdited
<1>8. \A j \in 1..Len(db.grants) : db'.grants[j].to = db.grants[j].to
  BY <1>5, <1>7
<1>9. PICK c : Onward(p, c) /\ c.pc \in {"revoke_old", "set_handle"}
  BY <1>1 DEF Proceeds
<1>10. \A j \in 1..Len(db.grants) : db'.grants[j].st = "unused" => db.grants[j].user \in Rows(db')
  BY <1>6, <1>7 DEF LinkInv, Fades, Rows
<1>11. call' = [call EXCEPT ![p] = c] /\ spent' = spent /\ call[p].pc # "drop"
  BY <1>2, <1>9 DEF Onward, Turned
<1> QED BY <1>6, <1>7, <1>8, <1>9, <1>10, <1>11, StandKept

LEMMA StandFails ==
    ASSUME RequestInv, LinkInv, MailInv, NEW p \in Procs, Fail(p)
    PROVE  LinkInv' /\ MailInv'
<1>1. PICK c : Turned(p, c) /\ c.pc \in {"idle", "new_session"}
  BY FailDoes
<1>2. db' = db /\ spent'.faults # 0
  BY FailDoes
<1>3. call'[p] = c /\ \A q \in Procs : q # p => call'[q] = call[q]
  BY <1>1, OthersStay DEF Turned
<1>4. \A q \in Procs : call'[q].pc = "mint" => call'[q] = call[q]
  BY <1>1, <1>3
<1>5. Fades(db.grants, db'.grants)
  BY <1>2, TablesFields, FadesSame DEF RequestInv, TypeOK
<1>6. \A i \in 1..Len(db.grants) : db'.grants[i].st = "unused" => db.grants[i].user \in Rows(db')
  BY <1>2 DEF LinkInv
<1>7. LinkInv'
  BY <1>4, <1>5, <1>6, LinkKept
<1> QED BY <1>2, <1>7 DEF MailInv, AdminLinksCurrent

LEMMA StandNext ==
    ASSUME RequestInv, LinkInv, MailInv, [Next]_vars
    PROVE  LinkInv' /\ MailInv'
<1>0. db \in Tables /\ db.grants \in Seq(Grant)
  BY TablesFields DEF RequestInv, TypeOK
<1>1. ASSUME NEW p \in Procs, Calm(p) PROVE LinkInv' /\ MailInv'
  <2>1. PICK c : call' = [call EXCEPT ![p] = c] /\ Settled(c)
    BY <1>1 DEF Calm
  <2>2. db'.grants = db.grants /\ RowsKept /\ \A v \in Rows(db) : NormalizeAddress(db'.users[v].email) = NormalizeAddress(db.users[v].email)
    BY <1>1, CalmSteady DEF RowsSteady, MailsKept
  <2>3. c.pc \notin {"mint", "deliver"}
    BY <2>1 DEF Settled, QuietPcs, PlainPcs
  <2>4. call[p].pc # "drop" /\ (spent'.faults = 0 => spent.faults = 0)
    BY <1>1 DEF Calm, DuePcs, Charged
  <2> QED BY <2>1, <2>2, <2>3, <2>4, StandQuiet
<1>2. ASSUME NEW p \in Procs, AccountWrite(p) PROVE LinkInv' /\ MailInv'
  <2>1. PICK pc, u : Goes(p, pc, u) /\ pc \in PlainPcs \cup {"set_dis", "drop"} /\ MailsKept(pc, u)
    BY <1>2 DEF AccountWrite
  <2>2. PICK c : Onward(p, c) /\ c.pc = pc /\ (pc = "drop" => c.tgt = u)
    BY <2>1 DEF Goes
  <2>3. call' = [call EXCEPT ![p] = c] /\ spent' = spent
    BY <2>2 DEF Onward, Turned
  <2>4. c.pc \notin {"mint", "deliver"}
    BY <2>1, <2>2 DEF PlainPcs
  <2>5. db'.grants = db.grants /\ RowsKept /\ call[p].pc # "drop"
    BY <1>2 DEF AccountWrite, Apart, DuePcs
  <2>6. \A v \in Rows(db) : NormalizeAddress(db'.users[v].email) = NormalizeAddress(db.users[v].email) \/ (c.pc = "drop" /\ c.tgt = v)
    BY <2>1, <2>2 DEF MailsKept
  <2> QED BY <2>3, <2>4, <2>5, <2>6, StandQuiet
<1>3. ASSUME NEW p \in Procs, Busy(p), ~Calm(p) PROVE LinkInv' /\ MailInv'
  BY <1>3, StandQuietBusy, StandDeletes, StandDrops, StandReplaces, StandIssues, StandMints, StandAddresses, StandDelivers,
     StandConsumes, StandFails DEF Busy
<1>4. CASE Restart
  <2>1. call' = [p \in Procs |-> NoCall] /\ (db' = db \/ db' = SetTokenHash(db)) /\ spent'.faults # 0
    BY <1>4, RestartDoes
  <2>2. db'.grants = db.grants /\ db'.users = db.users
    BY <1>0, <2>1, SetTokenDoes
  <2>3. NoCall.pc = "idle"
    BY DEF NoCall
  <2> HIDE DEF NoCall
  <2>4. \A q \in Procs : call'[q].pc # "mint"
    BY <2>1, <2>3
  <2>5. \A i \in 1..Len(db.grants) : db'.grants[i].st = "unused" => db.grants[i].user \in Rows(db')
    BY <2>2 DEF LinkInv, Rows
  <2>6. LinkInv'
    BY <1>0, <2>2, <2>4, <2>5, FadesSame, LinkKept
  <2> QED BY <2>1, <2>6 DEF MailInv, AdminLinksCurrent
<1>5. ASSUME Meanwhile PROVE LinkInv' /\ MailInv'
  <2>1. Fades(db.grants, db'.grants) /\ \A i \in 1..Len(db.grants) : db'.grants[i].to = db.grants[i].to
    BY <1>5 DEF Meanwhile, Fades
  <2>2. call' = call /\ Rows(db') = Rows(db) /\ (spent'.faults = 0 => spent.faults = 0)
    BY <1>5 DEF Meanwhile, Charged
  <2>3. \A i \in 1..Len(db.grants) : db'.grants[i].st = "unused" => db.grants[i].user \in Rows(db)
    BY <2>1 DEF LinkInv, Fades
  <2>4. LinkInv'
    BY <2>1, <2>2, <2>3, LinkKept
  <2>5. \A v \in Rows(db) : Follows(v)
    BY <1>5, <2>2 DEF Meanwhile, MailsKept, Follows, Dropping, StillDropping, At
  <2>6. MailInv'
    BY <2>1, <2>2, <2>3, <2>5, MailKept
  <2> QED BY <2>4, <2>6
<1>6. CASE UNCHANGED vars
  <2>1. db' = db /\ call' = call /\ spent' = spent
    BY <1>6 DEF vars
  <2>2. Rows(db') = Rows(db) /\ Replacements(db'.grants) = Replacements(db.grants)
    BY <2>1
  <2>3. LinkInv'
    BY <2>1, <2>2 DEF LinkInv, At
  <2> QED BY <2>1, <2>3 DEF MailInv, AdminLinksCurrent, At, Dropping
<1> QED BY <1>1, <1>2, <1>3, <1>4, <1>5, <1>6, StepsAre, ExpireDoes, PruneDoes

LEMMA StandAlways == Spec => [](LinkInv /\ MailInv)
<1>1. Init => LinkInv /\ MailInv
  <2>1. NoCall.pc = "idle"
    BY DEF NoCall
  <2> HIDE DEF NoCall
  <2>2. SUFFICES ASSUME Init PROVE LinkInv /\ MailInv
    OBVIOUS
  <2>3. Consistent(db) /\ call = [p \in Procs |-> NoCall]
    BY <2>2, InitFacts
  <2>4. \A p \in Procs : call[p].pc = "idle"
    BY <2>1, <2>3
  <2>5. LinkInv
    BY <2>3, <2>4 DEF Consistent, LinkInv, Replacements, At
  <2>6. MailInv
    BY <2>3, <2>4 DEF Consistent, MailInv, AdminLinksCurrent, At
  <2> QED BY <2>5, <2>6
<1>2. RequestInv /\ LinkInv /\ MailInv /\ [Next]_vars => LinkInv' /\ MailInv'
  BY StandNext
<1> QED BY <1>1, <1>2, RequestInvAlways, PTL DEF Spec

(***************************************************************************)
(* However many administrators replace an account's links at once, and     *)
(* wherever one of them fails, one replacement at most is left to work     *)
(* (replaceMu around the delete and the mint).                             *)
(***************************************************************************)
THEOREM OneReplacementAlways == Spec => []OneReplacement
<1>1. RequestInv /\ LinkInv => OneReplacement
  <2>1. SUFFICES ASSUME RequestInv, LinkInv, NEW u \in Accounts
                 PROVE  Cardinality({i \in Unused(db, u) : db.grants[i].replaces}) <= 1
    BY DEF OneReplacement
  <2> DEFINE R == {i \in Unused(db, u) : db.grants[i].replaces}
  <2>2. \A i \in R : i \in Replacements(db.grants) /\ db.grants[i].user = u
    BY DEF Unused, Of, Replacements
  <2>3. SUFFICES Cardinality(R) <= 1
    OBVIOUS
  <2> HIDE DEF R
  <2>4. \A i, j \in R : i = j
    BY <2>1, <2>2 DEF LinkInv
  <2>5. CASE R = {}
    BY <2>5, FS_EmptySet
  <2>6. CASE R # {}
    <3>1. PICK i : i \in R
      BY <2>6
    <3>2. R = {i}
      BY <2>4, <3>1
    <3>3. Cardinality({i}) = 1
      BY FS_Singleton
    <3> QED BY <3>2, <3>3
  <2> QED BY <2>5, <2>6
<1> QED BY <1>1, RequestInvAlways, StandAlways, PTL

(***************************************************************************)
(* As long as no statement fails, a working link that replaced others is   *)
(* in the mailbox the account has, or a change of address is about to      *)
(* delete it: recipientAfterMint reads the row after the mint, and         *)
(* applyChanged deletes after the change, so one of the two sees the       *)
(* other in every order.                                                   *)
(***************************************************************************)
THEOREM AdminLinksCurrentAlways == Spec => []AdminLinksCurrent
<1>1. MailInv => AdminLinksCurrent
  BY DEF MailInv
<1> QED BY <1>1, StandAlways, PTL

-----------------------------------------------------------------------------
(* Mailboxes: what a request has looked up *)

\* The mailboxes a row holds.
Boxed(r) == {r.email[1]} \cup (IF r.plive THEN {r.pend[1]} ELSE {})
Disjoint(d) == \A u, v \in Rows(d) : u # v => Boxed(d.users[u]) \cap Boxed(d.users[v]) = {}

\* One request at a time, no sign-up through the provider and no claim.
Lone(s) == Cardinality(s.procs) = 1 /\ \A a \in s.asks : a.op \notin {"oidc", "reg_finish"}

\* Statements that write an address somebody has looked up, and the provider's.
HeedPcs == {"invite_create", "set_pending", "set_email"}
ProviderPcs == {"complete_auth", "find_linked", "sync_list", "sync_set", "find_email", "find_legacy", "link", "signup"}
Away == HeedPcs \cup ProviderPcs

\* Nobody else holds the address it is about to write.
Looked(c, d) ==
    /\ c.pc = "invite_create" => ~Held(d, c.addr, Nobody)
    /\ c.pc = "set_pending" => ~Held(d, c.addr, c.me)
    /\ c.pc = "set_email" => ~Held(d, c.addr, c.tgt)

Careful(c) == c.op \notin {"oidc", "reg_finish"} /\ c.pc \notin ProviderPcs

MailboxInv ==
    Lone(S) =>
        /\ Disjoint(db)
        /\ \A p \in Procs : /\ call[p].pc # "idle" => p \in S.procs
                            /\ Careful(call[p]) /\ Looked(call[p], db)

\* A request of p moves on, or ends, and does not write an address next ...
Past(p) ==
    /\ call[p].pc # "idle"
    /\ \E c : call' = [call EXCEPT ![p] = c] /\ c.op \in {call[p].op, "none"} /\ c.pc \notin Away
\* ... or has just looked that nobody holds it.
Looks(p) ==
    /\ call[p].pc # "idle" /\ db' = db
    /\ \E c : call' = [call EXCEPT ![p] = c] /\ c.op = call[p].op /\ c.pc \in HeedPcs /\ Looked(c, db)

Ends(p) == \E e : Step(p, NoCall, e)
Takes(p, pc) == \E e : Step(p, To(call[p], pc), e)
Finds(p, pc) == \E e, u, w :
    \/ Step(p, [call[p] EXCEPT !.pc = pc, !.tgt = u], e)
    \/ Step(p, [call[p] EXCEPT !.pc = pc, !.row = w], e)
    \/ Step(p, [call[p] EXCEPT !.pc = pc, !.tok = u], e)
    \/ Step(p, [call[p] EXCEPT !.pc = pc, !.admins = u], e)
    \/ Step(p, [call[p] EXCEPT !.pc = pc, !.tgt = u, !.row = w], e)

LEMMA NoCallPast == NoCall.op = "none" /\ NoCall.pc = "idle" /\ "idle" \notin Away
BY DEF NoCall, Away, HeedPcs, ProviderPcs

LEMMA StepPast ==
    ASSUME NEW p \in Procs, call[p].pc # "idle", NEW c, NEW e, Step(p, c, e), c.op \in {call[p].op, "none"}, c.pc \notin Away
    PROVE  Past(p)
BY DEF Step, Past

LEMMA EndsPast == ASSUME NEW p \in Procs, call[p].pc # "idle", Ends(p) PROVE Past(p)
<1> HIDE DEF NoCall
<1> QED BY NoCallPast, StepPast DEF Ends

LEMMA TakesPast == ASSUME RequestInv, NEW p \in Procs, call[p].pc # "idle", NEW pc, pc \notin Away, Takes(p, pc) PROVE Past(p)
<1>1. call[p] \in Call
  BY InvFacts
<1>2. To(call[p], pc).op = call[p].op /\ To(call[p], pc).pc = pc
  BY <1>1 DEF To, Call
<1> QED BY <1>2, StepPast DEF Takes

LEMMA FindsPast == ASSUME RequestInv, NEW p \in Procs, call[p].pc # "idle", NEW pc, pc \notin Away, Finds(p, pc) PROVE Past(p)
<1>1. call[p] \in Call
  BY InvFacts
<1>2. \E c, e : Step(p, c, e) /\ c.op = call[p].op /\ c.pc = pc
  <2> PICK e, u, w :
        \/ Step(p, [call[p] EXCEPT !.pc = pc, !.tgt = u], e)
        \/ Step(p, [call[p] EXCEPT !.pc = pc, !.row = w], e)
        \/ Step(p, [call[p] EXCEPT !.pc = pc, !.tok = u], e)
        \/ Step(p, [call[p] EXCEPT !.pc = pc, !.admins = u], e)
        \/ Step(p, [call[p] EXCEPT !.pc = pc, !.tgt = u, !.row = w], e)
    BY DEF Finds
  <2>1. CASE Step(p, [call[p] EXCEPT !.pc = pc, !.tgt = u], e)
    <3>1. [call[p] EXCEPT !.pc = pc, !.tgt = u].op = call[p].op /\ [call[p] EXCEPT !.pc = pc, !.tgt = u].pc = pc
      BY <1>1 DEF Call
    <3> QED BY <2>1, <3>1
  <2>2. CASE Step(p, [call[p] EXCEPT !.pc = pc, !.row = w], e)
    <3>1. [call[p] EXCEPT !.pc = pc, !.row = w].op = call[p].op /\ [call[p] EXCEPT !.pc = pc, !.row = w].pc = pc
      BY <1>1 DEF Call
    <3> QED BY <2>2, <3>1
  <2>3. CASE Step(p, [call[p] EXCEPT !.pc = pc, !.tok = u], e)
    <3>1. [call[p] EXCEPT !.pc = pc, !.tok = u].op = call[p].op /\ [call[p] EXCEPT !.pc = pc, !.tok = u].pc = pc
      BY <1>1 DEF Call
    <3> QED BY <2>3, <3>1
  <2>4. CASE Step(p, [call[p] EXCEPT !.pc = pc, !.admins = u], e)
    <3>1. [call[p] EXCEPT !.pc = pc, !.admins = u].op = call[p].op /\ [call[p] EXCEPT !.pc = pc, !.admins = u].pc = pc
      BY <1>1 DEF Call
    <3> QED BY <2>4, <3>1
  <2>5. CASE Step(p, [call[p] EXCEPT !.pc = pc, !.tgt = u, !.row = w], e)
    <3>1. /\ [call[p] EXCEPT !.pc = pc, !.tgt = u, !.row = w].op = call[p].op
          /\ [call[p] EXCEPT !.pc = pc, !.tgt = u, !.row = w].pc = pc
      BY <1>1 DEF Call
    <3> QED BY <2>5, <3>1
  <2> QED BY <2>1, <2>2, <2>3, <2>4, <2>5
<1> QED BY <1>2, StepPast

LEMMA TryTakes ==
    ASSUME NEW p, NEW ok, NEW pc, NEW e, Try(p, ok, To(call[p], pc), e) PROVE Ends(p) \/ Takes(p, pc)
BY DEF Try, Reply, Ends, Takes

LEMMA TryEnds == ASSUME NEW p, NEW ok, NEW e, Try(p, ok, NoCall, e) PROVE Ends(p)
BY DEF Try, Reply, Ends

LEMMA TargetFinds == ASSUME NEW p, NEW ok, NEW pc, WithTarget(p, ok, pc) PROVE Ends(p) \/ Finds(p, pc)
BY DEF WithTarget, Try, Reply, Ends, Finds

\* The doors.
LEMMA DoorsPast ==
    ASSUME RequestInv, NEW p \in Procs, AuthSession(p) \/ AuthKey(p) \/ AuthKeyUser(p) \/ AuthUser(p) \/ Slide(p)
    PROVE  Past(p)
<1>0. call[p].pc # "idle" /\ call[p] \in Call
  BY InvFacts DEF AuthSession, AuthKey, AuthKeyUser, AuthUser, Slide, At
<1>1. \A pc \in {"user", "key_user", "handler", "slide"} : pc \notin Away
  BY DEF Away, HeedPcs, ProviderPcs
<1>2. CASE AuthSession(p) \/ AuthKey(p)
  <2>1. Ends(p) \/ Takes(p, "user") \/ Takes(p, "key_user")
    BY <1>2, TryTakes DEF AuthSession, AuthKey
  <2> QED BY <1>0, <1>1, <2>1, EndsPast, TakesPast
<1>3. ASSUME NEW c, NEW e, Step(p, Admitted(c), e) \/ Step(p, To(c, "slide"), e), c.op = call[p].op,
             To(c, "handler").op = call[p].op, To(c, "slide").op = call[p].op,
             To(c, "handler").pc = "handler", To(c, "slide").pc = "slide"
      PROVE  Past(p)
  <2>1. Ends(p) \/ Step(p, To(c, "handler"), e) \/ Step(p, To(c, "slide"), e)
    BY <1>3 DEF Admitted, Ends
  <2> QED BY <1>0, <1>1, <1>3, <2>1, EndsPast, StepPast
<1>4. ASSUME NEW w, NEW e, NEW c, c = [call[p] EXCEPT !.row = w], Step(p, Admitted(c), e) \/ Step(p, To(c, "slide"), e)
      PROVE  Past(p)
  <2>1. /\ c.op = call[p].op /\ To(c, "handler").op = call[p].op /\ To(c, "slide").op = call[p].op
        /\ To(c, "handler").pc = "handler" /\ To(c, "slide").pc = "slide"
    BY <1>0, <1>4 DEF To, Call
  <2> QED BY <1>3, <1>4, <2>1
<1>5. CASE AuthKeyUser(p)
  <2>1. Ends(p) \/ \E w : Step(p, Admitted([call[p] EXCEPT !.row = w]), db)
    BY <1>5 DEF AuthKeyUser, Try, Reply, Ends
  <2> QED BY <1>0, <1>4, <2>1, EndsPast
<1>6. CASE AuthUser(p)
  <2>1. Ends(p) \/ \E w : \/ Step(p, Admitted([call[p] EXCEPT !.row = w]), db)
                          \/ Step(p, To([call[p] EXCEPT !.row = w], "slide"), db)
    BY <1>6 DEF AuthUser, Try, Reply, Ends
  <2> QED BY <1>0, <1>4, <2>1, EndsPast
<1>7. CASE Slide(p)
  <2>1. \E e : Step(p, Admitted(call[p]), e)
    BY <1>7 DEF Slide
  <2>2. /\ To(call[p], "handler").op = call[p].op /\ To(call[p], "slide").op = call[p].op
        /\ To(call[p], "handler").pc = "handler" /\ To(call[p], "slide").pc = "slide"
    BY <1>0 DEF To, Call
  <2> QED BY <1>3, <2>1, <2>2
<1> QED BY <1>2, <1>5, <1>6, <1>7

\* Where else they go.
GoesPcs == {"mint_key", "owned_key", "revoke_key", "get_target", "guard_delete", "invite_list", "set_list", "registered",
            "revoke_all", "guard_role", "guard_dis", "set_role", "set_dis", "end_sessions", "delete", "issue_invite",
            "request_check", "cancel", "confirm", "mail_confirm", "withdraw", "drop", "new_session",
            "claim", "begin", "owned", "signer", "verify", "signer_creds", "touch_cred", "consume_boot", "set_handle",
            "consume", "create_cred", "rename", "remove_row", "remove_count", "remove", "deliver", "lock", "replace", "mint",
            "recipient", "recover_count", "recover_mint", "lookup", "no_admin", "valid", "grant_user", "first_run",
            "revoke_old", "boot_token", "create_admin"}

LEMMA FormPast ==
    ASSUME RequestInv, NEW p \in Procs, call[p].pc # "idle", Ends(p) \/ \E pc \in GoesPcs : Takes(p, pc) \/ Finds(p, pc)
    PROVE  Past(p)
<1>1. \A pc \in GoesPcs : pc \notin Away
  BY DEF GoesPcs, Away, HeedPcs, ProviderPcs
<1> QED BY <1>1, EndsPast, TakesPast, FindsPast

LEMMA SessionsPast ==
    ASSUME RequestInv, NEW p \in Procs,
           \/ Whoami(p) \/ Logout(p) \/ ApiKeyMint(p) \/ PageKeyMint(p) \/ MintKey(p) \/ ApiKeyRevoke(p) \/ PageKeyRevoke(p)
           \/ OwnedKey(p) \/ RevokeKey(p) \/ EndSessions(p) \/ OpenSession(p)
    PROVE  Past(p)
<1>1. call[p].pc # "idle"
  BY DEF Whoami, Logout, ApiKeyMint, PageKeyMint, MintKey, ApiKeyRevoke, PageKeyRevoke, OwnedKey, RevokeKey, EndSessions,
         OpenSession, Handles, At
<1>2. Ends(p) \/ \E pc \in {"mint_key", "owned_key", "revoke_key"} : Takes(p, pc)
  BY TryTakes DEF Whoami, Logout, ApiKeyMint, PageKeyMint, MintKey, ApiKeyRevoke, PageKeyRevoke, OwnedKey, RevokeKey,
                  EndSessions, OpenSession, Reply, Goto, Ends, Takes
<1> QED BY <1>1, <1>2, FormPast DEF GoesPcs

LEMMA HandlersPast ==
    ASSUME RequestInv, NEW p \in Procs,
           \/ ApiUpdateUser(p) \/ ApiDeleteUser(p) \/ ApiCreateUser(p) \/ ApiSetUserEmail(p) \/ ApiReissueInvite(p)
           \/ ApiIssueRecovery(p) \/ PageUserSetEnabled(p) \/ PageUserDelete(p) \/ PageUserRecovery(p)
           \/ PageUserReinvite(p) \/ PageUserEmail(p) \/ PageUserInvite(p) \/ GetTarget(p)
    PROVE  Past(p)
<1>1. call[p].pc # "idle"
  BY DEF ApiUpdateUser, ApiDeleteUser, ApiCreateUser, ApiSetUserEmail, ApiReissueInvite, ApiIssueRecovery,
         PageUserSetEnabled, PageUserDelete, PageUserRecovery, PageUserReinvite, PageUserEmail, PageUserInvite, GetTarget,
         Handles, At
<1>2. CASE ApiUpdateUser(p) \/ ApiDeleteUser(p) \/ ApiCreateUser(p) \/ PageUserInvite(p)
  <2>1. \E pc \in {"get_target", "guard_delete", "invite_list"} : Takes(p, pc)
    BY <1>2 DEF ApiUpdateUser, ApiDeleteUser, ApiCreateUser, PageUserInvite, Goto, Takes
  <2> QED BY <1>1, <2>1, FormPast DEF GoesPcs
<1>3. CASE ~(ApiUpdateUser(p) \/ ApiDeleteUser(p) \/ ApiCreateUser(p) \/ PageUserInvite(p))
  <2>1. \E ok, pc : pc \in {"set_list", "registered", "revoke_all", "get_target", "guard_delete", "guard_role"} /\ WithTarget(p, ok, pc)
    BY <1>3 DEF ApiSetUserEmail, ApiReissueInvite, ApiIssueRecovery, PageUserSetEnabled, PageUserDelete, PageUserRecovery,
                PageUserReinvite, PageUserEmail, GetTarget
  <2> QED BY <1>1, <2>1, TargetFinds, FormPast DEF GoesPcs
<1> QED BY <1>2, <1>3

LEMMA UpdatesPast ==
    ASSUME RequestInv, NEW p \in Procs,
           \/ PageUserUpdate(p) \/ GuardRole(p) \/ GuardDisabled(p) \/ ApplyRole(p) \/ ApplyDisabled(p) \/ GuardDelete(p)
           \/ DeleteTarget(p)
    PROVE  Past(p)
<1>1. call[p].pc # "idle" /\ call[p] \in Call
  BY InvFacts DEF PageUserUpdate, GuardRole, GuardDisabled, ApplyRole, ApplyDisabled, GuardDelete, DeleteTarget, Handles, At
<1>2. CASE PageUserUpdate(p)
  <2>1. Ends(p) \/ \E x, y, e : Step(p, To([call[p] EXCEPT !.role = x, !.dis = y], "get_target"), e)
    BY <1>2 DEF PageUserUpdate, Try, Reply, Ends
  <2>2. \A x, y : /\ To([call[p] EXCEPT !.role = x, !.dis = y], "get_target").op = call[p].op
                  /\ To([call[p] EXCEPT !.role = x, !.dis = y], "get_target").pc = "get_target"
    BY <1>1 DEF To, Call
  <2>3. "get_target" \notin Away
    BY DEF Away, HeedPcs, ProviderPcs
  <2>4. ASSUME NEW x, NEW y, NEW e, Step(p, To([call[p] EXCEPT !.role = x, !.dis = y], "get_target"), e) PROVE Past(p)
    BY <1>1, <2>2, <2>3, <2>4, StepPast
  <2> QED BY <1>1, <2>1, <2>4, EndsPast
<1>3. CASE GuardRole(p) \/ GuardDisabled(p) \/ GuardDelete(p)
  <2>1. Ends(p) \/ \E pc \in {"guard_dis", "set_role", "delete"} : Takes(p, pc) \/ Finds(p, pc)
    BY <1>3 DEF GuardRole, GuardDisabled, GuardDelete, Counted, Try, Reply, Goto, Ends, Takes, Finds
  <2> QED BY <1>1, <2>1, FormPast DEF GoesPcs
<1>4. CASE ApplyRole(p) \/ ApplyDisabled(p) \/ DeleteTarget(p)
  <2>1. Ends(p) \/ \E pc \in {"set_dis", "end_sessions"} : Takes(p, pc)
    BY <1>4 DEF ApplyRole, ApplyDisabled, DeleteTarget, Try, Reply, Goto, Ends, Takes
  <2> QED BY <1>1, <2>1, FormPast DEF GoesPcs
<1> QED BY <1>2, <1>3, <1>4

LEMMA EmailsPast ==
    ASSUME RequestInv, NEW p \in Procs,
           \/ ApiEmailRequest(p) \/ PageEmailRequest(p) \/ ApiEmailCancel(p) \/ PageEmailCancel(p)
           \/ ApiEmailConfirm(p) \/ PageEmailConfirm(p) \/ RequestPend(p) \/ RequestMailed(p) \/ RequestUnsent(p)
           \/ RequestWithdraw(p) \/ Cancel(p) \/ Confirm(p) \/ AdminSet(p) \/ ApplyChanged(p) \/ InviteCreate(p)
    PROVE  Past(p)
<1>1. call[p].pc # "idle" /\ call[p] \in Call
  BY InvFacts DEF ApiEmailRequest, PageEmailRequest, ApiEmailCancel, PageEmailCancel, ApiEmailConfirm, PageEmailConfirm,
         RequestPend, RequestMailed, RequestUnsent, RequestWithdraw, Cancel, Confirm, AdminSet, ApplyChanged, InviteCreate,
         Handles, At
<1>2. CASE \/ ApiEmailRequest(p) \/ PageEmailRequest(p) \/ ApiEmailCancel(p) \/ PageEmailCancel(p)
           \/ ApiEmailConfirm(p) \/ PageEmailConfirm(p)
  <2>1. \E pc \in {"request_check", "cancel", "confirm"} : Takes(p, pc)
    BY <1>2 DEF ApiEmailRequest, PageEmailRequest, ApiEmailCancel, PageEmailCancel, ApiEmailConfirm, PageEmailConfirm, Goto, Takes
  <2> QED BY <1>1, <2>1, FormPast DEF GoesPcs
<1>3. CASE RequestPend(p) \/ RequestMailed(p) \/ RequestWithdraw(p) \/ Cancel(p) \/ AdminSet(p) \/ ApplyChanged(p)
  <2>1. Ends(p) \/ \E pc \in {"mail_confirm", "drop", "new_session"} : Takes(p, pc)
    BY <1>3 DEF RequestPend, RequestMailed, RequestWithdraw, Cancel, AdminSet, ApplyChanged, Try, Reply, Ends, Takes
  <2> QED BY <1>1, <2>1, FormPast DEF GoesPcs
<1>4. CASE Confirm(p) \/ InviteCreate(p)
  <2>1. Ends(p) \/ \E pc \in {"drop", "issue_invite"} : Finds(p, pc)
    BY <1>4 DEF Confirm, InviteCreate, Try, Reply, Ends, Finds
  <2> QED BY <1>1, <2>1, FormPast DEF GoesPcs
<1>5. CASE RequestUnsent(p)
  <2>1. call' = [call EXCEPT ![p] = To(call[p], "withdraw")]
    BY <1>5 DEF RequestUnsent
  <2>2. To(call[p], "withdraw").op = call[p].op /\ To(call[p], "withdraw").pc = "withdraw"
    BY <1>1 DEF To, Call
  <2>3. "withdraw" \notin Away
    BY DEF Away, HeedPcs, ProviderPcs
  <2> QED BY <1>1, <2>1, <2>2, <2>3 DEF Past
<1> QED BY <1>2, <1>3, <1>4, <1>5

\* A challenge is given out, or the request ends.
LEMMA GivesPast ==
    ASSUME RequestInv, NEW p \in Procs, OIDCStart(p) \/ ApiLoginBegin(p) \/ BeginRegister(p) \/ BootToken(p)
    PROVE  Past(p)
<1>1. call[p].pc # "idle"
  BY DEF OIDCStart, ApiLoginBegin, BeginRegister, BootToken, Handles, At
<1>2. Ends(p) \/ call' = [call EXCEPT ![p] = NoCall]
  BY DEF OIDCStart, ApiLoginBegin, BeginRegister, BootToken, Give, Reply, Ends
<1> HIDE DEF NoCall
<1> QED BY <1>1, <1>2, EndsPast, NoCallPast DEF Past

LEMMA PasskeysPast ==
    ASSUME RequestInv, NEW p \in Procs,
           \/ ApiLoginFinish(p) \/ ApiPasskeyBegin(p) \/ ApiPasskeyFinish(p) \/ ApiPasskeyRemove(p) \/ ApiPasskeyRename(p)
           \/ ClaimChallenge(p) \/ Signer(p) \/ SignerCreds(p) \/ TouchCredential(p) \/ Verify(p) \/ SetHandle(p)
           \/ PersistCredential(p) \/ OwnedCredential(p) \/ Rename(p) \/ RemoveRow(p) \/ RemoveCount(p) \/ Remove(p)
    PROVE  Past(p)
<1>1. call[p].pc # "idle" /\ call[p] \in Call
  BY InvFacts DEF ApiLoginFinish, ApiPasskeyBegin, ApiPasskeyFinish, ApiPasskeyRemove, ApiPasskeyRename, ClaimChallenge,
         Signer, SignerCreds, TouchCredential, Verify, SetHandle, PersistCredential, OwnedCredential, Rename, RemoveRow,
         RemoveCount, Remove, Handles, At
<1>2. CASE ApiLoginFinish(p) \/ ApiPasskeyBegin(p) \/ ApiPasskeyFinish(p) \/ ApiPasskeyRemove(p) \/ ApiPasskeyRename(p) \/ Signer(p)
  <2>1. Ends(p) \/ \E pc \in {"claim", "begin", "owned", "signer_creds"} : Takes(p, pc) \/ Finds(p, pc)
    BY <1>2 DEF ApiLoginFinish, ApiPasskeyBegin, ApiPasskeyFinish, ApiPasskeyRemove, ApiPasskeyRename, Signer, Goto, Reply,
                Ends, Takes, Finds
  <2> QED BY <1>1, <2>1, FormPast DEF GoesPcs
<1>3. CASE SignerCreds(p) \/ TouchCredential(p) \/ SetHandle(p) \/ PersistCredential(p) \/ Rename(p) \/ Remove(p)
  <2>1. Ends(p) \/ \E pc \in {"touch_cred", "new_session", "create_cred"} : Takes(p, pc)
    BY <1>3 DEF SignerCreds, TouchCredential, SetHandle, PersistCredential, Rename, Remove, Try, Reply, Ends, Takes
  <2> QED BY <1>1, <2>1, FormPast DEF GoesPcs
<1>4. CASE Verify(p) \/ OwnedCredential(p) \/ RemoveRow(p) \/ RemoveCount(p)
  <2>1. Ends(p) \/ \E pc \in {"consume_boot", "set_handle", "consume", "rename", "remove_row", "remove_count", "remove"} :
                      Takes(p, pc) \/ Finds(p, pc)
    BY <1>4 DEF Verify, OwnedCredential, RemoveRow, RemoveCount, Try, Reply, Ends, Takes, Finds
  <2> QED BY <1>1, <2>1, FormPast DEF GoesPcs
<1>5. CASE ClaimChallenge(p)
  <2>1. Ends(p) \/ \E pc \in {"signer", "verify"} : call' = [call EXCEPT ![p] = [call[p] EXCEPT !.pc = pc]]
    BY <1>5 DEF ClaimChallenge, Reply, Ends
  <2>2. \A pc : [call[p] EXCEPT !.pc = pc].op = call[p].op /\ [call[p] EXCEPT !.pc = pc].pc = pc
    BY <1>1 DEF Call
  <2>3. \A pc \in {"signer", "verify"} : pc \notin Away
    BY DEF Away, HeedPcs, ProviderPcs
  <2>4. ASSUME NEW pc \in {"signer", "verify"}, call' = [call EXCEPT ![p] = [call[p] EXCEPT !.pc = pc]] PROVE Past(p)
    BY <1>1, <2>2, <2>3, <2>4 DEF Past
  <2> QED BY <1>1, <2>1, <2>4, EndsPast
<1> QED BY <1>2, <1>3, <1>4, <1>5

LEMMA LinksPast ==
    ASSUME RequestInv, NEW p \in Procs,
           \/ IssueInvite(p) \/ Registered(p) \/ RevokeAll(p) \/ ReplaceLock(p) \/ ReplaceDelete(p) \/ ReplaceMint(p)
           \/ RecipientAfterMint(p) \/ Deliver(p) \/ RecoverFind(p) \/ RecoverCount(p) \/ RecoverMint(p)
    PROVE  Past(p)
<1>1. call[p].pc # "idle" /\ call[p] \in Call
  BY InvFacts DEF IssueInvite, Registered, RevokeAll, ReplaceLock, ReplaceDelete, ReplaceMint, RecipientAfterMint, Deliver,
         RecoverFind, RecoverCount, RecoverMint, Handles, At
<1>2. CASE IssueInvite(p) \/ RecoverMint(p) \/ RecipientAfterMint(p) \/ RecoverFind(p)
  <2>1. Ends(p) \/ \E pc \in {"deliver", "recover_count"} : Finds(p, pc)
    BY <1>2 DEF IssueInvite, RecoverMint, Issue, RecipientAfterMint, RecoverFind, Try, Reply, Ends, Finds
  <2> QED BY <1>1, <2>1, FormPast DEF GoesPcs
<1>3. CASE Registered(p) \/ RevokeAll(p) \/ ReplaceDelete(p) \/ Deliver(p) \/ RecoverCount(p)
  <2>1. Ends(p) \/ \E pc \in {"lock", "mint", "recover_mint"} : Takes(p, pc)
    BY <1>3 DEF Registered, RevokeAll, ReplaceDelete, Deliver, RecoverCount, Try, Reply, Ends, Takes
  <2> QED BY <1>1, <2>1, FormPast DEF GoesPcs
<1>4. CASE ReplaceLock(p)
  <2>1. call' = [call EXCEPT ![p] = [call[p] EXCEPT !.pc = "replace"]]
    BY <1>4 DEF ReplaceLock
  <2>2. [call[p] EXCEPT !.pc = "replace"].op = call[p].op /\ [call[p] EXCEPT !.pc = "replace"].pc = "replace"
    BY <1>1 DEF Call
  <2>3. "replace" \notin Away
    BY DEF Away, HeedPcs, ProviderPcs
  <2> QED BY <1>1, <2>1, <2>2, <2>3 DEF Past
<1>5. CASE ReplaceMint(p)
  <2>0. call \in [Procs -> Call]
    BY InvFacts
  <2>1. call' = [call EXCEPT ![p] = NoCall]
        \/ \E n : call' = [call EXCEPT ![p].pc = "recipient", ![p].tok = n]
    BY <1>5 DEF ReplaceMint
  <2>2. ASSUME NEW n PROVE [call EXCEPT ![p].pc = "recipient", ![p].tok = n]
                           = [call EXCEPT ![p] = [call[p] EXCEPT !.pc = "recipient", !.tok = n]]
    BY <1>1, <2>0 DEF Call
  <2>3. ASSUME NEW n PROVE /\ [call[p] EXCEPT !.pc = "recipient", !.tok = n].op = call[p].op
                           /\ [call[p] EXCEPT !.pc = "recipient", !.tok = n].pc = "recipient"
    BY <1>1 DEF Call
  <2>4. "recipient" \notin Away
    BY DEF Away, HeedPcs, ProviderPcs
  <2>5. ASSUME NEW n, call' = [call EXCEPT ![p].pc = "recipient", ![p].tok = n] PROVE Past(p)
    <3>1. call' = [call EXCEPT ![p] = [call[p] EXCEPT !.pc = "recipient", !.tok = n]]
      BY <2>2, <2>5
    <3> QED BY <1>1, <2>3, <2>4, <3>1 DEF Past
  <2> HIDE DEF NoCall
  <2>6. ASSUME call' = [call EXCEPT ![p] = NoCall] PROVE Past(p)
    BY <1>1, <2>6, NoCallPast DEF Past
  <2> QED BY <2>1, <2>5, <2>6
<1> QED BY <1>2, <1>3, <1>4, <1>5

LEMMA RedeemersPast ==
    ASSUME RequestInv, NEW p \in Procs,
           \/ RegisterBegin(p) \/ RegisterFinish(p) \/ LookupGrant(p) \/ GrantUser(p) \/ FirstRun(p) \/ ValidGrant(p)
           \/ ConsumeGrant(p) \/ RevokeOld(p) \/ NoAdminYet(p) \/ ConsumeBootstrap(p) \/ CreateAdmin(p)
    PROVE  Past(p)
<1>1. call[p].pc # "idle"
  BY DEF RegisterBegin, RegisterFinish, LookupGrant, GrantUser, FirstRun, ValidGrant, ConsumeGrant, RevokeOld, NoAdminYet,
         ConsumeBootstrap, CreateAdmin, Handles, At
<1>2. CASE RegisterBegin(p) \/ RegisterFinish(p) \/ LookupGrant(p) \/ GrantUser(p) \/ FirstRun(p) \/ RevokeOld(p) \/ NoAdminYet(p)
  <2>1. Ends(p) \/ \E pc \in {"lookup", "no_admin", "valid", "grant_user", "first_run", "set_handle", "boot_token", "claim"} :
                      Takes(p, pc)
    BY <1>2 DEF RegisterBegin, RegisterFinish, LookupGrant, GrantUser, FirstRun, RevokeOld, NoAdminYet, Try, Reply, Goto,
                Ends, Takes
  <2> QED BY <1>1, <2>1, FormPast DEF GoesPcs
<1>3. CASE ValidGrant(p) \/ ConsumeGrant(p) \/ ConsumeBootstrap(p) \/ CreateAdmin(p)
  <2>1. Ends(p) \/ \E pc \in {"begin", "claim", "revoke_old", "set_handle", "create_admin"} : Takes(p, pc) \/ Finds(p, pc)
    BY <1>3 DEF ValidGrant, ConsumeGrant, ConsumeBootstrap, CreateAdmin, Try, Reply, Ends, Takes, Finds
  <2> QED BY <1>1, <2>1, FormPast DEF GoesPcs
<1> QED BY <1>2, <1>3

\* The three checks of addressHeld.
LEMMA ChecksLook ==
    ASSUME RequestInv, NEW p \in Procs, InviteList(p) \/ RequestCheck(p) \/ SetList(p)
    PROVE  Past(p) \/ Looks(p)
<1>1. call[p].pc # "idle" /\ call[p] \in Call
  BY InvFacts DEF InviteList, RequestCheck, SetList, At
<1>2. \/ Ends(p)
      \/ ~Held(db, call[p].addr, Nobody) /\ Step(p, To(call[p], "invite_create"), db)
      \/ ~Held(db, call[p].addr, call[p].me) /\ Step(p, To(call[p], "set_pending"), db)
      \/ ~Held(db, call[p].addr, call[p].tgt) /\ Step(p, To(call[p], "set_email"), db)
  BY DEF InviteList, RequestCheck, SetList, Try, Reply, Ends
<1>3. ASSUME NEW pc \in HeedPcs, Step(p, To(call[p], pc), db),
             /\ pc = "invite_create" => ~Held(db, call[p].addr, Nobody)
             /\ pc = "set_pending" => ~Held(db, call[p].addr, call[p].me)
             /\ pc = "set_email" => ~Held(db, call[p].addr, call[p].tgt)
      PROVE  Looks(p)
  <2> DEFINE c == To(call[p], pc)
  <2>1. c.op = call[p].op /\ c.pc = pc /\ c.addr = call[p].addr /\ c.me = call[p].me /\ c.tgt = call[p].tgt
    BY <1>1 DEF To, Call
  <2>2. call' = [call EXCEPT ![p] = c] /\ db' = db
    BY <1>3 DEF Step
  <2> HIDE DEF c
  <2>3. Looked(c, db)
    BY <1>3, <2>1 DEF Looked
  <2> QED BY <1>1, <2>1, <2>2, <2>3 DEF Looks
<1> QED BY <1>1, <1>2, <1>3, EndsPast DEF HeedPcs

\* A failure ends the request of anybody but the provider's.
LEMMA FailPast == ASSUME RequestInv, NEW p \in Procs, Fail(p), Careful(call[p]) PROVE Past(p)
<1>1. call[p].pc # "idle"
  BY DEF Fail
<1>2. call' = [call EXCEPT ![p] = NoCall]
  BY DEF Fail, Careful
<1> HIDE DEF NoCall
<1> QED BY <1>1, <1>2, NoCallPast DEF Past

LEMMA CareIsPast ==
    ASSUME RequestInv, NEW p \in Procs, CallStep(p) \/ Fail(p), Careful(call[p])
    PROVE  Past(p) \/ Looks(p)
<1>1. ~(\/ OIDCCallback(p) \/ CompleteAuth(p) \/ FindLinked(p) \/ SyncList(p) \/ SyncSet(p) \/ FindByEmail(p) \/ FindLegacy(p)
        \/ Link(p) \/ Signup(p))
  BY DEF OIDCCallback, CompleteAuth, FindLinked, SyncList, SyncSet, FindByEmail, FindLegacy, Link, Signup, Handles, At,
         Careful, ProviderPcs
<1>2. CASE AccountStep(p)
  BY <1>1, <1>2, DoorsPast, SessionsPast, HandlersPast, UpdatesPast, EmailsPast, ChecksLook DEF AccountStep
<1>3. CASE RegistrationStep(p)
  BY <1>3, GivesPast, PasskeysPast, LinksPast, RedeemersPast DEF RegistrationStep
<1> QED BY <1>2, <1>3, FailPast DEF CallStep

-----------------------------------------------------------------------------
(* Mailboxes: what a statement does to them *)

\* Nobody holds a mailbox that it did not hold.
Fewer == \A v \in Rows(db') : v \in Rows(db) /\ Boxed(db'.users[v]) \subseteq Boxed(db.users[v])

\* Only u does, and it is a's, which nobody else held.
Joins(u, a) ==
    /\ ~Held(db, a, u)
    /\ \A v \in Rows(db') :
         IF v = u THEN Boxed(db'.users[v]) \subseteq {a[1]} \cup (IF u \in Rows(db) THEN Boxed(db.users[u]) ELSE {})
         ELSE v \in Rows(db) /\ Boxed(db'.users[v]) = Boxed(db.users[v])

LEMMA HeldBoxes == ASSUME NEW d, NEW a, NEW u PROVE Held(d, a, u) <=> \E v \in Rows(d) \ {u} : a[1] \in Boxed(d.users[v])
<1>1. \A b : NormalizeAddress(b)[1] = b[1]
  BY DEF NormalizeAddress
<1> QED BY <1>1 DEF Held, EqualFold, Boxed

LEMMA FewerKeeps ==
    ASSUME Disjoint(db), Fewer
    PROVE  Disjoint(db') /\ \A c : Looked(c, db) => Looked(c, db')
<1>1. Disjoint(db')
  <2> SUFFICES ASSUME NEW u \in Rows(db'), NEW v \in Rows(db'), u # v
               PROVE  Boxed(db'.users[u]) \cap Boxed(db'.users[v]) = {}
    BY DEF Disjoint
  <2>1. /\ u \in Rows(db) /\ Boxed(db'.users[u]) \subseteq Boxed(db.users[u])
        /\ v \in Rows(db) /\ Boxed(db'.users[v]) \subseteq Boxed(db.users[v])
    BY DEF Fewer
  <2>2. Boxed(db.users[u]) \cap Boxed(db.users[v]) = {}
    BY <2>1 DEF Disjoint
  <2> HIDE DEF Boxed
  <2> QED BY <2>1, <2>2
<1>2. \A a, u : Held(db', a, u) => Held(db, a, u)
  BY HeldBoxes DEF Fewer
<1> QED BY <1>1, <1>2 DEF Looked

LEMMA JoinsKeeps ==
    ASSUME Disjoint(db), NEW u, NEW a, Joins(u, a)
    PROVE  Disjoint(db')
<1>1. \A v \in Rows(db) : v # u => a[1] \notin Boxed(db.users[v])
  BY HeldBoxes DEF Joins
<1>2. ASSUME NEW v \in Rows(db'), u \in Rows(db'), v # u PROVE Boxed(db'.users[u]) \cap Boxed(db'.users[v]) = {}
  <2>1. v \in Rows(db) /\ Boxed(db'.users[v]) = Boxed(db.users[v]) /\ a[1] \notin Boxed(db.users[v])
    BY <1>1, <1>2 DEF Joins
  <2>2. Boxed(db'.users[u]) \subseteq {a[1]} \cup (IF u \in Rows(db) THEN Boxed(db.users[u]) ELSE {})
    BY <1>2 DEF Joins
  <2>3. u \in Rows(db) => Boxed(db.users[u]) \cap Boxed(db.users[v]) = {}
    BY <1>2, <2>1 DEF Disjoint
  <2> QED BY <2>1, <2>2, <2>3
<1>3. ASSUME NEW v \in Rows(db'), NEW w \in Rows(db'), v # u, w # u, v # w
      PROVE  Boxed(db'.users[v]) \cap Boxed(db'.users[w]) = {}
  BY <1>3 DEF Joins, Disjoint
<1> QED BY <1>2, <1>3 DEF Disjoint

LEMMA FewerSame == ASSUME db'.users = db.users PROVE Fewer
BY DEF Fewer, Rows

\* One row is written.
LEMMA RowFewer ==
    ASSUME RequestInv, NEW u \in Accounts, NEW r, Rewrites(db, db', u, r),
           r.life = "row" => u \in Rows(db) /\ Boxed(r) \subseteq Boxed(db.users[u])
    PROVE  Fewer
<1>1. \A v \in Accounts : db'.users[v] = IF v = u THEN r ELSE db.users[v]
  BY TablesFields DEF RequestInv, TypeOK, Rewrites
<1> QED BY <1>1 DEF Fewer, Rows

LEMMA RowJoins ==
    ASSUME RequestInv, NEW u \in Accounts, NEW r, db'.users = [db.users EXCEPT ![u] = r], NEW a, ~Held(db, a, u),
           Boxed(r) \subseteq {a[1]} \cup (IF u \in Rows(db) THEN Boxed(db.users[u]) ELSE {})
    PROVE  Joins(u, a)
<1>1. \A v \in Accounts : db'.users[v] = IF v = u THEN r ELSE db.users[v]
  BY TablesFields DEF RequestInv, TypeOK
<1> QED BY <1>1 DEF Joins, Rows

\* A row that keeps its mailboxes.
LEMMA RowSame ==
    ASSUME RequestInv, NEW u \in Rows(db), NEW r, Rewrites(db, db', u, r), r.email = db.users[u].email,
           r.plive => db.users[u].plive /\ r.pend = db.users[u].pend
    PROVE  Fewer
<1>1. u \in Accounts /\ Boxed(r) \subseteq Boxed(db.users[u])
  BY RowOf DEF Boxed
<1> QED BY <1>1, RowFewer

LEMMA UpdatesFewer ==
    ASSUME RequestInv, NEW p \in Procs, ~Calm(p),
           ApplyRole(p) \/ ApplyDisabled(p) \/ RequestWithdraw(p) \/ Cancel(p) \/ SetHandle(p)
    PROVE  Fewer
<1>0. \A u \in Rows(db) : db.users[u] \in User
  BY RowOf
<1>1. CASE ApplyRole(p)
  <2> DEFINE u == call[p].tgt
             r == [db.users[u] EXCEPT !.role = call[p].role]
  <2>1. u \in Rows(db) /\ Rewrites(db, db', u, r)
    BY <1>1, ApplyRoleDoes
  <2>2. r.email = db.users[u].email /\ r.plive = db.users[u].plive /\ r.pend = db.users[u].pend
    BY <1>0, <2>1 DEF User
  <2> HIDE DEF r, u
  <2> QED BY <2>1, <2>2, RowSame
<1>2. CASE ApplyDisabled(p)
  <2> DEFINE u == call[p].tgt
             r == [db.users[u] EXCEPT !.dis = (call[p].dis = "on")]
  <2>1. u \in Rows(db) /\ Rewrites(db, db', u, r)
    BY <1>2, ApplyDisabledDoes
  <2>2. r.email = db.users[u].email /\ r.plive = db.users[u].plive /\ r.pend = db.users[u].pend
    BY <1>0, <2>1 DEF User
  <2> HIDE DEF r, u
  <2> QED BY <2>1, <2>2, RowSame
<1>3. CASE SetHandle(p)
  <2> DEFINE u == call[p].tgt
  <2>1. PICK h \in Nat : u \in Rows(db) /\ Rewrites(db, db', u, [db.users[u] EXCEPT !.handle = h])
    BY <1>3, SetHandleStepDoes
  <2> DEFINE r == [db.users[u] EXCEPT !.handle = h]
  <2>2. u \in Rows(db) /\ Rewrites(db, db', u, r)
    BY <2>1
  <2>3. r.email = db.users[u].email /\ r.plive = db.users[u].plive /\ r.pend = db.users[u].pend
    BY <1>0, <2>1 DEF User
  <2> HIDE DEF r, u
  <2> QED BY <2>2, <2>3, RowSame
<1>4. CASE RequestWithdraw(p) \/ Cancel(p)
  <2> DEFINE u == call[p].me
  <2>1. u \in Rows(db) /\ Rewrites(db, db', u, Unpended(db.users[u]))
    BY <1>4, UnpendDoes
  <2>2. Unpended(db.users[u]).email = db.users[u].email /\ ~Unpended(db.users[u]).plive
    BY <1>0, <2>1, UserFields
  <2> HIDE DEF u
  <2> QED BY <2>1, <2>2, RowSame
<1> QED BY <1>1, <1>2, <1>3, <1>4

\* A new address, and nothing pending.
LEMMA ReaddressedBoxes ==
    ASSUME RequestInv, NEW u \in Rows(db), NEW a \in Addresses \cup {NoAddr}
    PROVE  Boxed(Unpended([db.users[u] EXCEPT !.email = a])) = {a[1]}
<1> DEFINE q == [db.users[u] EXCEPT !.email = a]
<1>1. q \in User /\ q.email = a
  <2>1. db.users[u] \in User
    BY RowOf
  <2> QED BY <2>1 DEF User
<1> HIDE DEF q
<1>2. Unpended(q).email = a /\ ~Unpended(q).plive
  BY <1>1, UserFields
<1>3. Boxed(Unpended(q)) = {a[1]}
  BY <1>2 DEF Boxed
<1> QED BY <1>3 DEF q

\* The pending address becomes the address.
LEMMA ConfirmFewer ==
    ASSUME RequestInv, NEW p \in Procs, ~Calm(p), Confirm(p)
    PROVE  Fewer
<1> DEFINE u == call[p].me
           a == db.users[u].pend
           r == Unpended([db.users[u] EXCEPT !.email = a])
<1>1. CanConfirm(db, u, call[p].tok) /\ u \in Rows(db) /\ a \in Addresses \cup {NoAddr} /\ Rewrites(db, db', u, r)
  BY ConfirmStepDoes DEF Readdresses
<1>2. Boxed(r) = {a[1]} /\ u \in Accounts
  BY <1>1, ReaddressedBoxes, RowOf
<1>3. {a[1]} \subseteq Boxed(db.users[u])
  BY <1>1 DEF CanConfirm, Boxed
<1> HIDE DEF r, a, u
<1> QED BY <1>1, <1>2, <1>3, RowFewer

\* The three writers of an address that somebody has looked up.
LEMMA WritersJoin ==
    ASSUME RequestInv, NEW p \in Procs, ~Calm(p), Looked(call[p], db), RequestPend(p) \/ AdminSet(p) \/ InviteCreate(p)
    PROVE  \E u, a : Joins(u, a)
<1>0. db \in Tables /\ call[p] \in Call
  BY InvFacts
<1>1. CASE AdminSet(p)
  <2> DEFINE u == call[p].tgt
             a == call[p].addr
             r == Unpended([db.users[u] EXCEPT !.email = a])
  <2>1. u \in Rows(db) /\ a \in Addresses \cup {NoAddr} /\ db'.users = [db.users EXCEPT ![u] = r]
    BY <1>1, SetEmailStepsDo DEF Readdresses, Rewrites
  <2>2. ~Held(db, a, u)
    BY <1>1 DEF AdminSet, At, Looked
  <2>3. Boxed(r) = {a[1]} /\ u \in Accounts
    BY <2>1, ReaddressedBoxes, RowOf
  <2> HIDE DEF r, a, u
  <2> QED BY <2>1, <2>2, <2>3, RowJoins
<1>2. CASE RequestPend(p)
  <2> DEFINE u == call[p].me
             a == call[p].addr
             r == [db.users[u] EXCEPT !.pend = a, !.ptok = Len(db.mails) + 1, !.plive = TRUE]
  <2>1. u \in Rows(db) /\ u \in Accounts /\ a \in Addresses \cup {NoAddr} /\ db' = SetPendingEmail(db, u, a)
    BY <1>2, RequestPendDoes, RowOf
  <2>2. db'.users = [db.users EXCEPT ![u] = r]
    BY <1>0, <2>1, SetPendingDoes
  <2>3. ~Held(db, a, u)
    BY <1>2 DEF RequestPend, At, Looked
  <2>4. db.users[u] \in User
    BY <2>1, RowOf
  <2>5. r.email = db.users[u].email /\ r.plive /\ r.pend = a
    BY <2>4 DEF User
  <2> HIDE DEF r, a, u
  <2>6. Boxed(r) \subseteq {a[1]} \cup Boxed(db.users[u])
    BY <2>5 DEF Boxed
  <2> QED BY <2>1, <2>2, <2>3, <2>6, RowJoins
<1>3. CASE InviteCreate(p)
  <2> DEFINE u == NewId(db)
             a == call[p].addr
             r == Newcomer(a, call[p].role, Nobody, "invite")
  <2>1. u \in Accounts /\ db.users[u].life = "unborn" /\ db'.users = [db.users EXCEPT ![u] = r]
    BY <1>3, InviteCreateDoes DEF Arrives, Rewrites
  <2>2. r.email = a /\ ~r.plive
    BY DEF Newcomer, NoUser
  <2>3. ~Held(db, a, Nobody)
    BY <1>3 DEF InviteCreate, At, Looked
  <2> HIDE DEF r, a, u
  <2>4. ~Held(db, a, u)
    BY <2>3, SceneAssumption DEF Held, Rows
  <2>5. Boxed(r) = {a[1]}
    BY <2>2 DEF Boxed
  <2> QED BY <2>1, <2>4, <2>5, RowJoins
<1> QED BY <1>1, <1>2, <1>3

LEMMA BusyFewer ==
    ASSUME RequestInv, NEW p \in Procs, Busy(p), ~Calm(p), Careful(call[p])
    PROVE  Fewer
<1>0. db \in Tables /\ ~CreateAdmin(p)
  BY InvFacts DEF CreateAdmin, At, Careful, Fits
<1>1. CASE SetHandle(p)
  BY <1>1, UpdatesFewer
<1>2. CASE DeleteTarget(p)
  <2>1. /\ call[p].tgt \notin Rows(db') /\ \A v \in Accounts : v # call[p].tgt => db'.users[v] = db.users[v]
    BY <1>2, DeletedRow
  <2> QED BY <2>1 DEF Fewer, Rows
<1>3. CASE ApplyChanged(p) \/ ReplaceDelete(p)
  <2>1. db' = DeleteUnusedByUser(db, call[p].tgt)
    BY <1>3, ApplyChangedDoes, ReplaceDeleteDoes
  <2>2. db'.users = db.users
    BY <1>0, <2>1, DeleteUnusedDoes DEF Links
  <2> QED BY <2>2, FewerSame
<1>4. CASE PersistCredential(p) \/ Remove(p) \/ RevokeAll(p) \/ RevokeOld(p)
  <2>1. \E cs : Keys(db, db', cs)
    BY <1>4, PersistDoes, CredsDeletedDo, RevokeOldDoes
  <2> QED BY <2>1, FewerSame DEF Keys
<1>5. CASE ReplaceLock(p) \/ RecipientAfterMint(p) \/ Fail(p)
  BY <1>5, ReplaceLockDoes, RecipientDoes, FailDoes, FewerSame
<1>6. CASE IssueInvite(p) \/ RecoverMint(p) \/ ReplaceMint(p) \/ Deliver(p) \/ ConsumeGrant(p)
  <2>1. db' = db \/ \E gs : Links(db, db', gs)
    BY <1>6, IssueDoes, ReplaceMintDoes, DeliverStepDoes, ConsumeGrantDoes
  <2> QED BY <2>1, FewerSame DEF Links
<1>7. CASE ConsumeBootstrap(p)
  <2>1. db' = ConsumeBoot(db)
    BY <1>7, ConsumeBootstrapDoes
  <2>2. db'.users = db.users
    BY <1>0, <2>1, ConsumeBootDoes
  <2> QED BY <2>2, FewerSame
<1> QED BY <1>0, <1>1, <1>2, <1>3, <1>4, <1>5, <1>6, <1>7 DEF Busy

\* What a request that is careful writes.
LEMMA CareWrites ==
    ASSUME RequestInv, NEW p \in Procs, CallStep(p) \/ Fail(p), Careful(call[p]), Looked(call[p], db)
    PROVE  Fewer \/ \E u, a : Joins(u, a)
<1>1. ~(SyncSet(p) \/ Link(p) \/ Signup(p))
  BY DEF SyncSet, Link, Signup, At, Careful, ProviderPcs
<1>2. \/ Calm(p) \/ Busy(p) \/ ApplyRole(p) \/ ApplyDisabled(p) \/ RequestWithdraw(p) \/ Cancel(p) \/ Confirm(p)
      \/ RequestPend(p) \/ AdminSet(p) \/ InviteCreate(p)
  <2>1. CASE AccountStep(p)
    BY <1>1, <2>1, AuthenticationCalm, SessionStepsCalm, HandlersCalm, LookupsCalm, FindersCalm, GuardsCalm, InviteCalm,
       FindEmailCalm, UnsentCalm DEF AccountStep, Busy
  <2>2. CASE RegistrationStep(p)
    BY <2>2, LookupsCalm, FindersCalm, ClassifyCalm, GivesCalm, ClaimChallengeCalm, VerifyCalm, FinishersCalm
       DEF RegistrationStep, Busy
  <2> QED BY <2>1, <2>2 DEF CallStep, Busy
<1>3. Calm(p) => Fewer
  BY FewerSame DEF Calm, Aside
<1> QED BY <1>2, <1>3, BusyFewer, UpdatesFewer, ConfirmFewer, WritersJoin

-----------------------------------------------------------------------------
(* Mailboxes: the invariant *)

LEMMA OneAtATime == ASSUME RequestInv, Lone(S), NEW p \in S.procs, NEW q \in S.procs PROVE p = q
<1>1. IsFiniteSet(S.procs) /\ Cardinality(S.procs) = 1
  BY SceneAssumption DEF RequestInv, S, Lone
<1>2. PICK x : S.procs = {x}
  BY <1>1, FS_Singleton
<1> QED BY <1>2

LEMMA NoCallLooks == NoCall.op = "none" /\ NoCall.pc = "idle" /\ Careful(NoCall) /\ \A d : Looked(NoCall, d)
BY DEF NoCall, Careful, ProviderPcs, Looked

\* One request moves to c.
LEMMA MailboxMoves ==
    ASSUME RequestInv, MailboxInv, Lone(S), scene' = scene, NEW p \in Procs, p \in S.procs, NEW c,
           call' = [call EXCEPT ![p] = c], Careful(c), Looked(c, db'), Fewer \/ \E u, a : Joins(u, a)
    PROVE  MailboxInv'
<1>0. S' = S /\ call \in [Procs -> Call] /\ Disjoint(db)
  BY DEF S, RequestInv, TypeOK, MailboxInv
<1>1. Disjoint(db')
  BY <1>0, FewerKeeps, JoinsKeeps
<1>2. ASSUME NEW q \in Procs, q # p
      PROVE  call'[q].pc # "idle" => q \in S.procs /\ q = p
  BY <1>0, <1>2, OneAtATime DEF MailboxInv
<1>3. ASSUME NEW q \in Procs, q # p PROVE Careful(call'[q]) /\ Looked(call'[q], db')
  <2>1. call'[q] = call[q] /\ Careful(call[q]) /\ call[q].pc = "idle"
    BY <1>0, <1>2, <1>3 DEF MailboxInv
  <2> QED BY <2>1 DEF Looked
<1>4. call'[p] = c
  BY <1>0
<1>5. \A q \in Procs : (call'[q].pc # "idle" => q \in S.procs) /\ Careful(call'[q]) /\ Looked(call'[q], db')
  BY <1>2, <1>3, <1>4
<1>6. Lone(S)' => Disjoint(db)' /\ \A q \in Procs : /\ call'[q].pc # "idle" => q \in S'.procs
                                                    /\ Careful(call'[q]) /\ Looked(call'[q], db')
  BY <1>0, <1>1, <1>5 DEF Disjoint, Boxed, Rows
<1> QED BY <1>6 DEF MailboxInv, Lone, Disjoint, Boxed, Rows, Careful, Looked, Held, EqualFold

\* No request moves, and nobody holds more.
LEMMA MailboxStays ==
    ASSUME RequestInv, MailboxInv, scene' = scene, call' = call \/ call' = [p \in Procs |-> NoCall], Fewer
    PROVE  MailboxInv'
<1> SUFFICES ASSUME Lone(S) PROVE MailboxInv'
  BY DEF MailboxInv, S, Lone
<1>0. S' = S /\ Disjoint(db)
  BY DEF S, MailboxInv
<1>1. Disjoint(db') /\ \A c : Looked(c, db) => Looked(c, db')
  BY <1>0, FewerKeeps
<1> HIDE DEF NoCall
<1>2. \A q \in Procs : (call'[q].pc # "idle" => q \in S.procs) /\ Careful(call'[q]) /\ Looked(call'[q], db')
  <2>1. CASE call' = call
    BY <1>1, <2>1 DEF MailboxInv
  <2>2. CASE call' = [p \in Procs |-> NoCall]
    BY <2>2, NoCallLooks
  <2> QED BY <2>1, <2>2
<1> QED BY <1>0, <1>1, <1>2 DEF MailboxInv, Lone, Disjoint, Boxed, Rows, Careful, Looked, Held, EqualFold

LEMMA MailboxArrives ==
    ASSUME RequestInv, MailboxInv, Lone(S), NEW p \in Procs, Arrive(p)
    PROVE  MailboxInv'
<1>0. PICK a \in S.asks : \E sid, ref, tok :
        call' = [call EXCEPT ![p] =
             [op |-> a.op, door |-> a.door, me |-> a.me, tgt |-> a.tgt, addr |-> a.addr, role |-> a.role, dis |-> a.dis,
              sub |-> a.sub, verified |-> a.verified, pc |-> FirstCheck(a.op, a.door),
              sid |-> sid, ref |-> ref, tok |-> tok, row |-> NoUser, admins |-> NotCounted]]
  BY DEF Arrive
<1>1. PICK sid, ref, tok :
        call' = [call EXCEPT ![p] =
             [op |-> a.op, door |-> a.door, me |-> a.me, tgt |-> a.tgt, addr |-> a.addr, role |-> a.role, dis |-> a.dis,
              sub |-> a.sub, verified |-> a.verified, pc |-> FirstCheck(a.op, a.door),
              sid |-> sid, ref |-> ref, tok |-> tok, row |-> NoUser, admins |-> NotCounted]]
  BY <1>0
<1> DEFINE c == [op |-> a.op, door |-> a.door, me |-> a.me, tgt |-> a.tgt, addr |-> a.addr, role |-> a.role, dis |-> a.dis,
                 sub |-> a.sub, verified |-> a.verified, pc |-> FirstCheck(a.op, a.door),
                 sid |-> sid, ref |-> ref, tok |-> tok, row |-> NoUser, admins |-> NotCounted]
<1>2. c.op = a.op /\ c.pc = FirstCheck(a.op, a.door) /\ call' = [call EXCEPT ![p] = c]
  BY <1>1
<1>3. p \in S.procs /\ db' = db /\ scene' = scene
  BY DEF Arrive
<1>4. c.pc \in {"handler", "key", "session"} /\ c.op \notin {"oidc", "reg_finish"}
  BY <1>2 DEF FirstCheck, Lone
<1> HIDE DEF c
<1>5. Careful(c) /\ Looked(c, db')
  BY <1>4 DEF Careful, ProviderPcs, Looked
<1>6. Fewer
  BY <1>3, FewerSame
<1> QED BY <1>2, <1>3, <1>5, <1>6, MailboxMoves

LEMMA MailboxCalls ==
    ASSUME RequestInv, MailboxInv, Lone(S), NEW p \in Procs, CallStep(p) \/ Fail(p), scene' = scene
    PROVE  MailboxInv'
<1>1. Careful(call[p]) /\ Looked(call[p], db) /\ (call[p].pc # "idle" => p \in S.procs)
  BY DEF MailboxInv
<1>2. Fewer \/ \E u, a : Joins(u, a)
  BY <1>1, CareWrites
<1>3. CASE Past(p)
  <2>1. PICK c : call' = [call EXCEPT ![p] = c] /\ c.op \in {call[p].op, "none"} /\ c.pc \notin Away
    BY <1>3 DEF Past
  <2>2. Careful(c) /\ Looked(c, db')
    BY <1>1, <2>1 DEF Careful, Looked, Away, HeedPcs
  <2>3. p \in S.procs
    BY <1>1, <1>3 DEF Past
  <2> QED BY <1>2, <2>1, <2>2, <2>3, MailboxMoves
<1>4. CASE Looks(p)
  <2>1. PICK c : call' = [call EXCEPT ![p] = c] /\ c.op = call[p].op /\ c.pc \in HeedPcs /\ Looked(c, db)
    BY <1>4 DEF Looks
  <2>2. db' = db /\ p \in S.procs
    BY <1>1, <1>4 DEF Looks
  <2>3. Careful(c) /\ Looked(c, db')
    BY <1>1, <2>1, <2>2 DEF Careful, HeedPcs, ProviderPcs
  <2> QED BY <1>2, <2>1, <2>2, <2>3, MailboxMoves
<1> QED BY <1>1, <1>3, <1>4, CareIsPast

LEMMA MailboxTime ==
    ASSUME RequestInv, MailboxInv, Restart \/ Expire \/ Prune
    PROVE  MailboxInv'
<1>0. db \in Tables /\ \A u \in Accounts : db.users[u] \in User
  BY TablesFields DEF RequestInv, TypeOK
<1>1. CASE Restart
  <2>1. call' = [p \in Procs |-> NoCall] /\ scene' = scene /\ (db' = db \/ db' = SetTokenHash(db))
    BY <1>1, RestartDoes
  <2>2. Fewer
    BY <1>0, <2>1, SetTokenDoes, FewerSame
  <2> QED BY <2>1, <2>2, MailboxStays
<1>2. ASSUME NEW u \in Accounts, ExpirePending(u) PROVE Fewer
  <2> DEFINE r == [db.users[u] EXCEPT !.plive = FALSE]
  <2>1. Rewrites(db, db', u, r)
    BY <1>0, <1>2, ExpirePendingDoes DEF ExpirePending
  <2>2. r.email = db.users[u].email /\ ~r.plive /\ r.life = db.users[u].life
    BY <1>0 DEF User
  <2> HIDE DEF r
  <2>3. r.life = "row" => u \in Rows(db) /\ Boxed(r) \subseteq Boxed(db.users[u])
    BY <2>2 DEF Rows, Boxed
  <2> QED BY <2>1, <2>3, RowFewer
<1>3. CASE Expire
  <2>1. call' = call /\ scene' = scene
    BY <1>3 DEF Expire
  <2>2. ASSUME NEW i \in 1..Len(db.grants), ExpireGrant(i) PROVE Fewer
    BY <1>0, <2>2, ExpireGrantDoes, FewerSame DEF ExpireGrant, Links
  <2>3. ASSUME NEW i \in 1..Len(db.sessions), ExpireSession(i) PROVE Fewer
    <3>1. Aside(db, db')
      BY <1>0, <2>3, SessionsLive, Zenon DEF ExpireSession
    <3> QED BY <3>1, FewerSame DEF Aside
  <2>4. Fewer
    BY <1>2, <1>3, <2>2, <2>3 DEF Expire
  <2> QED BY <2>1, <2>4, MailboxStays
<1>4. CASE Prune
  <2>1. call' = call /\ scene' = scene
    BY <1>4 DEF Prune
  <2>2. ASSUME db' = PruneSessions(db) PROVE Fewer
    BY <1>0, <2>2, SessionsEnd, FewerSame DEF Aside
  <2>3. ASSUME db' = PruneGrants(db) PROVE Fewer
    BY <1>0, <2>3, PruneGrantsDoes, FewerSame DEF Links
  <2>4. ASSUME db' = ClearExpiredPendingEmails(db) PROVE Fewer
    <3>1. db'.users = [u \in Accounts |-> IF db.users[u].plive THEN db.users[u] ELSE Unpended(db.users[u])]
      BY <1>0, <2>4, ClearExpiredDoes
    <3>2. \A u \in Accounts : /\ db'.users[u].life = db.users[u].life /\ db'.users[u].email = db.users[u].email
                              /\ db'.users[u].plive => db'.users[u] = db.users[u]
      BY <1>0, <3>1, UserFields
    <3> QED BY <3>2 DEF Fewer, Rows, Boxed
  <2>5. Fewer
    BY <1>4, <2>2, <2>3, <2>4 DEF Prune
  <2> QED BY <2>1, <2>5, MailboxStays
<1> QED BY <1>1, <1>3, <1>4

\* The situation is chosen once.
LEMMA SceneStays == ASSUME RequestInv, Next PROVE scene' = scene
<1>1. ASSUME NEW p \in Procs, Calm(p) \/ AccountWrite(p) PROVE scene' = scene
  BY <1>1 DEF Calm, AccountWrite, Goes, Onward
<1>2. ASSUME NEW p \in Procs, Busy(p), ~Calm(p) PROVE scene' = scene
  <2>1. CASE ReplaceLock(p) \/ ReplaceMint(p) \/ Fail(p)
    BY <2>1 DEF ReplaceLock, ReplaceMint, Fail
  <2>2. CASE DeleteTarget(p) \/ ApplyChanged(p) \/ PersistCredential(p) \/ Remove(p) \/ RevokeAll(p) \/ Deliver(p)
    <3>1. \E pc \in {"idle", "new_session", "lock"} : Goes(p, pc, call[p].tgt)
      BY <1>2, <2>2, DeleteTargetDoes, ApplyChangedDoes, PersistDoes, CredsDeletedDo, DeliverStepDoes
    <3> QED BY <3>1 DEF Goes, Onward
  <2>3. CASE SetHandle(p) \/ ReplaceDelete(p) \/ ConsumeGrant(p) \/ RevokeOld(p) \/ ConsumeBootstrap(p)
    <3>1. \E pc \in {"create_cred", "mint", "revoke_old", "set_handle", "create_admin"} : Proceeds(p, pc)
      BY <1>2, <2>3, SetHandleStepDoes, ReplaceDeleteDoes, ConsumeGrantDoes, RevokeOldDoes, ConsumeBootstrapDoes
    <3> QED BY <3>1 DEF Proceeds, Onward
  <2>4. CASE IssueInvite(p) \/ RecoverMint(p) \/ RecipientAfterMint(p) \/ CreateAdmin(p)
    <3>1. \E c : Onward(p, c)
      BY <1>2, <2>4, IssueDoes, RecipientDoes, CreateAdminDoes DEF Goes
    <3> QED BY <3>1 DEF Onward
  <2> QED BY <1>2, <2>1, <2>2, <2>3, <2>4 DEF Busy
<1>3. CASE Restart \/ Expire \/ Prune
  BY <1>3 DEF Restart, Expire, Prune
<1> QED BY <1>1, <1>2, <1>3, StepsAre

LEMMA MailboxInvNext == ASSUME RequestInv, MailboxInv, [Next]_vars PROVE MailboxInv'
<1>1. CASE UNCHANGED vars
  <2>1. scene' = scene /\ call' = call /\ db' = db
    BY <1>1 DEF vars
  <2> QED BY <2>1, FewerSame, MailboxStays
<1>2. ASSUME NEW p \in Procs, Arrive(p) \/ CallStep(p) \/ Fail(p) PROVE MailboxInv'
  <2>1. scene' = scene
    BY <1>2, SceneStays DEF Next
  <2>2. CASE Lone(S)
    BY <1>2, <2>1, <2>2, MailboxArrives, MailboxCalls
  <2>3. CASE ~Lone(S)
    BY <2>1, <2>3 DEF MailboxInv, S, Lone
  <2> QED BY <2>2, <2>3
<1> QED BY <1>1, <1>2, MailboxTime DEF Next

(***************************************************************************)
(* With one request at a time, and neither sign-ups through the provider   *)
(* nor claims, a mailbox belongs to one account in whatever spelling, the  *)
(* ones waiting for confirmation included, for any number of accounts,     *)
(* failures, restarts and expiries (addressHeld before SetPendingEmail,    *)
(* SetEmail and Create; ConfirmPendingEmail looks no more).  It is assumed *)
(* of such tables as the server may come up with, and kept.                *)
(***************************************************************************)
THEOREM OneAccountPerMailboxAlone ==
    ASSUME \A n \in DOMAIN Scenes : Lone(Scenes[n]) => Disjoint(Scenes[n].db)
    PROVE  Spec => []OneAccountPerMailbox
<1>1. Init => MailboxInv
  <2> SUFFICES ASSUME Init, Lone(S) PROVE MailboxInv
    BY DEF MailboxInv
  <2>1. scene \in DOMAIN Scenes /\ db = S.db /\ call = [p \in Procs |-> NoCall]
    BY DEF Init
  <2>2. Disjoint(db)
    BY <2>1 DEF S
  <2> HIDE DEF NoCall
  <2> QED BY <2>1, <2>2, NoCallLooks DEF MailboxInv
<1>2. RequestInv /\ MailboxInv /\ [Next]_vars => MailboxInv'
  BY MailboxInvNext
<1>3. MailboxInv => OneAccountPerMailbox
  BY DEF MailboxInv, OneAccountPerMailbox, Lone, Disjoint, Boxed, Holds
<1> QED BY <1>1, <1>2, <1>3, RequestInvAlways, PTL DEF Spec
=============================================================================
