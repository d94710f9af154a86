---------------------------- MODULE AccountStore ----------------------------
(***************************************************************************)
(* The tables behind accounts and sign-in (internal/store): users,         *)
(* sessions, api_keys, webauthn_credentials, account_recovery_tokens and   *)
(* bootstrap.  Tables are the fields of one record d; a statement is an    *)
(* operator from tables to tables, and SQLite runs one at a time.  Rows    *)
(* that are not users live in sequences: the position is the random key,   *)
(* never used twice, and a deleted row stays as "gone".                    *)
(*                                                                         *)
(* An address is a mailbox and a spelling of it: canonical, canonical in   *)
(* another case, or the display-name form that only rows from before the   *)
(* boundary validations hold.  UNIQUE(email) compares the text.            *)
(***************************************************************************)
EXTENDS Integers, Sequences, FiniteSets

CONSTANTS
    Accounts,  \* user ids
    Boxes,     \* mailboxes
    Subjects   \* identities at the OIDC provider

Addresses == Boxes \X {"plain", "variant", "legacy"}
NoAddr == <<"none", "none">>
Nobody == "nobody"

Legacy(a) == a[2] = "legacy"
NormalizeAddress(a) == IF Legacy(a) THEN <<a[1], "plain">> ELSE a

\* strings.EqualFold, of two canonical addresses and of one with a stored text.
EqualFold(a, b) == a[1] = b[1]
SameText(a, stored) == ~Legacy(stored) /\ EqualFold(a, stored)

User == [life : {"unborn", "row", "gone"}, email : Addresses \cup {NoAddr}, role : {"admin", "user"},
         dis : BOOLEAN, sub : Subjects \cup {Nobody}, handle : Nat,
         pend : Addresses \cup {NoAddr}, ptok : Nat, plive : BOOLEAN,
         by : {"seed", "invite", "claim", "oidc"}]
NoUser == [life |-> "unborn", email |-> NoAddr, role |-> "user", dis |-> FALSE, sub |-> Nobody,
           handle |-> 0, pend |-> NoAddr, ptok |-> 0, plive |-> FALSE, by |-> "seed"]

\* A grant's "to" is whom its link was addressed to and "upto" how many credentials
\* had ever existed when it was used: both are history, not columns.
Grant == [user : Accounts, reason : {"invite", "recovery"}, st : {"unused", "used", "gone"},
          live : BOOLEAN, replaces : BOOLEAN, to : Addresses \cup {NoAddr}, upto : Nat]
Credential == [user : Accounts, handle : Nat, grant : Nat, st : {"row", "gone"}]
Owned == [user : Accounts, st : {"row", "gone"}, live : BOOLEAN]

\* mails[t] is the address email-change token t was sent to.
Tables == [users : [Accounts -> User], grants : Seq(Grant), creds : Seq(Credential),
           sessions : Seq(Owned), keys : Seq(Owned), mails : Seq(Addresses \cup {NoAddr}),
           boot : [token : Nat, open : BOOLEAN]]

-----------------------------------------------------------------------------
(* users *)

Rows(d) == {u \in Accounts : d.users[u].life = "row"}

\* Users.List: what a reader holds is the rows of that moment.
GetByEmail(d, a) == {u \in Rows(d) : d.users[u].email = a}
GetByOIDC(d, s) == {u \in Rows(d) : d.users[u].sub = s}

\* No handle (NULL) is nobody's.
GetByWebAuthnHandle(d, h) == {u \in Rows(d) : h # 0 /\ d.users[u].handle = h}
IsEnabledAdmin(r) == r.role = "admin" /\ ~r.dis

\* UNIQUE(email), UNIQUE(oidc_provider, oidc_subject), users_webauthn_handle.
FreeEmail(d, u, a) == GetByEmail(d, a) \subseteq {u}

\* The id is random; which one it is does not matter.
NewId(d) == CHOOSE u \in Accounts : d.users[u].life = "unborn"
CanCreate(d, a, s) ==
    /\ \E u \in Accounts : d.users[u].life = "unborn"
    /\ GetByEmail(d, a) = {} /\ (s # Nobody => GetByOIDC(d, s) = {})
Create(d, a, role, s, by) ==
    [d EXCEPT !.users[NewId(d)] =
        [NoUser EXCEPT !.life = "row", !.email = a, !.role = role, !.sub = s, !.by = by]]

SetRole(d, u, role) == [d EXCEPT !.users[u].role = role]
SetDisabled(d, u, dis) == [d EXCEPT !.users[u].dis = dis]

\* Mutated form of CanLinkOIDC: the row is addressed by its id alone.
CanLinkOIDCById(d, u, seen, a, s) == u \in Rows(d) /\ FreeEmail(d, u, a) /\ GetByOIDC(d, s) = {}

CanLinkOIDC(d, u, seen, a, s) ==
    /\ u \in Rows(d) /\ d.users[u].email = seen.email /\ d.users[u].role = seen.role
    /\ d.users[u].sub = Nobody
    /\ FreeEmail(d, u, a) /\ GetByOIDC(d, s) = {}
LinkOIDC(d, u, a, s) == [d EXCEPT !.users[u].email = a, !.users[u].sub = s]

CanSetHandle(d, u, h) == u \in Rows(d) /\ GetByWebAuthnHandle(d, h) \subseteq {u}
SetWebAuthnHandle(d, u, h) == [d EXCEPT !.users[u].handle = h]

Unpended(r) == [r EXCEPT !.pend = NoAddr, !.ptok = 0, !.plive = FALSE]
SetPendingEmail(d, u, a) ==
    [d EXCEPT !.users[u].pend = a, !.users[u].ptok = Len(d.mails) + 1, !.users[u].plive = TRUE,
              !.mails = Append(@, a)]
ClearPendingEmail(d, u) == [d EXCEPT !.users[u] = Unpended(@)]

\* Mutated form of CanConfirm: any confirmation link of the account will do.
CanConfirmAny(d, u, tok) ==
    /\ u \in Rows(d) /\ d.users[u].pend # NoAddr /\ d.users[u].plive
    /\ FreeEmail(d, u, d.users[u].pend)

CanConfirm(d, u, tok) ==
    /\ u \in Rows(d) /\ d.users[u].pend # NoAddr
    /\ d.users[u].ptok = tok /\ d.users[u].plive
    /\ FreeEmail(d, u, d.users[u].pend)
ConfirmPendingEmail(d, u) == [d EXCEPT !.users[u] = Unpended([@ EXCEPT !.email = d.users[u].pend])]
CanSetEmail(d, u, a) == u \in Rows(d) /\ FreeEmail(d, u, a)
SetEmail(d, u, a) == [d EXCEPT !.users[u] = Unpended([@ EXCEPT !.email = a])]
ClearExpiredPendingEmails(d) ==
    [d EXCEPT !.users = [u \in Accounts |-> IF d.users[u].plive THEN d.users[u] ELSE Unpended(d.users[u])]]

-----------------------------------------------------------------------------
(* Rows that belong to an account, deleted with it *)

Of(table, u) == {i \in 1..Len(table) : table[i].user = u /\ table[i].st # "gone"}
Without(table, gone) == [i \in 1..Len(table) |-> IF i \in gone THEN [table[i] EXCEPT !.st = "gone"] ELSE table[i]]

DeleteUser(d, u) ==
    [d EXCEPT !.users[u] = [NoUser EXCEPT !.life = "gone"],
              !.grants = Without(@, Of(@, u)), !.creds = Without(@, Of(@, u)),
              !.sessions = Without(@, Of(@, u)), !.keys = Without(@, Of(@, u))]

GetSession(d, i) == d.sessions[i].st = "row"
CreateSession(d, u) == [d EXCEPT !.sessions = Append(@, [user |-> u, st |-> "row", live |-> TRUE])]

\* Touch gives the row a whole new span; it may come after the expiry.
TouchSession(d, i) == [d EXCEPT !.sessions[i].live = TRUE]
DeleteSession(d, i) == [d EXCEPT !.sessions = Without(@, {i})]
DeleteSessionsByUser(d, u) == [d EXCEPT !.sessions = Without(@, Of(@, u))]
PruneSessions(d) == [d EXCEPT !.sessions = Without(@, {i \in 1..Len(@) : ~@[i].live})]

GetKey(d, i) == d.keys[i].st = "row"
CreateKey(d, u) == [d EXCEPT !.keys = Append(@, [user |-> u, st |-> "row", live |-> TRUE])]
DeleteKey(d, i) == [d EXCEPT !.keys = Without(@, {i})]

CountCreds(d, u) == Cardinality(Of(d.creds, u))
GetCredential(d, i) == d.creds[i].st = "row"
CreateCredential(d, u, h, g) ==
    [d EXCEPT !.creds = Append(@, [user |-> u, handle |-> h, grant |-> g, st |-> "row"])]
DeleteCredential(d, i) == [d EXCEPT !.creds = Without(@, {i})]
DeleteAllByUser(d, u) == [d EXCEPT !.creds = Without(@, Of(@, u))]

CreateGrant(d, u, reason, replaces) ==
    [d EXCEPT !.grants = Append(@, [user |-> u, reason |-> reason, st |-> "unused", live |-> TRUE,
                                    replaces |-> replaces, to |-> NoAddr, upto |-> 0])]

\* Mutated form of Redeemable: a used grant is only refused by the look before.
RedeemableUnexpired(d, g) == d.grants[g].st # "gone" /\ d.grants[g].live

Redeemable(d, g) == d.grants[g].st = "unused" /\ d.grants[g].live
Consume(d, g) == [d EXCEPT !.grants[g].st = "used", !.grants[g].upto = Len(d.creds)]
Unused(d, u) == {i \in Of(d.grants, u) : d.grants[i].st = "unused"}
DeleteUnusedByUser(d, u) == [d EXCEPT !.grants = Without(@, Unused(d, u))]
PruneGrants(d) == [d EXCEPT !.grants = Without(@, {i \in 1..Len(@) : ~@[i].live})]

-----------------------------------------------------------------------------
(* bootstrap *)

SetTokenHash(d) == [d EXCEPT !.boot = [token |-> @.token + 1, open |-> TRUE]]

\* Mutated form of BootOpen: the row is consumed whether or not it still can be.
BootOpenAlways(d) == d.boot.token > 0

BootOpen(d) == d.boot.token > 0 /\ d.boot.open

\* Bootstrap.Get: the token whose hash the row holds; consuming clears it.
BootHash(d) == IF d.boot.open THEN d.boot.token ELSE 0
ConsumeBoot(d) == [d EXCEPT !.boot.open = FALSE]
=============================================================================
