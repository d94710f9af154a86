--------------------------- MODULE MCRegistration ---------------------------
(* Situations for Registration: who exists, who asks for what, how many at once. *)
EXTENDS Registration

At1(b) == <<b, "plain">>
At2(b) == <<b, "variant">>
Person(b, role) == [NoUser EXCEPT !.life = "row", !.email = At1(b), !.role = role]
Bearer(u) == [user |-> u, st |-> "row", live |-> TRUE]
Key(u, h) == [user |-> u, handle |-> h, grant |-> 0, st |-> "row"]

\* u1 administers, u2 is a user, u3 does not exist yet; 91 is a handle from before.
Base == [users |-> [u \in Accounts |-> CASE u = "u1" -> Person("b1", "admin") [] u = "u2" -> Person("b2", "user")
                                        [] OTHER -> NoUser],
         grants |-> <<>>, creds |-> <<>>, sessions |-> <<Bearer("u1"), Bearer("u2")>>, keys |-> <<>>, mails |-> <<>>,
         boot |-> [token |-> 1, open |-> FALSE]]
Enrolled == [Base EXCEPT !.users["u2"].handle = 91, !.creds = <<Key("u2", 91)>>]

Of2(op, door, me, tgt, addr, role, dis) ==
    [op |-> op, door |-> door, me |-> me, tgt |-> tgt, addr |-> addr, role |-> role, dis |-> dis,
     sub |-> Nobody, verified |-> FALSE]
Mine(op, door, addr) == Of2(op, door, "u2", Nobody, addr, "keep", "keep")
Admin(op, door, addr) == Of2(op, door, "u1", "u2", addr, "keep", "keep")
Login(s, addr, ok) == [Of2("oidc", "api", Nobody, Nobody, addr, "keep", "keep") EXCEPT !.sub = s, !.verified = ok]

Both(op, me, tgt, addr, role, dis) == {Of2(op, d, me, tgt, addr, role, dis) : d \in {"api", "page"}}
Scene(tables, given, asks, procs, calls, faults, expiry) ==
    [db |-> tables, chals |-> given, asks |-> asks, procs |-> procs, calls |-> calls, faults |-> faults, expiry |-> expiry]

\* Two administrators' requests about one account, and its address changes.
Links == Scene(Base, <<>>,
    {Admin("reinvite", "api", NoAddr), Admin("recovery", "page", At1("b2")), Admin("set_email", "api", At1("b3")),
     Admin("delete", "api", NoAddr)},
    Procs, 3, 1, FALSE)

\* One recovery link, two ceremonies begun with it, and the user asks for another.
Ceremony(aad, u, h) == [aad |-> aad, user |-> u, handle |-> h, addr |-> NoAddr, used |-> FALSE]
Redeem == Scene([Enrolled EXCEPT !.grants = <<[user |-> "u2", reason |-> "recovery", st |-> "unused", live |-> TRUE,
                                               replaces |-> FALSE, to |-> At1("b2"), upto |-> 0]>>],
    <<Ceremony("webauthn", "u2", 91), Ceremony("webauthn", "u2", 91)>>,
    {Mine("reg_finish", "api", NoAddr), Mine("reg_begin", "api", NoAddr), Mine("recover", "api", At1("b2"))},
    Procs, 3, 0, FALSE)

\* The owner changes the address, twice at once, and cancels.
Emails == Scene(Base, <<>>,
    {Mine("email_request", "api", At1("b3")), Mine("email_request", "page", At1("b4")), Mine("email_confirm", "api", NoAddr),
     Mine("email_cancel", "page", NoAddr)},
    Procs, 3, 1, TRUE)

\* The provider signs people in while an administrator promotes and renames.
Provider == Scene(Base, <<Ceremony("oidc", Nobody, 0)>>,
    {Login("s1", At1("b2"), TRUE), Login("s1", At1("b3"), TRUE), Login("s2", At1("b4"), FALSE)}
    \cup {Admin("set_email", "api", At1("b4")), Of2("update", "api", "u1", "u2", NoAddr, "admin", "keep")},
    Procs, 3, 1, FALSE)

\* The row was stored in the display-name form; two sign-ins, and the address is repaired or changed.
Repair == Scene([Base EXCEPT !.users["u2"].email = <<"b2", "legacy">>], <<Ceremony("oidc", Nobody, 0)>>,
    {Login("s1", At1("b2"), TRUE), Login("s2", At1("b2"), TRUE), Admin("set_email", "api", At1("b2")),
     Admin("set_email", "page", At1("b4")), Admin("reinvite", "api", NoAddr)},
    Procs, 3, 0, FALSE)

\* Nobody is there: two claims of the first administrator, and restarts.
First == Scene([Base EXCEPT !.users = [u \in Accounts |-> NoUser], !.sessions = <<>>, !.boot.open = TRUE], <<>>,
    {Mine("reg_begin", "api", At1("b1")), Mine("reg_begin", "api", At1("b2")), Mine("reg_finish", "api", NoAddr)},
    Procs, 4, 1, FALSE)

\* One request at a time, by both doors, two administrators against each other.
Alone == Scene([Base EXCEPT !.users["u2"].role = "admin"], <<>>,
    UNION {Both("update", a[1], a[2], NoAddr, "user", "on") \cup Both("update", a[1], a[2], NoAddr, "admin", "off")
           \cup Both("delete", a[1], a[2], At1("b2"), "keep", "keep")
           \cup {Of2("toggle", "page", a[1], a[2], NoAddr, "keep", "on")} : a \in {<<"u1", "u2">>, <<"u2", "u1">>}}
    \cup Both("invite", "u1", Nobody, At1("b3"), "user", "keep") \cup Both("invite", "u1", Nobody, At2("b1"), "admin", "keep")
    \cup Both("set_email", "u1", "u2", At2("b3"), "keep", "keep") \cup {Mine("email_request", "page", At1("b3")),
          Mine("email_confirm", "page", NoAddr), Mine("email_cancel", "api", NoAddr)}
    \cup {Admin("reinvite", "page", NoAddr), Admin("recovery", "api", NoAddr)},
    {"p1"}, 3, 1, TRUE)

\* Two administrators against each other at once.
Rivals == Scene([Base EXCEPT !.users["u2"].role = "admin"], <<>>,
    {Of2("update", "api", "u1", "u2", NoAddr, "user", "keep"), Of2("update", "api", "u2", "u1", NoAddr, "user", "on"),
     Of2("delete", "api", "u2", "u1", NoAddr, "keep", "keep"), Of2("toggle", "page", "u1", "u2", NoAddr, "keep", "on")},
    Procs, 3, 0, FALSE)

\* An account's own passkeys, keys and sessions.
Passkeys == Scene([Enrolled EXCEPT !.creds = Append(@, Key("u2", 91)), !.keys = <<Bearer("u2")>>],
    <<Ceremony("webauthn", Nobody, 0), Ceremony("webauthn", "u2", 91)>>,
    {Of2("oidc_start", "api", Nobody, Nobody, NoAddr, "keep", "keep"), Login("s2", At1("b4"), TRUE),
     Mine("pk_begin", "api", NoAddr), Mine("pk_finish", "api", NoAddr), Mine("pk_remove", "api", NoAddr), Mine("pk_rename", "api", NoAddr),
     Mine("login_begin", "api", NoAddr), Mine("login_finish", "api", NoAddr), Mine("logout", "api", NoAddr),
     Mine("read", "key", NoAddr)} \cup Both("key_mint", "u2", Nobody, NoAddr, "keep", "keep")
     \cup Both("key_revoke", "u2", Nobody, NoAddr, "keep", "keep"),
    Procs, 2, 1, TRUE)

AllScenes == [links |-> Links, redeem |-> Redeem, emails |-> Emails, provider |-> Provider, repair |-> Repair, first |-> First,
              alone |-> Alone, rivals |-> Rivals, passkeys |-> Passkeys]
RivalScene == [rivals |-> Rivals]
=============================================================================
