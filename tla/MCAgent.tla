------------------------------ MODULE MCAgent -------------------------------
(* Situations for Agent: who enrolls how, what the owner does, what fails. *)
EXTENDS Agent

Cmd(cmd, force, arg) == [cmd |-> cmd, force |-> force, arg |-> arg]
Fresh(label) == [st |-> "unused", live |-> TRUE, label |-> label, dev |-> 0]
Unminted == [st |-> "unminted", live |-> TRUE, label |-> "home", dev |-> 0]   \* the label is chosen later
Old(label) == [st |-> "row", label |-> label, secret |-> 1, dis |-> FALSE, cached |-> 0, evict |-> 0,
               from |-> None, lost |-> FALSE]
Pruned == [Unminted EXCEPT !.st = "pruned"]
Scene(cs, ds, f, on, commands, faults, owner, runs, labels, expiry) ==
    [codes |-> cs, devs |-> ds, file |-> f, ready |-> on, commands |-> commands, faults |-> faults, owner |-> owner,
     runs |-> runs, labels |-> labels, expiry |-> expiry, says |-> {"own", None}]
Saved == [dev |-> 1, secret |-> 1]

\* Two commands redeem one code; one may hang up, and the code may expire.
Race == Scene([c1 |-> Fresh("home"), c2 |-> Pruned], <<>>, NoCred, TRUE, {Cmd("code", FALSE, "c1")}, 1, 0, 2, {}, TRUE)

\* One command, and everything that can go wrong twice.
Twice == Scene([c1 |-> Fresh("home"), c2 |-> Pruned], <<>>, NoCred, TRUE, {Cmd("code", FALSE, "c1")}, 2, 0, 1, {}, TRUE)

\* The owner mints codes for labels that are taken, or will be.
Naming == Scene([c1 |-> Unminted, c2 |-> Unminted], <<Old("home")>>, NoCred, TRUE,
    {Cmd("code", FALSE, "c1"), Cmd("code", FALSE, "c2")}, 0, 2, 2, {"home", "work"}, FALSE)

\* Two codes on one host: who writes the file?
Files == Scene([c1 |-> Fresh("home"), c2 |-> Fresh("work")], <<>>, NoCred, TRUE,
    {Cmd("code", FALSE, "c1"), Cmd("code", FALSE, "c2"), Cmd("code", TRUE, "c2")}, 0, 0, 3, {}, FALSE)

\* Two device flows for one account: the second finds the label taken.
Consent == Scene([c1 |-> Pruned, c2 |-> Pruned], <<>>, NoCred, TRUE, {Cmd("oidc", TRUE, None)}, 0, 0, 2, {}, FALSE)

\* One device flow that expires, and failures.
Hurdles == Scene([c1 |-> Pruned, c2 |-> Pruned], <<>>, NoCred, FALSE, {Cmd("oidc", FALSE, None)}, 2, 0, 1, {}, TRUE)

\* An agent runs while the owner changes its device.
Loop == Scene([c1 |-> Pruned, c2 |-> Pruned], <<Old("home")>>, Saved, TRUE,
    {Cmd("run", FALSE, None), Cmd("once", FALSE, None)}, 2, 2, 1, {"work"}, FALSE)

\* The providers disagree.
Votes == [Scene([c1 |-> Pruned, c2 |-> Pruned], <<Old("home")>>, Saved, TRUE,
    {Cmd("run", FALSE, None)}, 2, 0, 1, {}, FALSE) EXCEPT !.says = Known \cup {None}]

AllScenes == [race |-> Race, twice |-> Twice, naming |-> Naming, files |-> Files, consent |-> Consent,
              hurdles |-> Hurdles, loop |-> Loop, votes |-> Votes]
=============================================================================
