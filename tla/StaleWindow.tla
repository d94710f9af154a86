---------------------------- MODULE StaleWindow ----------------------------
(***************************************************************************)
(* The arithmetic of the gateway-feed staleness policy                     *)
(* (internal/server/stale/window.go and stale/notice.go): when one address *)
(* family expires, at which elapsed times its owner is warned, and who     *)
(* hears about it.  Everything here is a pure function of seconds.         *)
(***************************************************************************)
EXTENDS Integers

SecondsPerDay == 86400

\* stale.Window: the config's days as seconds.
Window(days) == days * SecondsPerDay

\* stale.ExpiresAt
ExpiresAt(confirmedAt, window) == confirmedAt + window

\* stale.Rungs: the elapsed seconds of the four warnings, in Go's truncating
\* integer division (every operand is non-negative).
Rungs(window) ==
    << window \div 3,
       (2 * window) \div 3,
       (17 * window) \div 21,
       (20 * window) \div 21 >>

\* stale.FirstRung: the candidacy bound of the sweep.
FirstRung(window) == Rungs(window)[1]

\* prunerInterval: the period of the sweep, in seconds.
prunerInterval == 3600

\* Mutated form of DueRung: one rung too high.
DueRungOffByOne(window, elapsed) ==
    IF \E i \in 1..4 : elapsed >= Rungs(window)[i]
      THEN 1 + CHOOSE i \in 1..4 : /\ elapsed >= Rungs(window)[i]
                                   /\ \A j \in 1..4 : elapsed >= Rungs(window)[j] => j <= i
      ELSE 0

\* stale.DueRung: the highest rung due at elapsed, 0 when none is.
DueRung(window, elapsed) ==
    IF \E i \in 1..4 : elapsed >= Rungs(window)[i]
      THEN CHOOSE i \in 1..4 : /\ elapsed >= Rungs(window)[i]
                               /\ \A j \in 1..4 : elapsed >= Rungs(window)[j] => j <= i
      ELSE 0

\* Mutated form of RecipientsFor: the removal is not among the admins' notices.
RecipientsForWarnings(rung) ==
    IF rung >= 3 THEN {"owner", "admin"} ELSE {"owner"}

\* stale.RecipientsFor: rung 0 stands for KindRemoved, 1..4 for the warnings.
RecipientsFor(rung) ==
    IF rung = 0 \/ rung >= 3 THEN {"owner", "admin"} ELSE {"owner"}

=============================================================================
