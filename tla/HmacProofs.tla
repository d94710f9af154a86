----------------------------- MODULE HmacProofs -----------------------------
(***************************************************************************)
(* A request is accepted once by every handler that runs no longer than    *)
(* the nonce TTL exceeds the skew window, for every configuration that     *)
(* validateAuth admits.                                                    *)
(*                                                                         *)
(* Once accepted, a signature stays in the nonce table until the clock is  *)
(* past its timestamp plus the TTL (Remembered).  A handler about to       *)
(* insert found the timestamp within Skew of the instant it began with     *)
(* (Judged), which is not in the future (Prompt); so if it has run for at  *)
(* most NonceTTL - Skew, the clock is not past that point yet, and the     *)
(* handler meets the recorded nonce.                                       *)
(*                                                                         *)
(* Only genuine signatures are recorded: whatever version a handler has at *)
(* hand, from the row or from the cache, was issued to the device before   *)
(* (Issued, CacheIssued), and issued versions stay issued.                 *)
(***************************************************************************)
EXTENDS HmacVerifier, TLAPS

Verified == {"secret", "fill", "insert"}

PromptAt(r, t) == r.pc # "idle" => r.at <= t /\ t - r.at <= MaxLag
JudgedAt(r) == r.pc \in Verified => r.at - r.sig.ts <= Skew /\ r.sig.ts - r.at <= Skew

Prompt == \A p \in Procs : PromptAt(req[p], now)
Judged == \A p \in Procs : JudgedAt(req[p])
Dated == \A n \in nonces : n.exp = n.sig.ts + NonceTTL
Remembered == \A s \in accepted : (\E n \in nonces : n.sig = s) \/ now > s.ts + NonceTTL

ReplayInv == TypeOK /\ Prompt /\ Judged /\ Dated /\ Remembered

LEMMA IdleType == NoSig \in Sigs /\ Idle \in Handler
<1>1. (CHOOSE d \in Devices : TRUE) \in Devices /\ (CHOOSE n \in Nonces : TRUE) \in Nonces
  BY HmacAssumption
<1>2. 0 \in Versions /\ 0 \in Time
  BY HmacAssumption DEF Versions, Time
<1> QED BY <1>1, <1>2 DEF NoSig, Sigs, Idle, Handler

\* Verify keeps the types: each of its steps moves one handler on.
LEMMA VerifyType ==
    ASSUME TypeOK, NEW p \in Procs,
           \/ \E sig \in Sent : StartVerify(p, sig)
           \/ ReadDevice(p) \/ ReadOwner(p) \/ LookupSecret(p) \/ FillCache(p)
           \/ InsertNonce(p) \/ Fail(p)
    PROVE  TypeOK'
<1> USE HmacAssumption
<1>t. req \in [Procs -> Handler] /\ req[p] \in Handler /\ req[p].sig \in Sigs
      /\ req[p].sig.dev \in Devices /\ req[p].ver \in Versions /\ Idle \in Handler
  BY IdleType DEF TypeOK, Handler, Sigs
<1>1. CASE \E sig \in Sent : StartVerify(p, sig)
  <2> PICK sig \in Sent : StartVerify(p, sig)
    BY <1>1
  <2>1. sig \in Sigs /\ sig.dev \in Devices /\ now \in Time /\ settled[sig.dev] \in Versions
    BY DEF TypeOK, Sigs
  <2>2. [Idle EXCEPT !.pc = "device", !.sig = sig, !.at = now, !.since = settled[sig.dev]] \in Handler
    BY <2>1, <1>t DEF Handler
  <2> QED BY <2>2, <1>t DEF TypeOK, StartVerify
<1>2. CASE ReadDevice(p)
  <2>1. secret[req[p].sig.dev] \in Versions
    BY <1>t DEF TypeOK
  <2>2. req' \in [Procs -> Handler]
    BY <2>1, <1>2, <1>t DEF ReadDevice, Reject, Handler
  <2> QED BY <2>2, <1>2 DEF ReadDevice, TypeOK
<1>3. CASE ReadOwner(p)
  <2>2. req' \in [Procs -> Handler]
    BY <1>3, <1>t DEF ReadOwner, Reject, Handler
  <2> QED BY <2>2, <1>3 DEF ReadOwner, TypeOK
<1>4. CASE LookupSecret(p)
  <2>1. cache[req[p].sig.dev] \in Versions
    BY <1>t DEF TypeOK
  <2>2. req' \in [Procs -> Handler]
    BY <2>1, <1>4, <1>t DEF LookupSecret, Compare, Reject, Handler
  <2> QED BY <2>2, <1>4 DEF LookupSecret, TypeOK
<1>5. CASE FillCache(p)
  <2>2. req' \in [Procs -> Handler]
    BY <1>5, <1>t DEF FillCache, Compare, Reject, Handler
  <2>3. cache' \in [Devices -> Versions]
    BY <1>5, <1>t DEF FillCache, TypeOK
  <2> QED BY <2>2, <2>3, <1>5 DEF FillCache, TypeOK
<1>6. CASE InsertNonce(p)
  <2>2. req' \in [Procs -> Handler]
    BY <1>6, <1>t DEF InsertNonce, Reject
  <2>3. NonceExpiry(req[p].sig.ts) \in Nat
    BY <1>t DEF NonceExpiry, Sigs, Time
  <2>4. nonces' \subseteq [sig : Sigs, exp : Nat] /\ accepted' \subseteq Sigs
    BY <2>3, <1>6, <1>t DEF InsertNonce, TypeOK
  <2> QED BY <2>2, <2>4, <1>6 DEF InsertNonce, TypeOK
<1>7. CASE Fail(p)
  <2>2. req' \in [Procs -> Handler]
    BY <1>7, <1>t DEF Fail, Reject
  <2> QED BY <2>2, <1>7 DEF Fail, TypeOK
<1> QED BY <1>1, <1>2, <1>3, <1>4, <1>5, <1>6, <1>7

\* So do rotation, the administration of devices and accounts, and the rest.
LEMMA RestType ==
    ASSUME TypeOK,
           \/ \E p \in Procs : (\E d \in Devices : StartRotate(p, d)) \/ RotateSecret(p) \/ Invalidate(p)
           \/ \E d \in Devices, st \in {"on", "off", "gone"} : SetDevice(d, st) \/ SetOwner(d, st)
           \/ PruneExpired \/ Tick \/ Restart
    PROVE  TypeOK'
<1> USE HmacAssumption
<1>i. Idle \in Handler
  BY IdleType
<1>1. ASSUME NEW p \in Procs, NEW d \in Devices, StartRotate(p, d)
      PROVE  TypeOK'
  <2>1. [Idle EXCEPT !.pc = "rotate", !.sig.dev = d, !.at = now] \in Handler
    BY <1>i DEF TypeOK, Handler, Sigs
  <2> QED BY <2>1, <1>1 DEF TypeOK, StartRotate
<1>2. ASSUME NEW p \in Procs, RotateSecret(p)
      PROVE  TypeOK'
  <2>1. req[p] \in Handler /\ req[p].sig.dev \in Devices
    BY DEF TypeOK, Handler, Sigs
  <2>2. CASE row[req[p].sig.dev] = "gone"
    BY <1>i, <1>2, <2>1, <2>2 DEF RotateSecret, Reject, TypeOK
  <2>3. CASE row[req[p].sig.dev] # "gone"
    <3>1. secret[req[p].sig.dev] + 1 \in Versions \ {0}
      BY <1>2, <2>1, <2>3 DEF RotateSecret, TypeOK, Versions
    <3>2. req' \in [Procs -> Handler]
      BY <3>1, <1>2, <2>1, <2>3 DEF RotateSecret, TypeOK, Handler
    <3>3. secret' \in [Devices -> Versions \ {0}]
      BY <3>1, <1>2, <2>1, <2>3 DEF RotateSecret, TypeOK
    <3> QED BY <3>2, <3>3, <1>2 DEF RotateSecret, TypeOK
  <2> QED BY <2>2, <2>3
<1>3. ASSUME NEW p \in Procs, Invalidate(p)
      PROVE  TypeOK'
  <2>1. req[p] \in Handler /\ req[p].sig.dev \in Devices /\ req[p].ver \in Versions /\ 0 \in Versions
    BY DEF TypeOK, Handler, Sigs, Versions
  <2>2. req' \in [Procs -> Handler] /\ cache' \in [Devices -> Versions]
    BY <1>i, <1>3, <2>1 DEF Invalidate, Reject, TypeOK
  <2>3. settled' \in [Devices -> Versions \ {0}]
    BY <1>3, <2>1 DEF Invalidate, TypeOK, Versions
  <2> QED BY <2>2, <2>3, <1>3 DEF Invalidate, TypeOK
<1>4. ASSUME NEW d \in Devices, NEW st \in {"on", "off", "gone"}, SetDevice(d, st) \/ SetOwner(d, st)
      PROVE  TypeOK'
  BY <1>4 DEF SetDevice, SetOwner, TypeOK
<1>5. CASE PruneExpired
  BY <1>5 DEF PruneExpired, TypeOK
<1>6. CASE Tick
  BY <1>6 DEF Tick, TypeOK, Time
<1>7. CASE Restart
  <2>1. 0 \in Versions
    BY DEF Versions
  <2> QED BY <1>i, <1>7, <2>1 DEF Restart, TypeOK
<1> QED BY <1>1, <1>2, <1>3, <1>4, <1>5, <1>6, <1>7

LEMMA TypeStep == TypeOK /\ [Next]_vars => TypeOK'
<1> SUFFICES ASSUME TypeOK, [Next]_vars PROVE TypeOK'
  OBVIOUS
<1>1. CASE UNCHANGED vars
  BY <1>1 DEF vars, TypeOK
<1>2. CASE Next
  BY <1>2, VerifyType, RestType DEF Next
<1> QED BY <1>1, <1>2

\* A step that leaves a handler alone, ends it, or moves it on within the same
\* verdict and instant, keeps it prompt and judged.
LEMMA HandlerStep == ReplayInv /\ [Next]_vars => Prompt' /\ Judged'
<1> SUFFICES ASSUME ReplayInv, [Next]_vars, NEW q \in Procs
             PROVE  PromptAt(req'[q], now') /\ JudgedAt(req'[q])
  BY DEF Prompt, Judged
<1> USE HmacAssumption
<1>t. /\ req \in [Procs -> Handler] /\ req[q] \in Handler /\ now \in Nat /\ req[q].at \in Nat
      /\ req[q].sig.ts \in Nat /\ PromptAt(req[q], now) /\ JudgedAt(req[q])
  BY DEF ReplayInv, TypeOK, Handler, Sigs, Prompt, Judged, Time
<1>1. ASSUME now' = now, req'[q] = req[q]
      PROVE  PromptAt(req'[q], now') /\ JudgedAt(req'[q])
  BY <1>1, <1>t
<1>i. ASSUME req'[q] = Idle
      PROVE  PromptAt(req'[q], now') /\ JudgedAt(req'[q])
  BY <1>i DEF Idle, Verified, PromptAt, JudgedAt
<1>m. ASSUME now' = now, req'[q].at = req[q].at, req'[q].sig = req[q].sig, req[q].pc # "idle",
             req'[q].pc \in Verified => req[q].pc \in Verified \/ InSkew(req[q].sig.ts, req[q].at)
      PROVE  PromptAt(req'[q], now') /\ JudgedAt(req'[q])
  BY <1>m, <1>t DEF PromptAt, JudgedAt, InSkew
<1>2. CASE UNCHANGED vars
  BY <1>1, <1>2 DEF vars
<1>3. ASSUME NEW p \in Procs, NEW sig \in Sent, StartVerify(p, sig)
      PROVE  PromptAt(req'[q], now') /\ JudgedAt(req'[q])
  <2>1. CASE p = q
    <3>1. req'[q].pc = "device" /\ req'[q].at = now /\ now' = now
      BY <1>3, <1>t, <2>1 DEF StartVerify, Idle
    <3> QED BY <3>1, <1>t DEF PromptAt, JudgedAt, Verified
  <2>2. CASE p # q
    BY <1>1, <1>3, <1>t, <2>2 DEF StartVerify
  <2> QED BY <2>1, <2>2
<1>4. ASSUME NEW p \in Procs, ReadDevice(p) \/ ReadOwner(p) \/ LookupSecret(p) \/ FillCache(p)
      PROVE  PromptAt(req'[q], now') /\ JudgedAt(req'[q])
  <2>1. CASE p # q
    <3>1. now' = now /\ req'[q] = req[q]
      BY <1>4, <2>1, <1>t DEF ReadDevice, ReadOwner, LookupSecret, FillCache, Compare, Reject
    <3> QED BY <3>1, <1>1
  <2>2. CASE p = q /\ req'[q] # Idle
    <3>1. ReadDevice(q) => <1>m!1 /\ <1>m!2 /\ <1>m!3 /\ <1>m!4 /\ <1>m!5
      BY <2>2, <1>t DEF ReadDevice, Reject, Verified, Handler
    <3>2. ReadOwner(q) => <1>m!1 /\ <1>m!2 /\ <1>m!3 /\ <1>m!4 /\ <1>m!5
      BY <2>2, <1>t DEF ReadOwner, Reject, Verified, Handler
    <3>3. LookupSecret(q) \/ FillCache(q) => <1>m!1 /\ <1>m!2 /\ <1>m!3 /\ <1>m!4 /\ <1>m!5
      BY <2>2, <1>t DEF LookupSecret, FillCache, Compare, Reject, Verified, Handler
    <3> QED BY <1>4, <2>2, <3>1, <3>2, <3>3, <1>m
  <2> QED BY <1>i, <2>1, <2>2
<1>5. ASSUME NEW p \in Procs, InsertNonce(p) \/ Fail(p) \/ Invalidate(p)
      PROVE  PromptAt(req'[q], now') /\ JudgedAt(req'[q])
  BY <1>1, <1>i, <1>5, <1>t DEF InsertNonce, Fail, Invalidate, Reject
<1>6. ASSUME NEW p \in Procs, NEW d \in Devices, StartRotate(p, d)
      PROVE  PromptAt(req'[q], now') /\ JudgedAt(req'[q])
  <2>1. CASE p = q
    <3>1. req'[q].pc = "rotate" /\ req'[q].at = now /\ now' = now
      BY <1>6, <1>t, <2>1 DEF StartRotate, Idle
    <3> QED BY <3>1, <1>t DEF PromptAt, JudgedAt, Verified
  <2>2. CASE p # q
    BY <1>1, <1>6, <1>t, <2>2 DEF StartRotate
  <2> QED BY <2>1, <2>2
<1>7. ASSUME NEW p \in Procs, RotateSecret(p)
      PROVE  PromptAt(req'[q], now') /\ JudgedAt(req'[q])
  <2>1. CASE p # q
    <3>1. now' = now /\ req'[q] = req[q]
      BY <1>7, <2>1, <1>t DEF RotateSecret, Reject
    <3> QED BY <3>1, <1>1
  <2>2. CASE p = q /\ req'[q] # Idle
    <3>1. <1>m!1 /\ <1>m!2 /\ <1>m!3 /\ <1>m!4 /\ <1>m!5
      BY <1>7, <2>2, <1>t DEF RotateSecret, Reject, Verified, Handler
    <3> QED BY <3>1, <1>m
  <2> QED BY <1>i, <2>1, <2>2
<1>8. CASE PruneExpired \/ \E d \in Devices, st \in {"on", "off", "gone"} : SetDevice(d, st) \/ SetOwner(d, st)
  BY <1>1, <1>8 DEF PruneExpired, SetDevice, SetOwner
<1>9. CASE Tick
  BY <1>9, <1>t DEF Tick, PromptAt, JudgedAt
<1>10. CASE Restart
  BY <1>i, <1>10 DEF Restart
<1> QED BY <1>2, <1>3, <1>4, <1>5, <1>6, <1>7, <1>8, <1>9, <1>10 DEF Next

\* An accepted signature is forgotten only when the clock has passed its expiry.
LEMMA NonceStep == ReplayInv /\ [Next]_vars => Dated' /\ Remembered'
<1> SUFFICES ASSUME ReplayInv, [Next]_vars PROVE Dated' /\ Remembered'
  OBVIOUS
<1> USE HmacAssumption
<1>t. /\ now \in Nat /\ \A s \in accepted : s.ts \in Nat
      /\ \A n \in nonces : n.exp = n.sig.ts + NonceTTL /\ n.sig.ts \in Nat
      /\ \A s \in accepted : (\E n \in nonces : n.sig = s) \/ now > s.ts + NonceTTL
  BY DEF ReplayInv, TypeOK, Sigs, Time, Dated, Remembered
<1>1. CASE UNCHANGED <<now, nonces, accepted>>
  BY <1>1, <1>t DEF Dated, Remembered
<1>2. CASE \E p \in Procs : InsertNonce(p)
  <2> PICK p \in Procs : InsertNonce(p)
    BY <1>2
  <2>1. CASE UNCHANGED <<nonces, accepted>>
    BY <2>1, <1>1 DEF InsertNonce
  <2>2. CASE /\ nonces' = nonces \cup {[sig |-> req[p].sig, exp |-> NonceExpiry(req[p].sig.ts)]}
             /\ accepted' = accepted \cup {req[p].sig}
             /\ now' = now
    <3>1. Dated'
      <4> SUFFICES ASSUME NEW n \in nonces' PROVE n.exp = n.sig.ts + NonceTTL
        BY DEF Dated
      <4>1. CASE n \in nonces
        BY <4>1, <1>t
      <4>2. CASE n = [sig |-> req[p].sig, exp |-> NonceExpiry(req[p].sig.ts)]
        BY <4>2 DEF NonceExpiry
      <4> QED BY <4>1, <4>2, <2>2
    <3>2. ASSUME NEW s \in accepted'
          PROVE  (\E n \in nonces' : n.sig = s) \/ now > s.ts + NonceTTL
      <4>1. CASE s \in accepted
        BY <4>1, <2>2, <1>t
      <4>2. CASE s = req[p].sig
        <5>1. [sig |-> req[p].sig, exp |-> NonceExpiry(req[p].sig.ts)].sig = s
          BY <4>2
        <5> QED BY <5>1, <2>2
      <4> QED BY <4>1, <4>2, <2>2
    <3> QED BY <3>1, <3>2, <2>2 DEF Remembered
  <2> QED BY <2>1, <2>2 DEF InsertNonce
<1>3. CASE PruneExpired
  <2>1. Dated'
    BY <1>3, <1>t DEF PruneExpired, Dated
  <2>2. ASSUME NEW s \in accepted
        PROVE  (\E n \in nonces' : n.sig = s) \/ now' > s.ts + NonceTTL
    <3>1. CASE now > s.ts + NonceTTL
      BY <3>1, <1>3 DEF PruneExpired
    <3>2. CASE ~(now > s.ts + NonceTTL)
      <4> PICK n \in nonces : n.sig = s
        BY <3>2, <1>t
      <4>1. ~(n.exp < now)
        BY <3>2, <1>t
      <4> QED BY <4>1, <1>3 DEF PruneExpired
    <3> QED BY <3>1, <3>2
  <2> QED BY <2>1, <2>2, <1>3 DEF PruneExpired, Remembered
<1>4. CASE Tick
  BY <1>4, <1>t DEF Tick, Dated, Remembered
<1>5. CASE UNCHANGED vars
  BY <1>5, <1>1 DEF vars
<1> QED
  BY <1>1, <1>2, <1>3, <1>4, <1>5
  DEF Next, StartVerify, ReadDevice, ReadOwner, LookupSecret, FillCache, Fail, StartRotate,
      RotateSecret, Invalidate, SetDevice, SetOwner, Restart

LEMMA ReplayInit == Init => ReplayInv
<1> SUFFICES ASSUME Init PROVE ReplayInv
  OBVIOUS
<1> USE HmacAssumption
<1>1. TypeOK
  BY IdleType DEF Init, TypeOK, Time, Versions
<1>2. Prompt /\ Judged /\ Dated /\ Remembered
  BY DEF Init, Prompt, Judged, PromptAt, JudgedAt, Dated, Remembered, Idle, Verified
<1> QED BY <1>1, <1>2 DEF ReplayInv

LEMMA ReplayAlways == Spec => []ReplayInv
<1>1. ReplayInv /\ [Next]_vars => ReplayInv'
  BY TypeStep, HandlerStep, NonceStep DEF ReplayInv
<1> QED BY <1>1, ReplayInit, PTL DEF Spec

(***************************************************************************)
(* Whatever handlers, rotations, the pruner and restarts do, a handler     *)
(* that ends within NonceTTL - Skew seconds of its beginning accepts no    *)
(* signature a second time (Verify, ReplayNonceRepo.PruneExpired), under   *)
(* no more than validateAuth's nonce_ttl >= skew_window.                   *)
(***************************************************************************)
THEOREM AcceptedOnceAlways == Spec => AcceptedOnce
<1> USE HmacAssumption
<1> DEFINE A == \A p \in Procs : Accepts(p) /\ now - req[p].at <= NonceTTL - Skew
                                     => req[p].sig \notin accepted
<1>1. ReplayInv /\ [Next]_vars => [A]_vars
  <2> SUFFICES ASSUME ReplayInv, Next, NEW p \in Procs, Accepts(p), req[p].sig \in accepted,
                      now - req[p].at <= NonceTTL - Skew
               PROVE  FALSE
    OBVIOUS
  <2>0. req \in [Procs -> Handler]
    BY DEF ReplayInv, TypeOK
  <2>a. \E q \in Procs : InsertNonce(q)
    BY <2>0 DEF Next, Accepts, StartVerify, ReadDevice, ReadOwner, LookupSecret, FillCache, InsertNonce,
           Fail, StartRotate, RotateSecret, Invalidate, SetDevice, SetOwner, PruneExpired, Tick, Restart
  <2>1. InsertNonce(p)
    BY <2>0, <2>a DEF InsertNonce, Reject, Accepts
  <2>2. /\ req[p] \in Handler /\ req[p].sig.ts \in Nat /\ req[p].at \in Nat /\ now \in Nat
        /\ InSkew(req[p].sig.ts, req[p].at)
        /\ req[p].at <= now
    BY <2>1 DEF ReplayInv, TypeOK, Handler, Sigs, Time, Prompt, Judged, PromptAt, JudgedAt, Verified,
              InSkew, InsertNonce
  <2>3. ~(now > req[p].sig.ts + NonceTTL)
    BY <2>2 DEF InSkew
  <2>4. \E n \in nonces : n.sig = req[p].sig
    BY <2>3 DEF ReplayInv, Remembered
  <2> QED BY <2>1, <2>4 DEF InsertNonce, Accepts
<1> QED BY <1>1, ReplayAlways, PTL DEF Spec, AcceptedOnce
-----------------------------------------------------------------------------
(* Genuine signatures *)

(***************************************************************************)
(* The state of the verifier, its table and its handlers keeps its types,  *)
(* for any number of devices, handlers, nonces and rotations (Verify,      *)
(* RotateSecret, PruneExpired).                                            *)
(***************************************************************************)
THEOREM HmacTypeCorrect == Spec => []TypeOK
<1>1. Init => TypeOK
  BY ReplayInit DEF ReplayInv
<1> QED BY <1>1, TypeStep, PTL DEF Spec

\* A handler that has read the row or passed Compare holds an issued version.
IssuedAt(r, s) ==
    /\ r.pc \in {"owner", "secret", "fill"} => r.ver \in 1..s[r.sig.dev]
    /\ r.pc = "insert" => r.sig.ver \in 1..s[r.sig.dev]

Issued == \A p \in Procs : IssuedAt(req[p], secret)
CacheIssued == \A d \in Devices : cache[d] \in 0..secret[d]

GenuineInv == TypeOK /\ Issued /\ CacheIssued /\ NoncesGenuine

\* Rotations count upwards.
LEMMA SecretGrows ==
    ASSUME TypeOK, [Next]_vars, NEW d \in Devices
    PROVE  secret[d] \in Nat /\ secret'[d] \in Nat /\ secret[d] <= secret'[d]
<1> USE HmacAssumption
<1>1. secret \in [Devices -> Nat]
  BY DEF TypeOK, Versions
<1>2. CASE secret' = secret
  BY <1>1, <1>2
<1>3. ASSUME NEW p \in Procs, RotateSecret(p)
      PROVE  secret[d] \in Nat /\ secret'[d] \in Nat /\ secret[d] <= secret'[d]
  BY <1>1, <1>3 DEF RotateSecret
<1> QED
  BY <1>2, <1>3
  DEF Next, vars, StartVerify, ReadDevice, ReadOwner, LookupSecret, FillCache, InsertNonce, Fail,
      StartRotate, Invalidate, SetDevice, SetOwner, PruneExpired, Tick, Restart

LEMMA IssuedStep == GenuineInv /\ [Next]_vars => Issued'
<1> SUFFICES ASSUME GenuineInv, [Next]_vars, NEW q \in Procs
             PROVE  IssuedAt(req'[q], secret')
  BY DEF Issued
<1> USE HmacAssumption
<1>t. /\ TypeOK /\ req \in [Procs -> Handler] /\ req[q] \in Handler /\ req[q].sig.dev \in Devices
      /\ req[q].ver \in Nat /\ req[q].sig.ver \in Nat /\ IssuedAt(req[q], secret)
      /\ secret[req[q].sig.dev] \in Nat \ {0} /\ secret'[req[q].sig.dev] \in Nat
      /\ secret[req[q].sig.dev] <= secret'[req[q].sig.dev]
      /\ cache[req[q].sig.dev] \in 0..secret[req[q].sig.dev]
  <2>1. TypeOK /\ req \in [Procs -> Handler] /\ req[q] \in Handler /\ req[q].sig.dev \in Devices
        /\ req[q].ver \in Nat /\ req[q].sig.ver \in Nat
    BY DEF GenuineInv, TypeOK, Handler, Sigs, Versions
  <2>2. secret[req[q].sig.dev] # 0
    BY <2>1 DEF TypeOK, Versions
  <2> QED BY <2>1, <2>2, SecretGrows DEF GenuineInv, Issued, CacheIssued
<1>1. ASSUME req'[q] = req[q]
      PROVE  IssuedAt(req'[q], secret')
  BY <1>1, <1>t DEF IssuedAt
<1>i. ASSUME req'[q].pc \in {"idle", "device", "rotate", "invalidate"}
      PROVE  IssuedAt(req'[q], secret')
  BY <1>i DEF IssuedAt
<1>j. Idle.pc = "idle"
  BY DEF Idle
<1>2. ASSUME NEW p \in Procs, p # q, req'[q] # req[q], req' # [r \in Procs |-> Idle]
      PROVE  ~(\/ \E sig \in Sent : StartVerify(p, sig)
               \/ ReadDevice(p) \/ ReadOwner(p) \/ LookupSecret(p) \/ FillCache(p)
               \/ InsertNonce(p) \/ Fail(p)
               \/ \E d \in Devices : StartRotate(p, d)
               \/ RotateSecret(p) \/ Invalidate(p))
  BY <1>2, <1>t DEF StartVerify, ReadDevice, ReadOwner, LookupSecret, FillCache, Compare, InsertNonce, Fail,
                    StartRotate, RotateSecret, Invalidate, Reject
<1>3. CASE (\E sig \in Sent : StartVerify(q, sig)) \/ (\E d \in Devices : StartRotate(q, d))
           \/ InsertNonce(q) \/ Fail(q) \/ Invalidate(q)
  <2>1. req'[q].pc \in {"idle", "device", "rotate"}
    <3>1. (\E sig \in Sent : StartVerify(q, sig)) => req'[q].pc = "device"
      BY <1>t DEF StartVerify, Idle
    <3>2. (\E d \in Devices : StartRotate(q, d)) => req'[q].pc = "rotate"
      BY <1>t DEF StartRotate, Idle
    <3>3. InsertNonce(q) \/ Fail(q) \/ Invalidate(q) => req'[q].pc = "idle"
      BY <1>t, <1>j DEF InsertNonce, Fail, Invalidate, Reject
    <3> QED BY <1>3, <3>1, <3>2, <3>3
  <2> QED BY <2>1, <1>i
<1>4. CASE ReadDevice(q)
  <2>1. \/ req'[q] = Idle
        \/ req'[q].pc = "owner" /\ req'[q].ver = secret[req[q].sig.dev] /\ req'[q].sig = req[q].sig
    BY <1>4, <1>t DEF ReadDevice, Reject, Handler
  <2> QED BY <2>1, <1>i, <1>j, <1>t DEF IssuedAt
<1>5. CASE ReadOwner(q)
  <2>1. \/ req'[q] = Idle
        \/ /\ req[q].pc = "owner" /\ req'[q].pc = "secret" /\ req'[q].ver = req[q].ver
           /\ req'[q].sig = req[q].sig
    BY <1>5, <1>t DEF ReadOwner, Reject, Handler
  <2> QED BY <2>1, <1>i, <1>j, <1>t DEF IssuedAt
<1>6. CASE LookupSecret(q)
  <2>1. \/ req'[q] = Idle
        \/ /\ req[q].pc = "secret" /\ req'[q].pc = "fill" /\ req'[q].ver = req[q].ver
           /\ req'[q].sig = req[q].sig
        \/ /\ req[q].sig.ver = cache[req[q].sig.dev] /\ cache[req[q].sig.dev] # 0
           /\ req'[q].pc = "insert" /\ req'[q].sig = req[q].sig
    BY <1>6, <1>t DEF LookupSecret, Compare, Reject, Handler
  <2> QED BY <2>1, <1>i, <1>j, <1>t DEF IssuedAt
<1>7. CASE FillCache(q)
  <2>1. \/ req'[q] = Idle
        \/ /\ req[q].pc = "fill" /\ req[q].sig.ver = req[q].ver
           /\ req'[q].pc = "insert" /\ req'[q].sig = req[q].sig
    BY <1>7, <1>t DEF FillCache, Compare, Reject, Handler
  <2> QED BY <2>1, <1>i, <1>j, <1>t DEF IssuedAt
<1>8. CASE RotateSecret(q)
  <2>1. req'[q].pc \in {"idle", "invalidate"}
    BY <1>8, <1>t, <1>j DEF RotateSecret, Reject, Handler
  <2> QED BY <2>1, <1>i
<1>9. CASE req' = [r \in Procs |-> Idle]
  BY <1>9, <1>i, <1>j
<1> QED
  BY <1>1, <1>2, <1>3, <1>4, <1>5, <1>6, <1>7, <1>8, <1>9
  DEF Next, vars, SetDevice, SetOwner, PruneExpired, Tick, Restart

LEMMA GenuineStep == GenuineInv /\ [Next]_vars => CacheIssued' /\ NoncesGenuine'
<1> SUFFICES ASSUME GenuineInv, [Next]_vars PROVE CacheIssued' /\ NoncesGenuine'
  OBVIOUS
<1> USE HmacAssumption
<1>g. /\ TypeOK /\ cache \in [Devices -> Nat]
      /\ \A d \in Devices : /\ secret[d] \in Nat /\ secret'[d] \in Nat /\ secret[d] <= secret'[d]
                            /\ cache[d] \in 0..secret[d]
      /\ \A n \in nonces : n.sig.dev \in Devices /\ n.sig.ver \in 1..secret[n.sig.dev]
  BY SecretGrows DEF GenuineInv, TypeOK, CacheIssued, NoncesGenuine, Versions, Sigs
<1>h. \A p \in Procs : /\ req[p].sig.dev \in Devices /\ req[p].ver \in Nat /\ req[p].sig.ver \in Nat
                       /\ IssuedAt(req[p], secret)
  BY DEF GenuineInv, TypeOK, Handler, Sigs, Versions, Issued
<1>1. ASSUME \A d \in Devices : cache'[d] = cache[d] \/ cache'[d] = 0
      PROVE  CacheIssued'
  BY <1>1, <1>g DEF CacheIssued
<1>2. ASSUME nonces' \subseteq nonces
      PROVE  NoncesGenuine'
  <2> SUFFICES ASSUME NEW n \in nonces' PROVE n.sig.ver \in 1..secret'[n.sig.dev]
    BY DEF NoncesGenuine
  <2> QED BY <1>2, <1>g
<1>3. ASSUME NEW p \in Procs, FillCache(p)
      PROVE  CacheIssued' /\ NoncesGenuine'
  <2>1. req[p].ver \in 0..secret[req[p].sig.dev]
    BY <1>3, <1>g, <1>h DEF FillCache, IssuedAt
  <2>2. CacheIssued'
    BY <2>1, <1>3, <1>g, <1>h DEF FillCache, CacheIssued
  <2> QED BY <2>2, <1>2, <1>3 DEF FillCache
<1>4. ASSUME NEW p \in Procs, InsertNonce(p)
      PROVE  CacheIssued' /\ NoncesGenuine'
  <2>1. req[p].sig.ver \in 1..secret[req[p].sig.dev] /\ secret' = secret /\ cache' = cache
    BY <1>4, <1>h DEF InsertNonce, IssuedAt
  <2>2. NoncesGenuine'
    <3> SUFFICES ASSUME NEW n \in nonces' PROVE n.sig.ver \in 1..secret[n.sig.dev]
      BY <2>1 DEF NoncesGenuine
    <3>1. n \in nonces \/ n.sig = req[p].sig
      BY <1>4 DEF InsertNonce
    <3> QED BY <3>1, <2>1, <1>g
  <2> QED BY <2>1, <2>2, <1>1
<1>5. ASSUME NEW p \in Procs, Invalidate(p)
      PROVE  CacheIssued' /\ NoncesGenuine'
  BY <1>1, <1>2, <1>5, <1>g, <1>h DEF Invalidate
<1>6. CASE UNCHANGED <<cache, nonces>>
  BY <1>1, <1>2, <1>6
<1>7. CASE PruneExpired
  BY <1>1, <1>2, <1>7 DEF PruneExpired
<1>8. CASE Restart
  BY <1>1, <1>2, <1>8 DEF Restart
<1> QED
  BY <1>3, <1>4, <1>5, <1>6, <1>7, <1>8
  DEF Next, vars, StartVerify, ReadDevice, ReadOwner, LookupSecret, Fail, StartRotate, RotateSecret,
      SetDevice, SetOwner, Tick

(***************************************************************************)
(* Nothing but a signature under a secret the device was really issued is  *)
(* ever recorded as accepted: neither a cached secret nor a sealed one     *)
(* read before a rotation lets another through (Verify compares before it  *)
(* inserts; secretFor, InvalidateSecret).                                  *)
(***************************************************************************)
THEOREM NoncesGenuineAlways == Spec => []NoncesGenuine
<1>1. Init => GenuineInv
  <2> SUFFICES ASSUME Init PROVE GenuineInv
    OBVIOUS
  <2>1. TypeOK
    BY ReplayInit DEF ReplayInv
  <2>2. Issued /\ CacheIssued /\ NoncesGenuine
    BY DEF Init, Issued, IssuedAt, CacheIssued, NoncesGenuine, Idle
  <2> QED BY <2>1, <2>2 DEF GenuineInv
<1>2. GenuineInv /\ [Next]_vars => GenuineInv'
  BY TypeStep, IssuedStep, GenuineStep DEF GenuineInv
<1>3. GenuineInv => NoncesGenuine
  BY DEF GenuineInv
<1> QED BY <1>1, <1>2, <1>3, PTL DEF Spec
=============================================================================
