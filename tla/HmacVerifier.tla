---------------------------- MODULE HmacVerifier ----------------------------
(***************************************************************************)
(* Authentication of agent requests (internal/auth/hmac.go): a device's    *)
(* secret, the verifier's process-local cache of opened secrets, and the   *)
(* nonce table that remembers accepted signatures.  Verify is a sequence   *)
(* of statements and lock sections; requests, secret rotations and the     *)
(* pruner interleave with it.                                              *)
(*                                                                         *)
(* A secret is its version number and a signature is what it signs: the    *)
(* device, the version, the timestamp and the agent's random nonce.  It    *)
(* verifies under exactly its own version; version 0 is never issued, so   *)
(* it stands for a signature under no secret of the device.  A request may *)
(* arrive any number of times.                                             *)
(***************************************************************************)
EXTENDS Integers, FiniteSets

CONSTANTS
    Devices,
    Nonces,      \* random nonces agents put into requests
    Sent,        \* the signatures that arrive, a subset of Sigs
    Procs,       \* handlers running at the same time
    Skew,        \* auth.hmac.skew_window, in seconds
    NonceTTL,    \* auth.hmac.nonce_ttl, in seconds
    MaxLag,      \* bound on the seconds a handler runs
    MaxVersion,  \* bound on rotations
    MaxTime      \* bound on the clock

Time == 0..MaxTime
Versions == 0..MaxVersion
Sigs == [dev : Devices, ver : Versions, ts : Time, nonce : Nonces]

\* validateAuth: nonce_ttl is at least skew_window.
ASSUME HmacAssumption ==
    /\ Skew \in Nat /\ NonceTTL \in Nat /\ NonceTTL >= Skew
    /\ Devices # {} /\ Nonces # {} /\ Sent \subseteq Sigs
    /\ MaxLag \in Nat /\ MaxVersion \in Nat \ {0} /\ MaxTime \in Nat

VARIABLES
    now,       \* store.NowUnix()
    row,       \* devices: "on", "off" (disabled) or "gone"
    owner,     \* the device's owner in users, likewise
    secret,    \* devices.secret_hash: the current version
    cache,     \* Verifier.cache: a version, 0 for no entry
    nonces,    \* replay_nonces: signatures with their expiry
    req,       \* handlers
    accepted,  \* history: the signatures accepted so far
    settled    \* history: per device, the version the last finished rotation installed

vars == <<now, row, owner, secret, cache, nonces, req, accepted, settled>>

(***************************************************************************)
(* A handler: verifying sig since the instant at, or rotating dev's        *)
(* secret.  ver is the version it opened, took from the cache or wrote;    *)
(* since is what settled was when it began.                                *)
(***************************************************************************)
NoSig == [dev |-> CHOOSE d \in Devices : TRUE, ver |-> 0, ts |-> 0,
          nonce |-> CHOOSE n \in Nonces : TRUE]
Handler == [pc : {"idle", "device", "owner", "secret", "fill", "insert", "rotate", "invalidate"},
            sig : Sigs, at : Time, ver : Versions, since : Versions]
Idle == [pc |-> "idle", sig |-> NoSig, at |-> 0, ver |-> 0, since |-> 0]

TypeOK ==
    /\ now \in Time
    /\ row \in [Devices -> {"on", "off", "gone"}]
    /\ owner \in [Devices -> {"on", "off", "gone"}]
    /\ secret \in [Devices -> Versions \ {0}]
    /\ cache \in [Devices -> Versions]
    /\ nonces \subseteq [sig : Sigs, exp : Nat]
    /\ req \in [Procs -> Handler]
    /\ accepted \subseteq Sigs
    /\ settled \in [Devices -> Versions \ {0}]

-----------------------------------------------------------------------------
(* Verify *)

Reject(p) == req' = [req EXCEPT ![p] = Idle]

\* hmacMiddleware calls Verify with the instant at which it does.
StartVerify(p, sig) ==
    /\ req[p].pc = "idle"
    /\ sig.ver <= secret[sig.dev]
    /\ req' = [req EXCEPT ![p] = [Idle EXCEPT !.pc = "device", !.sig = sig, !.at = now,
                                              !.since = settled[sig.dev]]]
    /\ UNCHANGED <<now, row, owner, secret, cache, nonces, accepted, settled>>

InSkew(ts, at) == at - ts <= Skew /\ ts - at <= Skew

\* The device lookup; the row brings the sealed secret along.
ReadDevice(p) ==
    LET d == req[p].sig.dev IN
    /\ req[p].pc = "device"
    /\ IF row[d] = "on"
         THEN req' = [req EXCEPT ![p].pc = "owner", ![p].ver = secret[d]]
         ELSE Reject(p)
    /\ UNCHANGED <<now, row, owner, secret, cache, nonces, accepted, settled>>

\* The owner lookup, then the skew window.
ReadOwner(p) ==
    /\ req[p].pc = "owner"
    /\ IF owner[req[p].sig.dev] = "on" /\ InSkew(req[p].sig.ts, req[p].at)
         THEN req' = [req EXCEPT ![p].pc = "secret"]
         ELSE Reject(p)
    /\ UNCHANGED <<now, row, owner, secret, cache, nonces, accepted, settled>>

\* Mutated form of Compare: the nonce is recorded before the signature is
\* looked at.
CompareLater(p, ver) == req' = [req EXCEPT ![p].pc = "insert", ![p].ver = ver]

\* What follows when the secret is at hand: the signature is compared.
Compare(p, ver) ==
    IF req[p].sig.ver = ver
      THEN req' = [req EXCEPT ![p].pc = "insert", ![p].ver = ver]
      ELSE Reject(p)

\* secretFor under the read lock: a hit is used as it is; on a miss the sealed
\* secret of the row is opened.
LookupSecret(p) ==
    LET c == cache[req[p].sig.dev] IN
    /\ req[p].pc = "secret"
    /\ IF c # 0 THEN Compare(p, c) ELSE req' = [req EXCEPT ![p].pc = "fill"]
    /\ UNCHANGED <<now, row, owner, secret, cache, nonces, accepted, settled>>

\* secretFor under the write lock.
FillCache(p) ==
    /\ req[p].pc = "fill"
    /\ cache' = [cache EXCEPT ![req[p].sig.dev] = req[p].ver]
    /\ Compare(p, req[p].ver)
    /\ UNCHANGED <<now, row, owner, secret, nonces, accepted, settled>>

\* Mutated forms of NonceExpiry: the TTL is forgotten; the TTL is subtracted.
NonceExpiryAtOnce(ts) == ts
NonceExpirySign(ts) == ts - NonceTTL

NonceExpiry(ts) == ts + NonceTTL

\* The nonce is recorded last: a signature already there is a replay.
InsertNonce(p) ==
    LET sig == req[p].sig IN
    /\ req[p].pc = "insert"
    /\ IF \E n \in nonces : n.sig = sig
         THEN UNCHANGED <<nonces, accepted>>
         ELSE /\ nonces' = nonces \cup {[sig |-> sig, exp |-> NonceExpiry(sig.ts)]}
              /\ accepted' = accepted \cup {sig}
    /\ Reject(p)
    /\ UNCHANGED <<now, row, owner, secret, cache, settled>>

\* A lookup or the insert fails (a cancelled request, a store error): refused.
Fail(p) ==
    /\ req[p].pc \in {"device", "owner", "insert", "rotate"}
    /\ Reject(p)
    /\ UNCHANGED <<now, row, owner, secret, cache, nonces, accepted, settled>>

-----------------------------------------------------------------------------
(* Rotation, devices, time *)

\* DeviceService.RotateSecret: ownedDevice, the write, then the eviction.
StartRotate(p, d) ==
    /\ req[p].pc = "idle" /\ row[d] # "gone"
    /\ req' = [req EXCEPT ![p] = [Idle EXCEPT !.pc = "rotate", !.sig.dev = d, !.at = now]]
    /\ UNCHANGED <<now, row, owner, secret, cache, nonces, accepted, settled>>

RotateSecret(p) ==
    LET d == req[p].sig.dev IN
    /\ req[p].pc = "rotate"
    /\ IF row[d] = "gone"
         THEN Reject(p) /\ UNCHANGED secret
         ELSE /\ secret[d] < MaxVersion
              /\ secret' = [secret EXCEPT ![d] = @ + 1]
              /\ req' = [req EXCEPT ![p].pc = "invalidate", ![p].ver = secret[d] + 1]
    /\ UNCHANGED <<now, row, owner, cache, nonces, accepted, settled>>

Invalidate(p) ==
    LET d == req[p].sig.dev IN
    /\ req[p].pc = "invalidate"
    /\ cache' = [cache EXCEPT ![d] = 0]
    /\ settled' = [settled EXCEPT ![d] = IF @ < req[p].ver THEN req[p].ver ELSE @]
    /\ Reject(p)
    /\ UNCHANGED <<now, row, owner, secret, nonces, accepted>>

\* A device is disabled, enabled or deleted.
SetDevice(d, st) ==
    /\ row[d] # "gone"
    /\ row' = [row EXCEPT ![d] = st]
    /\ UNCHANGED <<now, owner, secret, cache, nonces, req, accepted, settled>>

\* Its owner is; deleting an account deletes its devices.
SetOwner(d, st) ==
    /\ owner[d] # "gone"
    /\ owner' = [owner EXCEPT ![d] = st]
    /\ row' = IF st = "gone" THEN [row EXCEPT ![d] = "gone"] ELSE row
    /\ UNCHANGED <<now, secret, cache, nonces, req, accepted, settled>>

\* ReplayNonces().PruneExpired.  prune's instant may be older than the statement;
\* an older one deletes less.
PruneExpired ==
    /\ nonces' = {n \in nonces : ~(n.exp < now)}
    /\ UNCHANGED <<now, row, owner, secret, cache, req, accepted, settled>>

\* A handler runs for at most MaxLag seconds.
Tick ==
    /\ now < MaxTime
    /\ \A p \in Procs : req[p].pc # "idle" => now + 1 - req[p].at <= MaxLag
    /\ now' = now + 1
    /\ UNCHANGED <<row, owner, secret, cache, nonces, req, accepted, settled>>

\* The process restarts: the cache and the handlers are gone.
Restart ==
    /\ cache' = [d \in Devices |-> 0]
    /\ req' = [p \in Procs |-> Idle]
    /\ UNCHANGED <<now, row, owner, secret, nonces, accepted, settled>>

Init ==
    /\ now = 0
    /\ row = [d \in Devices |-> "on"]
    /\ owner = [d \in Devices |-> "on"]
    /\ secret = [d \in Devices |-> 1]
    /\ cache = [d \in Devices |-> 0]
    /\ nonces = {}
    /\ req = [p \in Procs |-> Idle]
    /\ accepted = {}
    /\ settled = [d \in Devices |-> 1]

Next ==
    \/ \E p \in Procs : \/ \E sig \in Sent : StartVerify(p, sig)
                        \/ ReadDevice(p) \/ ReadOwner(p) \/ LookupSecret(p) \/ FillCache(p)
                        \/ InsertNonce(p) \/ Fail(p)
                        \/ \E d \in Devices : StartRotate(p, d)
                        \/ RotateSecret(p) \/ Invalidate(p)
    \/ \E d \in Devices, st \in {"on", "off", "gone"} : SetDevice(d, st) \/ SetOwner(d, st)
    \/ PruneExpired
    \/ Tick
    \/ Restart

Spec == Init /\ [][Next]_vars
-----------------------------------------------------------------------------
(* Properties *)

\* The step in which handler p accepts its request.
Accepts(p) == req[p].pc = "insert" /\ req'[p] # req[p] /\ nonces' # nonces

(***************************************************************************)
(* A request is accepted once, however often it arrives and whenever the   *)
(* pruner runs, by every handler that ends within NonceTTL - Skew seconds  *)
(* of its beginning: with both at their default, within the same second.   *)
(* Verify judges the timestamp by the instant it began with and the pruner *)
(* forgets the nonce by its own, so the nonce_ttl >= skew_window that      *)
(* validateAuth asks for covers no longer a handler than that.             *)
(***************************************************************************)
AcceptedOnce ==
    [][\A p \in Procs : Accepts(p) /\ now - req[p].at <= NonceTTL - Skew
                           => req[p].sig \notin accepted]_vars

(***************************************************************************)
(* Only signatures under a secret the device has been issued are recorded: *)
(* Verify compares before it inserts, across rotations, cache hits and     *)
(* restarts.                                                               *)
(***************************************************************************)
NoncesGenuine == \A n \in nonces : n.sig.ver \in 1..secret[n.sig.dev]

(***************************************************************************)
(* Once a rotation has evicted the cache, the secret it replaced stops     *)
(* authenticating: no request that begins afterwards is accepted under it. *)
(***************************************************************************)
StaleSecretStops == [][\A p \in Procs : Accepts(p) => req[p].sig.ver >= req[p].since]_vars
=============================================================================
