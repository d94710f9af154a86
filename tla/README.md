# diyddns: TLA+ verification project

diyddns is a self-hosted dynamic-DNS-like service: agents on roaming devices
report their current IPv4/IPv6 address to a server, and gateways (firewalls)
consume the resulting allow-list, as a file (`devices.json`), as webhooks or as
a WebSocket stream. The server is one Go process over one SQLite database with
a single connection (`store.Open` sets `SetMaxOpenConns(1)`), so a *statement*
or a *transaction* is atomic and a *handler* is not. That gap, between a row a
handler read and the row it later writes or announces, is what this project is
about.

Contents: [inventory](#1-inventory), [plan](#2-plan), [what each module
models](#3-modules), [runs](#4-runs), [proofs](#5-proofs), [limits](#6-what-is-not-modelled-and-what-is-abstracted).

## 1. Inventory

Paths are relative to `src/internal/`.

| Component | State | Operations | Correct when |
|---|---|---|---|
| **Devices and feed** (`server/service/{checkin,device,feed,admin}.go`, `store/{devices,ip_history,checkin,feed_state}.go`) | `devices` rows (addresses, confirmation instants, warning levels, disabled), `ip_history`, `feed_state.seq` | check-in, enable/disable (owner, admin), delete, account disable/delete, rename, rotate secret | the device row agrees with its newest history row; consumers that apply the events hold exactly the feed |
| **Fanout** (`server/fanout.go`) | a mutex | bump `seq`, enqueue to the outbox, broadcast to the stream; `ExpireAddresses` also writes under the mutex | `(type, id)` is unique; every address change is announced once; nobody keeps the mutex |
| **Staleness sweep** (`server/sweep.go`, `server/stale/`) | none persistent besides warn levels | hourly: query candidates, expire or warn each, notices, digest | only stale addresses are cleared; stale ones do get cleared; a rung is notified once; removals are reported |
| **Retention pruner** (`server/pruner.go`) | none | batched deletes of old rows in every table | never deletes the row that explains the present |
| **Outbox and worker** (`server/notify/`, `store/notifications.go`, `server/service/notification.go`) | `notification_endpoints`, `notification_deliveries` | enqueue per endpoint, select due rows, attempt, backoff, give up, redeliver, test, disable, delete | each delivery reaches a final state; attempts are bounded; ids stay fit for deduplication |
| **Stream hub** (`server/feed/`) | subscribers with bounded buffers | subscribe, snapshot, broadcast, evict, close by token, shutdown | a subscriber sees snapshot plus every later event, or is disconnected |
| **Agent authentication** (`auth/hmac.go`, `store/replay_nonces.go`) | nonces, secret cache | verify, rotate/invalidate, prune | a request is accepted once; a rotated secret stops working |
| **Account administration** (`server/service/{admin,registration}.go`, `store/users.go`, the admin handlers of `server/api` and `server/webui`) | `users` (role, disabled) | invite, update, disable, delete, with a last-admin guard | the last enabled admin goes only by a count that was out of date when it was used |
| **Enrollment** (`server/service/enrollment.go`, `store/{enrollment_codes,oidc_device_flows}.go`) | codes, device flows | issue, redeem with rollback, poll | one code, at most one device; a losing redemption leaves nothing |
| **Grants, passkeys, bootstrap** (`server/service/{grants,passkey,bootstrap}.go`) | grants, challenges, credentials, bootstrap token | issue, reissue, redeem, recover, claim | single use, one replacement at a time, mailed where the account is; recovery revokes; bootstrap is claimed once |
| **Email change** (`server/service/email_change.go`) | pending address on the user | request, confirm, cancel, admin set, IdP sync | no address is held by two accounts |
| **Sessions, OIDC login, API keys** (`auth/session.go`, `server/service/{auth,oidc,apikeys}.go`) | sessions, keys, links | create, authenticate, slide, revoke | nothing authenticates after revocation |
| **Client agent** (`client/{enroll,credentials,checkin,poller,ipdiscovery}`, `cmd/diyddns-client`) | `credentials.json`, consecutive rejections | enroll by code or device flow, save, discover by quorum, check in, back off | what is reported has a quorum; a rejected agent stops; credentials on disk are not replaced unasked |
| HTTP API, web UI, middleware | rate limiter only | decode, authenticate, check, route, render | (no state of its own; the handlers that change state are actions of the modules of their services, one per door) |
| Configuration, email transport, telemetry, logging | none | parse, send, log | (values become CONSTANTS) |

**How they interact.** Handlers and the sweep share the tables through the one
connection, and share the announcement path through `fanout`, whose mutex
orders *bump, render, dispatch*. `fanout` feeds the outbox (a table, drained by
a worker goroutine) and the hub (memory). The sweep runs in the pruner's
goroutine, after the retention deletes of the same tick, and is the only caller
that writes the database while holding the fanout mutex. Request contexts are
not detached, so a client that disconnects can make the bump or the enqueue
fail *after* its change has committed.

The account services share the `users` table and the one-time tokens with no
lock but `GrantService.replaceMu`: a change of address deletes links that a
concurrent request may be minting, a sign-in at the provider links a row that an
administrator may be promoting. An agent and the server meet in two protocols,
enrollment and check-in, either side of which can vanish in the middle.

**What is hard here**, and hence what the properties are for: read-then-write
handlers interleaving on one device; events announced in a different order from
the writes; a sweep that acts on rows read earlier; instants taken before a
wait for the database and written after it, compared in whole seconds; a crash
or a failed bump between commit and announcement; notices that must go out once
or at least once; a check (of a count, an address, a token, a code) that a later
statement of the same request relies on; compensation that has to run although
the client has hung up; a slow consumer. `PROJECT.json` lists each hazard at its line.

## 2. Plan

Ordered by how much of the program's purpose depends on the part.

Done:

1. `StaleWindow`, `DeviceFeed`: devices, feed, fanout, sweep, `ip_history`
   retention, crashes. Runs `core`, `faults`, `live`, and one disagreement with a
   comment of the repository, `race`.
2. Theorems about the core: type correctness, `HistoryAgrees`,
   `HistoryWithinLag`, `SweepClearsOnlyStale`, `EveryRungHasATick`.
3. `Outbox`: enqueue, batch, attempt, backoff, redelivery, endpoints. Run
   `outbox`.
4. `HmacVerifier`: nonces, skew, secret cache against rotation. Runs `replay`,
   `rotate`, and the theorem `AcceptedOnceAlways`.
5. `StreamHub`: tokens, subscription, snapshot, bounded buffers, eviction,
   revocation, shutdown; implements the abstract `StreamPromise`. Runs `stream`,
   `frame`.
6. `AccountStore`, `Accounts`, `Registration`: accounts, sessions, keys,
   addresses, the provider's identities, links, passkeys, the first
   administrator, by both doors. Runs `access`, `lastadmin`.
7. `Enrollment`, `Agent`: the client and the server together. Run `agent`.

8. Theorems about every other module: all safety invariants and action
   properties of `Outbox`, `HmacVerifier`, `StreamHub`, `Agent` and
   `Registration`, with the step simulation of `StreamPromise`; `EventIdsUnique`
   and `ChangesAccounted` of `DeviceFeed`.
9. The properties that hold only under a proviso, with the proviso as the
   theorem's hypothesis: `WarnedOnce`, `OneAccountPerMailbox`.

Every invariant and action property that a passing run checks is now stated by a
theorem; see [proofs](#5-proofs) for what stays with TLC.

## 3. Modules

### StaleWindow

`server/stale/window.go` and the recipient table of `stale/notice.go`. Integer
division truncates in Go and in TLA+ alike on these non-negative values.
`ExpiresAt`, `Rungs`, `FirstRung`, `DueRung` and `RecipientsFor` keep the
source's names and take the window in seconds.

### DeviceFeed

| Variable | Code |
|---|---|
| `now` | `store.NowUnix()`; never goes back |
| `userSt`, `devSt` | rows of `users`, `devices` and their `disabled` columns |
| `addr`, `conf`, `warn` | `current_ipv4/6`, `v4/v6_confirmed_at` (0 for NULL), `v4/v6_warn_level` |
| `hist`, `nextId` | `ip_history` and its AUTOINCREMENT |
| `seq`, `log` | `feed_state.seq`; the events handed to outbox and stream, in order |
| `req[p]` | the locals of the handler in slot `p`, with the statement it has reached |
| `sw` | the locals of the sweep; `sw.pc \in {"locked", "announce"}` is the fanout mutex held across a write |
| `notices` | staleness messages sent, per audience |
| `lost` | history variable: history ids whose announcement died with the process |

A handler is a chain of actions, one per statement or transaction:

| Code | Actions |
|---|---|
| `api/checkin.go` + `CheckinService.Checkin` | `StartCheckin`, `CheckinRead`, `CheckinWrite` (`Touch` or `RecordIPChange`), `Emit` |
| `DeviceService.SetEnabled`, `AdminService.SetDeviceEnabled`, `deviceMutator.flipDisabled` | `StartSetEnabled` / `StartAdminSetEnabled`, `ReadOwner`, `FlipDisabled`, `Emit` |
| `DeviceService.Delete` | `StartDelete`, `ReadOwner`, `DeleteDevice`, `Emit` |
| `AdminService.UpdateUser` (disabled), `.DeleteUser` | `StartUpdateUser` / `StartDeleteUser`, `ListDevices`, `UpdateUser` / `DeleteUser`, one `Emit` per device |
| `sweeper.Run` | `StartSweep`, `SweepQuery`, `SweepAct`, then `SweepExpire`, `SweepAnnounce`, `SweepRemoved` or `SweepWarn`, `SweepDeliver`, and at the end `SweepDigest` |
| `fanout` | `Dispatch`, inside `Emit` and `SweepAnnounce` |
| `pruneIPHistory` | `PruneIPHistory`, one batch |
| `createSealedDevice` | `Enroll` |
| time, process | `Tick`, `Crash` |

Two details carry weight. An instant is taken by the caller and written by a
statement that may have waited for the connection: the sweep's is `sw.wat`
(fixed when it takes the mutex), and Touch's is any instant between the
check-in's read and now, at most `StampLag` old. `RecordIPChange` takes its
instant inside the transaction. And the expiry event carries the candidate's
phase-1 row with the due families cleared, while the transaction clears them
in the row as it is: they differ when a pin passes although the row changed.

### Outbox

| Variable | Code |
|---|---|
| `ep` | `notification_endpoints`: absent so far, enabled, disabled, deleted |
| `dl`, `nextRow` | `notification_deliveries` by id; `due = 0` is `next_attempt_at IS NULL` |
| `enq` | the locals of the `Enqueue` in progress; `fanout` admits one at a time |
| `wk` | the locals of `Worker.sweep`: the rows selected, the one being attempted, its outcome |
| `seen` | per endpoint, the events its consumer has acted on (external) |

| Code | Actions |
|---|---|
| `Enqueuer.Enqueue` | `StartEnqueue` (list the endpoints), `EnqueueOne` per endpoint; each may fail and only logs |
| `NotificationService` | `CreateEndpoint`, `SetEnabled`, `DeleteEndpoint` (with its cascade), `UserTest`, `Redeliver` |
| `Worker.sweep`, `deliverOne` | `SweepQuery`, then per row `Attempt` and `WriteBack` |
| `pruneNotificationDeliveries` | `Prune`, one batch |
| time, process | `Tick`, `Crash` (shutdown included: a cancelled attempt is not written back) |

Events are numbered in the order `fanout` announced them. An attempt comes to a
class; classes the worker treats alike are one value. The consumer follows
`docs/notifications.md`: it ignores a duplicate and otherwise lets the event
stand.

### HmacVerifier

`auth/hmac.go` with the nonce table and the rotation of a device's secret. A
secret is its version number; a signature is what it signs, together with the
version it was made with. `Verify` is `StartVerify` (the middleware fixes the
instant), `ReadDevice`, `ReadOwner` (with the skew window), `LookupSecret`
(under the read lock) and on a miss `FillCache` (under the write lock), each
with the comparison, and `InsertNonce`; `Fail` is a store error at any of its
statements. `DeviceService.RotateSecret` is `StartRotate`, `RotateSecret`,
`Invalidate`. Devices and accounts are disabled and deleted around it,
`PruneExpired` forgets nonces, `Restart` empties the cache. `accepted` and
`settled` are history variables for the properties.

### StreamHub and StreamPromise

`StreamPromise` is what `docs/feed.md` promises a consumer: a first frame that is
a snapshot no older than the moment it was attached, then every later event, once
and in order, for as long as it is connected, and no event without the snapshot.
`StreamHub` is how `server/feed` does it.

| Variable | Code |
|---|---|
| `written`, `sent` | changes committed to the feed, and those of them broadcast; both numbered |
| `tokens`, `revoke`, `matched` | `feed_tokens`; how far `RevokeToken` is; the subscribers `CloseToken` found under the mutex |
| `subs`, `wg`, `over` | `Hub.subs`, its wait group, and the subscribers a `Broadcast` found full and has yet to drop |
| `hub` | up, draining (`Shutdown` waits), down |
| `conn[c]` | a connection's handler: phase, token, buffer, cancel cause, snapshot, and what its consumer holds |

`TokenMiddleware` is `Authenticate`; `serveStream` is `Subscribe`, `Recheck`,
`Accept`, then `RenderSnapshot`, `SendSnapshot`, `PumpEvent`/`PumpDone`,
`CloseExit`, and `Leave` (the deferred unsubscribe). `Broadcast` and `CloseToken`
act under the mutex and again after it, hence `DropSlow` and `MatchToken`.
`PeerGone` is the read loop or the ping loop. The refinement (`Link`) maps a
connection's phase to `off`, `waiting` or `synced`, and its last event taken to
`pos`. A connection whose snapshot could not be rendered is on its way to a close
with 1011 and maps to `off`; that `pump` may still write an event to it is what
`SnapshotFirst` and the run `frame` are about.

### AccountStore, Accounts, Registration

`AccountStore` is `internal/store` for `users`, `sessions`, `api_keys`,
`webauthn_credentials`, `account_recovery_tokens` and `bootstrap`: the tables are
one record, a statement is an operator on it, and its WHERE clause a predicate
(`CanConfirm`, `CanLinkOIDC`, `Redeemable`...). An address is a mailbox and a
spelling: UNIQUE compares both, `EqualFold` the mailbox. One spelling, `legacy`,
is the display-name or padded form that rows from before the boundary validations
can still hold: `NormalizeAddress` turns it into the canonical one, no comparison
with the stored text matches it (`SameText`), the second look of `findByEmail`
(`FindLegacy`) finds it by its canonical form, and `LinkOIDC` rewrites it.

A request is a record in `call[p]`; `pc` names the statement it is about to run,
and `row` keeps the row it was given, however old. `Accounts` has the
authentication (`AuthSession`, `AuthUser`, `Slide`, `AuthKey`, `AuthKeyUser`,
`Admitted`), one action per handler and door (`ApiUpdateUser`, `PageUserUpdate`,
...), and one per statement of `AdminService`, `EmailChangeService`,
`OIDCService` and `APIKeyService`. `Registration` adds `GrantService`,
`PasskeyService` and `BootstrapService`, and the world: `Arrive`, `Fail` (before
any statement), `Restart`, `Expire`, `Prune`. All passkey ceremonies seal their
challenge under one AAD and `openSession` asks for no other sign of the ceremony,
so a challenge of one can finish another (`OpenedBy`); only the claim of the first
administrator has an AAD of its own.

| Variable | Code |
|---|---|
| `db` | the tables |
| `chals` | sealed challenge cookies given out, with `claimChallenge`'s map, which a restart empties |
| `mu` | `GrantService.replaceMu` |
| `call`, `spent`, `scene` | the requests; bounds; which situation this is |

A grant's `to` and `upto` and an account's `by` are history, for the properties.

### Enrollment and Agent

`Enrollment` is the server's side: `ConsumeCode` (`CodeGet`, `CodeCreate`,
`CodeConflict`, `CodeConsume`, `CodeReread`, `Rollback`), the device flow
(`FlowStart`, `FlowCreate`, `TryPoll`, `FlowReread`, `DevicePoll`, `FlowLogin`,
`FlowMint`, `FlowDelete`), check-in as an agent sees it, and what the owner does
(mint codes, rename, enable, rotate, delete). A check-in is `Checkin` (Verify
reads the row), `Lookup` in the secret cache and on a miss `Fill` with the secret
of the row that was read, each with the comparison, `Insert` of the nonce, and
`Apply`; whatever fails before `Apply` is a 401, as `hmacMiddleware` answers. A
rotation writes the row and calls `Invalidate` in a later step, so a replaced
secret can come back into the cache here as in `HmacVerifier`. When the client is gone a request
goes on under a cancelled context: each statement may fail, except the detached
`Rollback`. `idp` is the identity provider and the person in front of it, external.

`Agent` is `diyddns-client`: `Launch`, `LoadEnroll`/`LoadRun`, `Capabilities`,
`Send` and `Receive` for each request, `Sleep`, `SaveStat` and `SavePublish` for
the credentials file, `Discover`, `TallyNext`, `TallyEnd` and `Rest` for the loop;
`GiveUp` is its timeout and `Kill` the end of the process. In a discovery every
provider names an address, the host's or any of `Elsewhere`, or nothing of use;
`TallyNext` takes the addresses named in any order, as Go does, and keeps the best
count, its address and the tie as `discoverFamily` does. Agents share one host and one file. The two
modules are composed in `Agent`: a server step leaves the agents alone and vice
versa, and they meet in `req`.

### DeviceFeedProofs, HistoryProofs, EventProofs, HmacProofs, OutboxProofs, StreamProofs, AgentProofs, RegistrationProofs

See [proofs](#5-proofs).

## 4. Runs

The module of a run is the `MC` module of its specification. Deadlock is
checked for `HmacVerifier` only, which never stops (a restart is always
possible); elsewhere a server with the clock at its last instant, or the quota
of requests used up, and nothing to do is at rest, which is no error. `MaxId` and
`MaxSeq` bound `ip_history.id` and `feed_state.seq` where a request *begins*, so
that no request is cut short in the middle; `MaxInFlight` bounds how many
handlers and sweeps run at once.

| Run | Question | Instance |
|---|---|---|
| `core` | Does a device row always agree with its newest history row, do history by id and by time disagree by no more than a Touch waits, and does the sweep clear only what is stale at the write? | one device that moves, two handlers and the sweep at once, deletes, retention, a wait of up to one second |
| `faults` | Are event ids unique, is every change accounted for and is a rung notified once per confirmation, when bumps fail and the process dies? | two handlers or a handler and the sweep, two addresses, a window of 6, a wait of up to one second |
| `live` | Are the levels recorded rungs (`TypeOK`), do requests return, do stale addresses leave, are removals reported? | a handler and the sweep, a window of 7 with all four rungs, weak fairness |
| `race` | *violation*: does a consumer that applies the events hold the feed? | a check-in and an admin's disable |
| `outbox` | Is the unclaimed batch still right when each row is written back, does delivered mean received, are attempts bounded, is owed work kept, and does every delivery settle? | three rows, batches of two, two attempts, one mishap anywhere |
| `replay` | Who can accept a signature again, and is only what a secret signed recorded? | two handlers, four signatures, two secrets, a skew window and a nonce TTL of 1, as equal as the shipped 120 s, handlers that take up to one second |
| `rotate` | *violation*: does a replaced secret stop authenticating? | the same |
| `stream` | Does a revoked token's stream end, does a connected consumer hold the feed, is it what `StreamPromise` says, does the wait group count the map, do cancelled streams end and does shutdown drain? | two connections, room for one, buffers of one, three events, one fault |
| `frame` | *violation*: is the snapshot the first frame? | the same |
| `access` | `OneReplacement`, `AdminLinksCurrent`, `GrantOnce`, `RecoveryReplaces`, `OneFirstAdmin`, `OneAccountPerMailbox`, `LastAdminGuarded`, `ConfirmedAddress`, `LinkedWhileEligible`, and the mutex | nine situations, see below |
| `lastadmin` | *violation*: does an administrator always remain? | the situation *rivals* |
| `agent` | `NoOrphanDevice`, `SpentFlowsGone`, `QuorumSound`, `FileKept`, `StopsWhenRejected` | eight situations, see below |

**Why these bounds.** The hazards need two actors on one device (three for the
sweep's pin against two check-ins), one address per family (two where a change
of address matters), and at most two history rows before the interesting one. A
window of 3 units with the clock at {1, 4, 5, 6} puts a confirmation, its expiry
and two later instants on the clock, one for the sweep's stamp and one for a row
later than it by more than the wait of a Touch; the warnings of `live` need a
window of 7, the smallest in which all four rungs fall on distinct instants, those
of `faults` one of 6, in which the first rung is longer than the wait. Symmetry over
handlers and addresses is used in safety runs only. A VIEW drops variables that
are only ever appended to and that the run's properties do not read.

The outbox run needs a retry due after another row (so a clock that jumps past
the first backoff of 15 s), more due rows than a batch holds, and a row old
enough to prune. In `outbox` the last instant of the clock stands for all later
time, so that a retry scheduled past it still falls due. `replay` needs a
request that begins at the edge of the skew window, a pruner that runs after it
and before its insert, and a replay: times up to 4 hold all three, with a
handler taking at most `MaxLag = 1`. A trailing mishap count (`MaxMishaps`)
bounds failed statements and restarts together: one is enough at each point,
since the state after it is an ordinary one.

`access` and `agent` start in one of several situations (`Scenes` of the MC
module), each with the tables, the requests and the bounds in which one group of
hazards can happen; every property is checked in all of them. Accounts and
agents do not interact across situations, and a request outside the situation
would only repeat what another one does. `access`: *links* (reinvite, recovery,
address change, delete, two at once), *redeem* (one recovery link, two ceremonies
begun with it), *emails* (requests, confirmations, cancellation at once),
*provider* (sign-ins while an administrator promotes and renames), *repair* (the
address was stored in the display-name form: two sign-ins, and an administrator who
changes the address or mails a link), *first* (two
claims, restarts), *alone* (every administrator's request by both doors, one at a
time, two administrators), *rivals* (two administrators against each other at
once), *passkeys* (an account's own passkeys, keys, sessions and sign-in). Two
requests at once and three in all reach every window listed among the hazards,
because each is between two statements of one request. `agent`: *race* and
*twice* (one code, two commands or two failures), *naming* (codes for labels that
are taken), *files* (two commands, one file), *consent* and *hurdles* (device
flows, expiry, discovery not done), *loop* (an agent runs while its device is
rotated, disabled or deleted), *votes* (the providers disagree). Five providers,
a quorum of two and three addresses are the smallest where the answers can split
2, 2, 1, a tie with a quorum that an address met later does not break, and 1, 1, 3,
a tie that one does.

In `stream` one slot for two connections keeps the liveness check affordable and
makes the refusal happen; the instance with room for both and two events passes
as well (917,000 states).

**Fairness.** `DeviceFeed`'s `FairSpec` has weak fairness of each handler's next step
(`net/http` runs a handler to its end, and the one mutex is held only by the
sweep, between two of its own steps) and of the sweep's (`runPruner`'s ticker
keeps calling it). Arrivals, enrollment, the clock, pruning, faults and crashes
are never forced. The `live` run has crashes off, because a crash ends a
request and loses a removal notice by design; it lets the sweep run beside a
handler (`MaxInFlight` is larger than the number of handlers), since the code
never makes the sweep wait for requests. `Outbox`'s has weak fairness of the
worker (its ticker keeps starting it, an attempt has a timeout) and of the
clock, with finitely many mishaps: a database that rejects every write-back
settles nothing. `StreamHub`'s has weak fairness of each handler's next step (every
write, ping and close has a timeout), of the loop that drops slow consumers and
of a revocation once begun; consumers, changes and the shutdown come or do not.
`Agent`'s has weak fairness of each client process and of each request the
server has begun; commands, kills, timeouts, the person at the provider, the
owner and time are never forced, and faults are finitely many.

**What the violations show.**

* `race`: a check-in that read the device before an admin disabled it announces
  its `ip_changed` *after* the `removed`. The consumer, told to take the last
  event, keeps the disabled device's address until the next event or snapshot.
  The comment of `fanout` promises the last event is the newest state.
* `rotate`: a `Verify` that read the device row before a rotation misses the
  cache and stores the replaced secret after the rotation's `Invalidate`. The
  comment of `Invalidate` promises that the stale secret stops authenticating;
  it does not until the next rotation or restart.
* `frame`: the snapshot of a new connection cannot be rendered while an event is
  already in its buffer. `snapshotFailed` cancels the subscriber, and `pump` finds
  both the cancelled context and the event ready; Go chooses either, so the first
  frame can be an event. `docs/feed.md` and the comment of `snapshotEnvelope`
  promise a snapshot first, on every stream. The connection is closed with 1011
  right after, so a consumer that waits for its snapshot is not misled.
* `lastadmin`: two administrators demote, disable or delete each other at once.
  Each request counts two administrators, in a statement before the one that
  writes, and nobody is left. The comments of `ErrLastAdmin` and `guardLastAdmin`
  rule it out. `LastAdminGuarded`, in `access`, says that this is the only way: the
  request did count, and its count was out of date when it wrote.

**Windows the code leaves open**, met while modelling. No text of the repository
promises otherwise, or a comment accepts them, so none is a run; the properties
are stated so as to say exactly how far the code's own argument reaches.

* A family left out of a check-in is written back as it was read; pins compare
  whole seconds; webhook retries of one device are not ordered; an endpoint
  disabled after its batch was selected still gets what is left of that batch.
* A Touch that waited for the database can set a confirmation back to the one the
  sweep read, so that its pins pass and its row lands behind a later one.
  `HistoryWithinLag` says by how much: the wait, and no more.
* `validateAuth` and `config.example.yaml` ask for `nonce_ttl >= skew_window`, and
  both are 120 s as shipped. A handler that outlives the second it began in can then
  accept a signature whose nonce has just been pruned. `AcceptedOnce` says that
  nothing else can: acceptance is once for handlers within `nonce_ttl - skew_window`
  of their beginning.
* `PasskeyService.Remove` counts in one statement and deletes in a later one. Two
  such requests at once can take the last passkey.
* `IssueInvite` and self-service recovery mail to the address read before the
  mint; only an administrator's replacement reads it again
  (`AdminLinksCurrent`). A failure between a change of address and the deletion
  of the old links leaves them until they expire.
* A sign-up at the provider looks at stored addresses only, so a mailbox somebody
  is still to confirm can get a second account; so can the first administrator's
  claim (`OneAccountPerMailbox` leaves sign-ups, claims and overlap out).
* When its mail cannot be sent, an address change request clears whatever change
  is pending by then, a newer one included.
* Two redemptions of one code can be answered 409 rather than 401. If the row
  cannot be read back after the code was marked used, the device is taken back
  and the code is spent.

## 5. Proofs

TLC shows the properties on the instances above; TLAPS shows these for every
value of the constants satisfying the module's assumption.

| Theorem | Module | Says |
|---|---|---|
| `EveryRungHasATick` | DeviceFeedProofs | for every configurable window, hourly ticks hit each rung before the next one or the expiry: no warning can be skipped by the tick's granularity |
| `TypeCorrect` | DeviceFeedProofs | `Spec => []TypeOK` |
| `HistoryAgreesAlways` | HistoryProofs | `Spec => []HistoryAgrees` |
| `HistoryWithinLagAlways` | HistoryProofs | `Spec => []HistoryWithinLag`, for every `StampLag` |
| `SweepClearsOnlyStaleAlways` | HistoryProofs | `Spec => SweepClearsOnlyStale` |
| `WarnedOnceAlways` | HistoryProofs | `Spec => WarnedOnce` when `StampLag < FirstRung(W)` |
| `EventIdsUniqueAlways`, `ChangesAccountedAlways` | EventProofs | no two events share type and id; every history row is announced, in one actor's hands, or lost with a crash |
| `AcceptedOnceAlways` | HmacProofs | `Spec => AcceptedOnce`, for every `NonceTTL`, `Skew` and `MaxLag` |
| `HmacTypeCorrect`, `NoncesGenuineAlways` | HmacProofs | types; only what a secret of the device signed is recorded |
| `OutboxTypeCorrect`, `BatchCurrentAlways`, `DeliveredReceivedAlways`, `RowsKeptAlways` | OutboxProofs | the unclaimed batch stays what the table holds, delivered means received, owed rows stay |
| `StreamTypeCorrect`, `RevokedStopsAlways`, `InSyncAlways` | StreamProofs | the wait group counts the map; a revoked stream is cancelled; a connected consumer that has caught up holds the feed |
| `StreamImplementsPromise` | StreamProofs | `Spec => ImplementsPromise`: every step of the hub is one of `StreamPromise` or leaves it alone |
| `NoOrphanDeviceAlways`, `SpentFlowsGoneAlways`, `FileKeptAlways` | AgentProofs | the enrollment protocol with its compensation, device flows, and the credentials file |
| `QuorumSoundAlways` | AgentProofs | the address of a report has a quorum, and more votes than any other, in whatever order the counts are read, for any providers and addresses |
| `RegistrationTypeCorrect` | RegistrationProofs | tables and requests stay well formed, and `replaceMu` is held only between a replacement's delete and its mint |
| `OneReplacementAlways`, `AdminLinksCurrentAlways`, `GrantOnceAlways`, `RecoveryReplacesAlways` | RegistrationProofs | links: one replacement, in the right mailbox, redeemed once, old credentials gone |
| `OneFirstAdminAlways`, `LastAdminGuardedAlways` | RegistrationProofs | the first administrator and the last |
| `ConfirmedAddressAlways`, `LinkedWhileEligibleAlways` | RegistrationProofs | a write that relies on an earlier look checks it again |
| `OneAccountPerMailboxAlone` | RegistrationProofs | `Spec => []OneAccountPerMailbox` when mailboxes belong to one account each to begin with |

**The inductive invariant of the core.** `HistInv == TypeOK /\ HistRows /\ AtMostNow /\
LockedCovers`. `HistoryAgrees` alone is not inductive: that an appended row is
the newest by id needs `HistIds` (ids stay below `nextId`). `HistoryWithinLag`
needs more. The sweep fixes its instant `wat`, then waits; a check-in may commit
a row later than `wat` in between. `LockedCovers` says why the sweep's own row
is then not written: either no row of the device is later than `wat + StampLag`,
or some confirmation is later than `wat`, and the confirmations read in phase 1 are
all at most `wat`, so the pin fails. A Touch can lower a confirmation, but only to
an instant at most `StampLag` before its own write: when it takes the last
confirmation to `wat` or below, now is at most `wat + StampLag`, and with it every
row. `AtMostNow` supplies that nothing recorded is in the future.

**The inductive invariant of the verifier.** `ReplayInv == TypeOK /\ Prompt /\
Judged /\ Dated /\ Remembered`. A handler past the skew check was within the
window at the instant it began (`Judged`), and began at most `MaxLag` ago
(`Prompt`). A nonce expires `NonceTTL` after its signature's timestamp
(`Dated`), so an accepted signature is either still in the table or its
timestamp is more than `NonceTTL` in the past (`Remembered`). A second
acceptance would need a handler whose timestamp is no longer remembered, so more
than `NonceTTL` in the past, and was within `Skew` of the instant it began: one that
began more than `NonceTTL - Skew` ago. That difference is the time `AcceptedOnce`
allows a handler; `validateAuth` lets it be 0, and the shipped configuration has it
at 0.

`NoncesGenuine` needs `GenuineInv`: a handler holds a version that was issued
(`Issued`), also when it got it from a cache a rotation has overtaken
(`CacheIssued`), and versions only grow.

**Events.** `EventInv == TypeOK /\ HeldToAnnounce /\ Custody`. An `ip_changed` event
takes its id from a history row long before the fanout mutex lets it out. That no
other actor announces that id is an argument about custody: every id below
`nextId` is in exactly one place, a handler's hands, the sweep's, the log, or
`lost`. `EventIdsUnique` and `ChangesAccounted` are two readings of it.

**Warnings.** `WarnInv == HistInv /\ SweepRungs /\ WarningsOnRecord`. `WarnedOnce`
compares a warning with all earlier ones, so the invariant follows each warning ever
sent (`OnRecord`): as long as the device still has the confirmation it was about,
the stored level is at least its rung, or a whole window has passed and the sweep
will find the family due instead of warning about it. The expiry of a family lowers
the level without a new confirmation, hence the second case. The proviso is that a
Touch waits for the database less than the first rung: a longer wait could bring a
confirmation back that was already warned about, with its level reset. The runs
`faults` and `live` have a wait of 1.

**Outbox.** `OutboxInv` adds to the checked invariants that inserts take fresh ids
(`Fresh`, `HandFresh`), that the worker has taken the row it attempts out of its
batch (`Taken`), and that an attempt with an accepted answer has been acted on
(`Acted`). Nobody else writes a pending row, so the worker needs no claim.

**Stream hub.** `StreamInv == Base /\ Counted /\ Live /\ Revoking`. `Live` says of each
phase of a connection what its buffer holds (the events after the last one given,
up to the last one broadcast) or that it is about to be cancelled; `Revoking` that
a stream of a revoked token is cancelled or still in `CloseToken`'s list. The
refinement is by simulation of each step: subscribing and rendering are the
promise's attachment and snapshot, a pumped event its delivery, every way out its
detachment, and the rest stutters, a step of a connection without a snapshot
included; `Live` is what makes the pumped event the *next* one.

**Agent and enrollment.** `AgentInv` follows a device from its insert to its code. A
request between `CodeCreate` and the end of its rollback *owes*: it names a device
nobody else names (`Owes`, `Owing`), the tables only grow (`Grown`), and a client
process waits for the one request that is its own (`Waits`). `SpentFlowsGone` adds
which request settled a flow (`FlowTables`), for as long as nothing has failed.
`QuorumSound` rests on `Leads`, the invariant of the loop over the counts: of the
addresses it has met, none has more than `top`, the winner has `top`, and unless
there is a tie nobody else has. `MetLeads` shows it for one more address, in
whatever order they come, and `LeaderWins` reads the result off when none is left.
The providers, the addresses and the quorum are arbitrary; `Providers` is assumed
finite, as a list in a configuration file is.

**Accounts and links.** `RequestInv` says, for the statement a request is at, what
it may assume of its locals (`Fits`), which rows and challenges they name
(`Names`), and who holds `replaceMu` (`Mutex`). With it every one of about a hundred
actions has one of four shapes: `Calm` (one request moves on, no table of the
argument changes), `AccountWrite` (one account's row changes, under what guard),
`Busy` (the statements the properties are about) and `Meanwhile` (expiry and
pruning). The invariants above it have a lemma per shape and per busy statement:

* `RedeemInv`: a request that has consumed a link is the only one with it, no
  credential has come of the link yet, and past `RevokeOld` the credentials from
  before are gone. `GrantOnce` alone is not inductive: it is `Consume`'s
  conditional UPDATE, two statements before the credential, that decides.
* `LinkInv`: working links belong to rows, an account has one replacement at most,
  and a request at `mint` sees none. The last conjunct is where the mutex is used.
* `MailInv`: of a request about to deliver, too, the address it read after the mint
  is the account's, or a change of address is about to delete the link.
* `PendInv`: a live pending token is the one mailed to the pending address.
* `FirstInv`: while the setup token is open, or one request has just consumed it,
  there is no administrator and no request past authentication as one. Without the
  second half a request could promote an account between `NoAdminYet` and
  `CreateAdmin`.
* `MailboxInv`: accounts hold different mailboxes, and a request at one of the three
  statements that write an address (`Create` of an invitation, `SetPendingEmail`,
  `SetEmail`) has looked at the tables as they are (`Looked`). Every other statement
  leaves each account with no more than it held (`Fewer`); these three add one that
  nobody else holds (`Joins`). It covers situations with one request at a time and
  neither sign-ups through the provider nor claims, the ones the property is about;
  failures, restarts, expiry and pruning are all in.

`OneFirstAdmin` and the other action properties follow from these at the one step
that could break them. In `Agent` and `Registration`, `SceneAssumption` says the
tables a situation begins with are ones the server can have, and that its requests
in flight are finitely many; TLC evaluates it on every situation. That mailboxes are
apart to begin with is not part of it: it is the hypothesis of
`OneAccountPerMailboxAlone`, since `UNIQUE(email)` alone does not give it.

**Layout.** One lemma per statement of the store (what it does to the rows),
then one per group of actions, then the invariant's step and start, and the
temporal theorems by PTL.

**Only model-checked.** The liveness properties, because the prover handles neither
fairness nor ENABLED: `RemovalsReported`, `StaleAddressLeaves`, `DeliveriesSettle`,
`CancelledEnds`, `ShutdownDrains`, `RequestsEnd`, `StopsWhenRejected`. And that the
provisos of `WarnedOnceAlways` and `OneAccountPerMailboxAlone` can be met together
with everything else: the runs `faults` and `access` are instances that meet them.
`MirrorInSync` has no theorem: with two requests at once it is false (`race`).

## 6. What is not modelled and what is abstracted

* Configuration, email transport, telemetry and logging: parsing and I/O with no
  concurrent state; the values configuration validates are the CONSTANTS.
* Of the HTTP API and the web UI: decoding, rendering, list pages, routing and
  the rate limiter. Audit rows are write-only for the program and left out, with
  their retention.
* Addresses of devices are model values, equal or not; parsing and canonical
  forms are left out. Names, hostnames and the wording of notices and mails are
  left out; a notice is the fact that it was handed to its channel.
* `DeviceFeed`'s accounts are ordinary users, so the guards of `AdminService`
  about oneself and about the last admin always let an operation through;
  `Accounts` has them.
* In `DeviceFeed` the event handed to outbox and stream is one entry of `log`; a
  failing enqueue and what the worker then does belong to `Outbox`, what the hub
  does to `StreamHub`.
* HTTP, WebSocket frames, the egress guard, signing a delivery and the
  cryptography of secrets, tokens and challenges are left out: a token is a
  number nobody else has, a ceremony's verification may be refused.
* In `Accounts` and `Registration` time is a flag per row (live or not) that
  `Expire` clears; CSRF tokens, which only refuse, are left out; signing up and
  linking at the provider are switched on; a stored address that cannot be
  normalised at all (non-ASCII) matches nothing and is left out; advisory mails are
  left out.
* In `Enrollment` one account owns everything; that the device flow leads to an
  account, or is refused, is a choice (`Accounts` has `LoginOrLink`). Sleeps,
  jitter and backoff of the agent are of any length.
* Statement failures in `DeviceFeed` other than the bump's end a handler early,
  with no effect beyond those of a crash of that handler before the statement.
