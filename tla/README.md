# Verification of qm-api-rs

TLA+ models of this crate, model-checked with TLC on small instances and, where
TLAPS can, proved for every value of the constants. The crate is an asynchronous
client of the QQ Music API: most of its 93 files describe endpoints (a module, a
method, parameters, a response type). What is hard is underneath them: shared
device identity, cached sessions, credentials that are refreshed while in use,
retries, redirects, polling and message handling.

## 1. The system

| Component | Source | State | Operations | Modules |
|---|---|---|---|---|
| API context | `src/context.rs` | global credential, device + epoch, sessions per musicid, `state_lock`, limiter, transport | `request_cgi`, `request_cgi_batch`, `request_http*`, `set_device`, `set_credential`, `invalidate_session` | `ApiContext`, `BoundRequest`, `HttpClient` |
| Credential store | `src/credential_store.rs` | accounts, current account, backend, one refresh lock per account | add, remove, set_current, save, refresh, ensure_current, apply_current | `CredentialStore`, `AccountTable` |
| Transport | `src/transport/*.rs` | attempt, hop, received body | execute: retry, redirect validation, stripping of secrets, limits, cancellation | `Transport` |
| Rate limiter | `src/rate_limiter.rs` | tokens, last refill | acquire | `TokenBucket` |
| QR login sessions | `src/modules/login_utils.rs`, polls of `login.rs` | last event, deadline, failures, back-off | next_event, iter_events, wait_qrcode_login | `QrLogin` |
| MQTT client, phone login | `src/mqtt.rs`, `src/modules/login.rs` | socket buffer, QoS 2 state, pending messages, deadline | connect with redirects, subscribe, next_message, ping | `MobileLogin`, `MqttPackets` |
| Uploads | `src/modules/helper_utils.rs` | cached plan, files stored, `upload_lock` | prepare, upload | `Upload` |
| Pagination, account pages | `src/pagination.rs`, `src/account.rs` | cursor, limit, finished | Pager::next, read_page, write_checked | `Pages`, `Endpoints` |
| OAuth and desktop QR | `src/auth.rs`, `src/artwork.rs` | cookies of an attempt, the transport's jar | create, poll, complete, exchange, download | `OAuth` |
| Endpoint modules, login calls | `src/modules/*.rs` | none of their own | over a hundred methods | `Endpoints` |
| Media, playback | `src/media.rs`, `src/playback.rs` | qualities tried | best, resolve, download_best, resolve_files | `Media` |
| QMC ciphers | `src/qmc.rs` | none | decrypt at an offset | `Qmc` |
| Lyrics | `src/lyric_parser.rs` | none | parse_lrc, line_at, to_lrc, parse_playback_lrc | `Lyrics` |
| Facade, versioning, device, replies, errors, models, signing | `src/client.rs`, `versioning.rs`, `device.rs`, `qimei.rs`, `reply.rs`, ... | none | builders, constants, formats | data or outcomes of the above |

**How they interact.** A `Client` owns one `ApiContext` behind an `Arc` and
hands it to every API module. Each request waits for the limiter, takes a
credential, binds itself to the device epoch, applies for a session or a QIMEI
if the cached one is stale (under `state_lock`) and then goes through the
transport. `CredentialStore` sits beside the client: it refreshes an account
through the login module, which sends requests through the same context, and
afterwards tells the context to forget the account's session. QR logins poll
through the context or, for the phone variant, wait for messages of the MQTT
client. OAuth attempts of several windows share the transport and its cookie
jar. Callers drop futures (timeouts, `select!`) and cancel tokens at any await.

**What is hard, and what makes each part correct.**

- *API context*: what a request carries was read piece by piece while
  `set_device`, `set_credential` and `invalidate_session` run. Correct means:
  one device per request, one account per request, nothing fetched under a
  replaced device written back, one application at a time and none wasted, the
  lock never left behind, bounded retries that give up only with cause.
- *Credential store*: a refresh takes several awaits during which the account
  may be removed, replaced or refreshed by somebody else, and the backend may
  fail. Correct means: one refresh per account at a time although lock entries
  are collected, memory equal to the backend, no account resurrected, no newer
  credential overwritten, no rotated token sent again.
- *Transport*: a request that is not safe to repeat is not repeated; cookies,
  tokens and the body of a POST do not follow a redirect to another origin and do
  not come back from one; a cancelled call is silent, between two hops or two
  attempts too.
- *Rate limiter*: never more than the burst and the refill of a window, and no
  waiter is forgotten, with lazy refills and timers that fire late.
- *QR logins*: a poll answer that comes late, repeats, fails, or arrives after
  the deadline. Correct means: one terminal event, nothing after it, no repeated
  event, no more requests than the intervals and the back-off allow although
  the caller drops and renews its call, and an end.
- *Phone login*: partial packets, redelivered QoS 2 messages, messages before
  SUBACK, redirects, a deadline racing the last message. Correct means: framing
  that no cut shifts, each message once, events in the order of the protocol.
- *Uploads*: calls share one cached plan that expires, belongs to other files,
  or was left half-way. Correct means: each object goes where a plan for that
  very content says, and what is finished is all there.
- *Pages*: every row seen once and in order, whatever fields an honest server
  leaves out, and no server keeps a host on one offset.
- *OAuth*: no cookie of another attempt on any request, a code never replayed by
  the transport, a cancelled attempt publishes nothing.
- *Endpoints*: a call with an explicit credential is that account's in all its
  requests; no write is carried out twice, and what is called done was done.
- *Media, QMC, lyrics*: the best quality there is; pieces decrypted at offsets
  are the whole; one line at a time.

`PROJECT.json` lists the components with their status, and under `hazards`
what is hard to test, at the line where it bites.

## 2. Modules

### ApiContext (`src/context.rs`)

One process per concurrent call of `request_cgi` or `request_cgi_batch`
(`Requests`), and an environment that replaces the device, switches the
credential, invalidates sessions and lets time pass. The locals of a call are
the record `call[r]`, its program counter `pc[r]`. There is one action per read
or write of shared state, so any other call or caller may run between two of
them; code that runs under one guard without an await is one action.

| Code | Model |
|---|---|
| `credential`, `device`, `device_epoch`, `sessions`, `state_lock` | variables `credential`, `device`, `epoch`, `sessions`, `stateLock` |
| `request_cgi_with_response_limit`, `request_cgi_batch` | `Invoke`, `Admit` / `AdmitBatch`, `Send`, `Reply` / `ReplyBatch` |
| `build_api_kwargs`, its loop and checks | `Snapshot`, `CheckSession`, `CheckEpoch`, `CheckQimei`, `ReadDevice`, `Build`, `Rebuild` |
| `session_for` | `ReadEpoch`, `CachedSession`, `LockForSession`, `SnapshotForSession`, `LookupSession`, `VerifySession`, `InsertSession`, `Refetch` |
| `fetch_session` | `PostGetSession`, `GetSessionReply`, `FetchError` |
| `get_cached_qimei` | `CachedQimei`, `LockForQimei`, `LookupQimei`, `SnapshotForQimei` |
| `qimei_for_snapshot`, `commit_qimei` | `CheckSnapshot`, `ReadCache`, `QimeiReply`, `CommitQimei` |
| `set_device`, `set_credential`, `invalidate_session` | `SetDevice`, `SetCredential`, `InvalidateSession` |
| a dropped future, a cancelled token | `Drop`, `Cancel` |

Data is abstracted to what the properties tell apart. A QIMEI is the device it
was issued to. A session's uid and sid are the credential, device and QIMEI of
the GetSession request that obtained it; the number of invalidations of the
account at that time is a history value. `payload` (what `build_comm` produced),
`cookie`, `began` and `result` are history variables: no guard reads them.
The server may answer or fail at any time. `MaxEpoch`, `MaxClock` and
`MaxInvalidations` bound the environment; they are the only bounds, and no
theorem depends on their values.

### BoundRequest

What the context promises a caller, without caches, locks or retries: while a
request is open there is one instant at which it is bound, as a whole, to one
credential and to the device identity in force. `ApiContext` implements it
(`Bound == INSTANCE BoundRequest WITH ...`): the instant is `Build`, the last
comparison of epochs; `BoundAtOnce` is the refinement.

### CredentialStore (`src/credential_store.rs`)

One process per call of `refresh` (`Refreshers`), `ensure_current`
(`Ensurers`) or `apply_current` (`Appliers`), and an environment: a host that
logs in, removes and switches accounts, the clock, a backend and a network that
fail, dropped futures, and crashes. Code under the mutex of the store, or of the
map of locks, is one action; every `await` lies between two.

| Code | Model |
|---|---|
| `store`, the backend, `refresh_locks`, the Client's credential | `store`, `disk`, `locks`, `client` |
| the `Arc` of a lock, `strong_count` | `arc[t]`, `StrongCount` |
| the tokio mutex it points to | `holder` |
| `refresh` | `Lookup`, `Acquire`, `Unlock`, `Cleanup`, `Return` |
| `refresh_locked` | `Read`, `Renewed` / `NetworkError`, `Commit`, `Invalidate` |
| `ensure_current` | `ReadCurrent`, `CheckExpired`, `Get`, `Still`, `SetClient`, and `refresh` |
| `apply_current` | `ReadApplied`, `SetClient` |
| `add`, `remove`, `set_current`, `save` | `Add`, `Remove`, `SetCurrent`, `Save` |
| `persist_store`, then `*store = next` | `Write(next, ok)` |
| `Credential::is_expired` turning true | `Expire` |
| a dropped future; a crash and `from_backend` | `Drop`; `Restart` |

A credential is its number among those the server has issued for the account;
`origin` says which credential each is a renewal of, `lost` which renewals never
reached the store. The server may renew a credential although the answer is
lost. The backend writes all or nothing, as `FileCredentialPersist` does with a
temporary file and a rename (Unix). A crash between `persist_store` and the
assignment of the table is a crash after both, since nobody reads the table in
between. A store without a backend behaves as one that never restarts. Bounds:
`MaxIssued`, `MaxSwitches` and `MaxRestarts`; no theorem depends on them.

### AccountTable

What the store promises: a table that changes by logins, removals, switches and
renewals, where a renewal replaces exactly the credential it was obtained for.
`CredentialStore` implements it (`RenewsOnly`).

### Transport, TokenBucket, HttpClient (`src/transport/*.rs`, `src/rate_limiter.rs`)

`Transport` is `execute` of the default transport, one action per await: an
attempt (`Send`, or `SendRefused` if the address is not allowed or the
call is cancelled), the answer, a redirect followed or refused, the body piece by
piece up to its limit, the delay before a retry. Each call is at a `hop`: origin,
method, body, Cookie, token, number of redirects. `wire[r]` is what it sent last,
`effects[r]` how often a server carried it out; `abroad[r]` says whether the
attempt has been to another origin. These last are history variables. Addresses
are their origins; TLS, DNS and the certificate checks are those of reqwest.

`TokenBucket` counts parts of a token, so that the refill of a tick is a whole
number (the code has floating point numbers). The bucket is computed lazily,
inside its mutex, when somebody asks (`Take`, `FallAsleep`); sleeps are outside
of it; a timer fires up to `MaxLate` ticks late. `grants` is the history of
tokens taken. `HttpClient` composes them as `request_http_raw` does.

### QrLogin (`src/modules/login_utils.rs`, polls and exchanges of `login.rs`)

One `QRCodeLoginSession` with a caller that calls `next_event` again and again or
`iter_events` once, and drops the future anywhere. The pauses between polls, the
back-off after errors and the deadline are counted in ticks; the server answers
any state in any order, fails or does not answer. WeChat's long poll and the
exchange after a confirmation are requests of their own.

### MobileLogin, MqttPackets (`src/mqtt.rs`, `checking_mobile_qrcode_observed`)

`MobileLogin` is the client and the login loop against a broker that redirects,
publishes with QoS 0, 1 and 2, repeats what was not acknowledged, closes the
connection or says nothing. `pending` is what arrived before SUBACK, `delivered`
what `next_message` returned. `select!` drops `next_message` when the ping timer
fires; if that happens while an acknowledgement is being sent, the message is
lost, which the history variable `interrupted` records. `MqttPackets` is the
framing below it: bytes cut into WebSocket messages anywhere, put together by
`read_packet`.

### Upload (`src/modules/helper_utils.rs`)

Calls of `prepare` and `upload` on one session: the lock, the cached plan
(`initData`) and the SHA1s it was made for (`lastShas`), the puts one after the
other but for the files the plan says are stored, and `FinishUpload`. Requests
fail, plans expire, futures are dropped half-way and the session is used again
(`Reuse`). `objects` is what the bucket has. A file is identified with its SHA1:
`put_object` reads it again after the hash was taken (`helper_utils.rs:274`), and one
that changes in between is outside the model and its properties.

### Pages (`src/account.rs`, `src/pagination.rs`)

`ParsePage` is the whole of `parse_page`: which answers are refused and which
offset is next, for fields that are absent, contradictory or short. `WalkNext` is a
host that follows `next_offset` against a server that tells the truth (but leaves
fields out) or does not. `PagerNext` is `Pager` with a limit and both strategies;
a dropped or failing fetch has already taken the parameters.

### OAuth (`src/auth.rs`, `src/artwork.rs`)

Attempts of several windows that share one client: each call by its requests, the
Cookie header of each, what the shared jar absorbs, and where the code looks at the
cancellation token. The creation of the code and the picture may be replayed by the
transport (`Replays`); the creation and the exchange leave redirects to it (`Follows`,
`Redirected`): `form` is what they made of the request, `sends` counts how often it went
out as it was given, the code in it. A cookie is its name and the attempt it was given to.

### Endpoints (`src/modules/*.rs`, `write_checked` of `src/account.rs`)

Every method is a member of a class that says which credential goes into its
parameters, which one its requests carry, whether it requires a login, whether the
transport may send it again, how many requests it takes and what it tells of the
answer. One call runs while other tasks switch the account of the client. Answers
arrive, are refused (some of several items may have been carried out), vague, lost or
failed; `applied` counts what the server carried out, which nothing but the number of
requests limits, and `reply` is the history of what the answer said. A vague answer is
Unknown for `write_checked` and false for the methods that return a bool.

### Media, Qmc, Lyrics

`Media`: the order in which `best`, `resolve`, `download_best` and `best_playable`
try qualities, the errors that lead to the next one and those that end the call, and
the rows of `resolve_files`. `Qmc`: which byte of the key stream meets which byte of
the audio, for both ciphers, first segment, segments and wrap included; the skip a
segment starts with is computed with floating point numbers and is arbitrary here.
`Lyrics`: the parsers as functions on rows of tags and a text.

## 3. Runs

Parts that share nothing are checked in one run: a variable `part` (or `scene`)
names the one a behaviour is about, so that their state spaces add up instead of
multiplying. Within a part everything interleaves.

| Run | Question | Instance |
|---|---|---|
| `ApiContext_scenes` | Is every request that goes out of one device (`OneDevice`) and one account (`OneAccount`)? Does nothing fetched under a replaced device reach the new one (`NoWriteBack`)? Is nothing applied for twice (`AppliesOnce`), nothing expired used (`UsableWhenCalled`), is `state_lock` held exactly by the request applying (`SingleFlight`)? Does a call give up only after `MAX_DEVICE_RETRIES` replacements (`GivesUpForCause`)? | two calls; scene "device": two devices, two replacements, two retries; scene "account": two credentials, both platforms, one invalidation or one tick |
| `ApiContext_binding` | Is a request bound at one instant (`BoundAtOnce`, the refinement of `BoundRequest`)? Does the invariant of the proofs hold (`IInv`)? | a CGI request and a batch that may be cancelled, both platforms, one replacement |
| `CredentialStore_scenes` | Is there one refresh per account at a time (`OneRefresher`)? Is no renewed credential sent again (`NoReuse`)? Is memory what the backend has (`SameOnDisk`), the current account one of the store (`CurrentInStore`)? Does `ensure_current` give up only with cause (`GivesUpForCause`)? Does the store implement `AccountTable` (`RenewsOnly`)? `IInv` | scene "refresh": three calls, one account: one holds the lock, one waits, one looks it up; scene "ensure": `ensure_current` and `apply_current` with two accounts, two turns, two switches, one crash |
| `Progress` | Does every call return (`CallsEnd`)? | two requests; `refresh` and `ensure_current`; one QR login; one phone login |
| `HttpClient` | Are no more tokens granted than burst and rate allow (`WindowRule`)? Do cookies, tokens and the body of a POST stay with their origin (`SecretsStayHome`)? Is a write carried out at most once (`WriteAtMostOnce`)? Is a cancelled call silent (`SilentOnceCancelled`)? Does every call end (`EveryCallEnds`)? | one request of eight kinds, a GET with a body among them, two other callers of the bucket; four origins, one of them configured, one unknown; two redirects, one retry; bodies of two pieces; a bucket of two tokens, timers one tick late |
| `Clients` | The parts above the transport: `ListWellFormed`, `PollsSpaced` (QR logins), `DeliveredOnce`, `NothingLost`, `EventsWellFormed` (phone login), `FramesExact` (packets), `RightObject`, `FinishedWhole` (uploads), `WalkComplete`, `PagerConsecutive` (pages), `OnlyOwnCookies`, `CodeNotReplayed`, `SilentAfterCancel` (OAuth), `ExplicitIsWhole`, `AnswerMeansEffect` (methods), `BestIsBest` (media), `PiecesMakeWhole` (QMC), `OneLineAtATime` (lyrics) | see below |
| `ApiContext_getsession`, `ApiContext_invalidation`, `CredentialStore_switch`, `Progress_lifetime`, `Clients_identity`, `Clients_lyrics` | The disagreements of section 5; each checks one property, which TLC refutes | the smallest that shows it |

**Why the instances are enough.** Two calls make the races of the context: one
that applies under `state_lock` and one that uses, waits for or competes with what
it obtains; the third actor is the environment. `MAX_DEVICE_RETRIES` and
`MAX_CURRENT_RETRIES` are 2 instead of 5 and 4: both loops can go round, and give
up, within the changes the bounds allow. One session lifetime and one tick put
"valid", "expires now" and "expired" in reach. Two credentials per account are the
expired one and its renewal; with two accounts the current one can change and come
back. In `HttpClient` two redirects lead to another origin and back, one retry
starts again at home, and a bucket of two tokens for three callers runs dry. In
`Clients`: a timeout of four ticks with intervals of one to three lets an attempt
see several polls, a back-off and its deadline; two messages may be in flight, with
one identifier, so that it is used again; two uploads share a plan that expires
within the run and two lists of which one begins with the other; lists of up to
three rows are read two at a time, with every answer, honest or not; two windows
and two calls of each, one replay and one redirect; two accounts, both of which may
become the current one; three qualities, of which two are encrypted; all cuts of up to three packets with bodies
of up to four bytes, one too many, and a radix of 2, so that the length takes one to
three bytes; audio of seven bytes
cut anywhere, across a first segment of two, segments of three and a wrap at four;
all texts of three out of twelve rows. `MaxEpoch`, `MaxClock`, `MaxInvalidations`,
`MaxIssued`, `MaxSwitches`, `MaxRestarts`, `MaxIdle`, `MaxLate`, `MaxBody`,
`MaxQrClock`, `MaxPublished`, `MaxLink`, `MaxMqttClock`, `MaxPlans`, `MaxUpClock`,
`MaxTotal`, `MaxCalls`, `MaxFileRows`, `MaxSent`, `MaxAudio` and `MaxRows` bound the
environment or the input; they appear in guards of actions of the environment (or of
the input) only.

Deadlock is checked in the runs of `ApiContext` and `CredentialStore`. In
`Progress`, `HttpClient` and `Clients` a behaviour ends when all calls have ended
and the bounds are reached, so `CHECK_DEADLOCK FALSE` is set; that calls do end is
`CallsEnd` and `EveryCallEnds`.

`NothingLost` excludes the behaviours in which `select!` dropped `next_message`
while it sent an acknowledgement (`interrupted`): there the message *is* lost, and
nothing in the repository promises otherwise.

`AnswerMeansEffect` leaves a doubt where the code does: the methods that return a bool
say false for a refusal and for an answer without the field that confirms it
(`unwrap_or(-1)`), so their false may stand for a write that was carried out; so may
that of a write of several items some of which were refused. Only `write_checked` tells
the second case of the first, as `Unknown`.

**Fairness.** Weak fairness, only of the steps of calls that have begun. The
runtime polls a ready future, tokio's mutex is first come first served and its
guard is released on every path (`SingleFlight`), timers fire, and every HTTP
request ends by the timeout of the transport with an answer or an error. Nothing is
assumed of callers, cancellation, dropping, the device, other accounts, the backend,
the state a QR server answers, or the broker. For the phone login this means that
`CallsEnd` is about a login that has subscribed; before that no timer runs, which is
`LifetimeBounded`. Weak fairness is enough for the locks although it is disabled and
enabled again: with two calls the other one cannot take a lock forever, since its
loops are bounded. In `HttpClient` the passing of time is fair as long as somebody
sleeps, and a timer fires at most `MaxLate` ticks late.

## 4. Proofs

Eight modules hold theorems. They quantify over every set of calls, accounts,
devices, origins, windows and files and every value of the retry limits and bounds,
under the named assumptions of the modules they are about.

| Module | Theorem | Statement |
|---|---|---|
| `ApiContext_proofs` | `TypeCorrect` | `Spec => []TypeOK`; its content is that both retry counters stay below `MAX_DEVICE_RETRIES` |
| | `Invariance` | `Spec => []IInv` |
| | `OneDeviceHolds`, `OneAccountHolds`, `NoWriteBackHolds`, `SingleFlightHolds` | the safety invariants |
| `ApiContextBound_proofs` | `GivesUpHolds` | `Spec => GivesUpForCause` |
| | `Refinement` | `Spec => BoundAtOnce`, that is `Bound!Spec` |
| | `UsableHolds`, `AppliesOnceHolds` | the safety invariants about lifetimes and sharing |
| `CredentialStore_proofs` | `TypeCorrect` | `Spec => [](TypeOK /\ NamedInv)`: `ensure_current` stays below its number of turns |
| | `OneRefresherHolds`, `NoReuseHolds`, `SameOnDiskHolds`, `CurrentHolds` | the safety invariants |
| | `Invariance` | `Spec => [](TypeOK /\ IInv)` |
| | `GivesUpHolds` | `Spec => GivesUpForCause` |
| | `Refinement` | `Spec => RenewsOnly`, that is `Promise!Spec` of `AccountTable` |
| `HttpClient_proofs` | `TransportTypes` | attempts, hops and bodies stay within the bounds of `TransportConfig` |
| | `SecretsStayHomeHolds`, `WriteAtMostOnceHolds`, `WindowRuleHolds` | the safety invariants |
| | `SilentOnceCancelledHolds` | an action property |
| `Login_proofs` | `OAuthTypes`, `OnlyOwnCookiesHolds`, `CodeNotReplayedHolds` | type correctness and the safety invariants of OAuth attempts |
| | `SilentAfterCancelHolds` | an action property |
| | `QrInvariance`, `ListWellFormedHolds`, `PollsSpacedHolds` | QR logins by polling: the inductive invariant, a safety invariant, an action property |
| `MobileLogin_proofs` | `MobileInvariance`, `MobileTypes` | the inductive invariant of the phone login, type correctness |
| | `DeliveredOnceHolds`, `NothingLostHolds`, `EventsWellFormedHolds` | the safety invariants |
| `Services_proofs` | `ExplicitIsWholeHolds`, `AnswerMeansEffectHolds` | the safety invariants of `Endpoints` |
| | `RightObjectHolds`, `FinishedWholeHolds`, `OneUploadHolds` | those of `Upload`, and the mutual exclusion they rest on |
| | `WalkCompleteHolds`, `PagerConsecutiveHolds` | those of `Pages` |
| `Content_proofs` | `BestIsBestHolds` | the safety invariant of `Media` |
| | `PiecesMakeWholeHolds` | that of `Qmc` |
| | `FramesExactHolds` | that of `MqttPackets` |
| | `OneLineAtATimeHolds` | that of `Lyrics` |

**ApiContext.** `OneDevice` speaks of what has been sent; it is not inductive
because it says nothing of what a call is about to send. `IInv` adds what is
true on the way: every value a call or the cache holds carries an epoch that is
not in the future, and *if that epoch is the current one, the value belongs to
the current device*. `set_device` increments the epoch, so all those
implications become void at once (`ReplacedFrame`); nothing else changes the
identity, so they survive every other step of another call (`Frame`).
`build_api_kwargs` compares epochs until the turn's snapshot, the session's tag
and the epoch of the device it read are known to be the current one in the same
step in which the comm is bound (`BuildIsBound`), and that step is the `Bind` of
`BoundRequest`. For the retries, `EpochInv` counts: every `continue` has seen
the epoch move past a snapshot, so the number of turns is at most the number of
replacements since the call began. Two more invariants stand on `IInv`. `Uses`: the
session a call holds was good when the call began, because it was valid, or new, at
a later time. `Applies`: a call on its way to a request found no answer under the
epoch it fetches for; it has `state_lock` (`SingleFlight`), nobody else can fill the
cache (`CallApart`), and time or an invalidation only empties it (`StaleFrame`).

**CredentialStore.** `OneRefresher` is not inductive: nothing in it forbids two
locks for one account. `LockInv` says that a call's lock is the one in the map
until its clean-up. A new lock is made only if the map has none, hence if nobody
uses one; an entry is removed only if `strong_count` is 2, which by a counting
argument (`CountOfTwo`) means that one task and one entry have it. Two calls
under the lock of one account then have the same lock, and a lock has one
holder (`OneHolder`). Everything else rests on that: between sending a credential
and committing its renewal nobody else sends it, so a stored credential that was
renewed is one whose call is about to commit, or whose renewal was lost
(`RenewalInv`), and neither is read by the next call under the lock
(`ReuseStep`). Each step is one of `AccountTable` or none (`StepRefines`), and
what the server has issued (`Numbered`) is proved of `AccountTable`'s steps
only. For the turns of `ensure_current`, `TurnInv` counts: a turn that finds
another current account has seen it change.

**HttpClient.** `SecretsStayHome` and `WriteAtMostOnce` speak of what was sent;
`TransportInv` says what is about to be. `HopInv`: once a call has been abroad its
hop carries neither its Cookie nor its token nor, unless it is a GET or HEAD, its body,
and a hop never turns "with a Cookie header" into "without", which would open the jar.
A GET that `Client::request_http` was given a body for keeps it through a 301, 302 or 303
to another origin; `docs/architecture.md:58` promises a refusal only for 307 and 308. `OnceInv`: a write
that was carried out is on its way back, or has been redirected as a GET, and it
never sleeps before a retry. Both hold for each call alone. `WindowRule` compares
any two grants; it is not inductive because an old window does not bound the next
grant. `Paid` does: every grant, together with all that followed it and the present
level, is paid for by a full bucket and the refill since. A tick adds to the level
at most what it adds to that refill (`PassTimeInv`), a grant takes from the level
what it adds to the count (`TakeInv`).

**OAuth.** `CookiesInv` ties the cookies a call holds to its attempt and its step:
none before a poll, one `qrsig` during it; what is on the wire was sent with them.
The jar may hold anything, because no request leaves the header to it.
`SendsInv` counts: before the exchange is on the wire, its code was sent no more often
than it was redirected; only a redirect takes it off the wire and leaves the call at
work, since an exchange is not replayed.

**Endpoints.** `IdentityInv` adds what a call has before its first request
(`CallInv`); `EffectInv` says that until a call is over nothing was changed and
nothing told, which needs that no write may be sent again (`WritesOnce`): the server
would carry it out again (`CarriesOut` has no memory).

**Upload.** Whoever works has the lock (`Holding`), hence the cache is that of the
call that works (`Cached`, `Copied`), and the stored files of the plan are there
(`Stored`), as are those of the files the call has passed: it goes on to the next file
only after the put of this one was answered, and no object goes away.

**QR logins.** `ListWellFormed` says nothing of what a session still remembers;
`CollectInv` adds that while `iter_events` runs nothing terminal was collected and
`last_event` is the last entry of the list, so that a repeated answer is recognised.
`PollsSpaced` speaks of a step. `PauseInv` says what makes the step right: a pause
that is still due will cover the interval the last answer called for, or the rest of
the deadline; where none is due, that time has passed; and a call dropped during the
pause leaves it due.

**MobileLogin.** `DeliveredOnce` speaks of what was taken; a repetition reaches the
client over the wire. `View` is what is still to be dealt with, the packet being
acknowledged included. `TakenInv`: a QoS 2 message that was taken is neither on the
view nor in the table of identifiers. For that to survive a PUBREL and a new PUBLISH
with the same identifier, the order of both on the view counts (`UnseenInv`,
`SentInv`): behind a PUBREL there is only a PUBLISH nobody has seen, and the broker
uses an identifier for one message at a time (`HandshakeInv`). `LossInv` says where
every message that was read is, and what the broker's handshake says of it;
`EventsInv` ties the list of events and the exchanges to the step of the attempt.

**Pages.** `WalkInv`: what a host has seen is the list up to the next offset, and every
turn moved the offset by one row at least, hence `turns <= offset`. `PagerInv`: the
parameters of the next page are those after the last answer.

**Media.** `FetchInv` says what the loop knows before its next request: every quality
that is no longer left was refused for lack of rights, and the one being tried is the
least of those left. That the least exists is proved by well-founded induction, in
its form for sets (`WFMin`).

**Qmc.** `decrypted` says where each byte took its mask from. `WholeInv`: it is `Masks`, a
closed form in which the mask depends on the position alone. That the loop over the
segments computes this form (`SegmentsAre`) is an induction on the bytes left: a piece
ends where the segment does (`PieceSize`), so all of it is of one segment (`PieceMasks`).
The key stream itself is not looked into; what matters is which of its bytes is used.

**MqttPackets.** `FrameInv`: the buffer and the wire together are the packets sent and
not yet read, one after the other (`Framed`, with the position each begins at as the
witness). A message moves bytes from the wire to the buffer and leaves their
concatenation alone (`MessageStep`, `Parted`); a packet that is read is cut off its head
(`ReadStep`, `RestJoined`). What `read_varint` makes of the bytes at hand is the length
of the packet at the head or nothing (`HeadRead`): no byte before the last is unmarked,
so a length that was read is whole, and it is the one that was encoded (`Coding`).
`BufferInv`: the buffer is refused for its size only if more is in it than one packet
that is allowed, hence if a packet is too big or another one has begun (`TooMuch`): the
limit is that of one packet, and small packets in one message may exceed it.
Two assumptions on constants: the radix is more than one, and
the longest form `read_varint` accepts is enough for every packet that is allowed
(`VarintsSuffice`; in the code four bytes of 7 bits for `MAX_MQTT_PACKET_SIZE`).

**Lyrics.** The parsers are loops; `LoopKeeps` is the rule for them: what every turn
keeps, the end has. It gives the type of the lines that are read, and, with
`InsertOrdered`, that `ByTime` orders them. `line_at` stops at the first line that is
later (`LineAtStops`); in an ordered text no line behind that one has begun
(`LastBegun`), and a line of the player ends no later than any later one begins (`EarlierEnded`).

**Recursive definitions.** A recursive function is a CHOOSE; that it satisfies its
equation needs a function that does. For `Segments` the closed form is one; for
`EncodeVarint`, `Value` and `Loop` the lemma `Recursion` gives one, for steps that are
functions.
What they compute is then shown by `FromZero`, well-founded induction in its form for
sets (`WFMin`): the induction theorems of the library take operators and cannot be
instantiated.

**Model-checked only.** Liveness (`CallsEnd`, `EveryCallEnds`), which needs fairness and
ENABLED, is out of the prover's reach. Every safety property of the passing runs is proved.

## 5. Disagreements with the documentation

- `GetSessionBound`: `docs/architecture.md:30` promises that a GetSession
  request is bound to the epoch it starts from. `qimei_for_snapshot` compares
  the epochs and then reads the QIMEI of the *current* device, so a replacement
  in between makes GetSession carry the old device with the new QIMEI. The
  answer is dropped afterwards, so `OneDevice` and `NoWriteBack` hold all the
  same.
- `InvalidationSticks`: `src/modules/login.rs:478` says that after
  `invalidate_session` sessions applied for under the old authentication are not
  usable. A GetSession in flight at that moment is inserted into the cache
  afterwards: `session_for` compares the device epoch only.
- `NotSwitchedBack`: `src/credential_store.rs:359` says that `ensure_current`
  does not set the Client back to an account that is no longer the current one.
  It compares under the lock of the store and sets the Client after it, so a
  switch in between is undone.
- No run is about `src/credential_store.rs:308`, which says that lock entries
  nobody waits for are removed: they stay when a future is dropped at an await,
  or when two callers reach the clean-up together. The model has both cases;
  what is refreshed does not depend on them.
- `LifetimeBounded`: `src/modules/login.rs:642` calls `timeout` the limit of the
  whole life of a phone QR code. The deadline is set after `connect` and `subscribe`,
  which wait for CONNACK and SUBACK without any limit: a broker that accepts the
  connection and falls silent keeps the caller waiting.
- No run is about `docs/modules.md:463`, which says that the steps of the desktop QR
  that are no polls are not replayed. `create_desktop_qr` is a safe read by default
  (`src/auth.rs:445`, `src/client.rs:141`): after a lost answer the transport asks for a
  second challenge (`Replays`). The other steps are as the document says.
- No run is about `docs/architecture.md:57`, which says that QR and cookie exchanges do
  not follow redirects. The code exchange leaves them at the default (`src/auth.rs:81`,
  `src/client.rs:142`): a 307 or 308 of its origin makes the transport send the code
  again. The model has that step (`Redirected`), and `CodeNotReplayed` says that nothing
  else makes the code go out a second time.
- `OneIdentity`: `src/context.rs:504` says that a method which needs the default
  account must capture it once, at its entry. `get_song_urls`, `raw_get_url_vkey`,
  `fav_songlist` and `unfav_songlist` read it for a parameter and pass `None` on;
  `request_cgi` reads it again. A switch in between makes the parameters name one
  account and the request another.
- `WrittenBack`: `src/lyric_parser.rs:48` renders lines back to LRC text. It writes
  times the offset has already been applied to (line 14), together with the offset
  tag, so that reading the text applies it a second time.

## 6. Not modelled, and what is left

Not modelled, because they hold no state and decide nothing the properties tell
apart: the facade's builders (`client.rs`), the constants of `versioning.rs`, random
device identifiers and the QIMEI payload, response models and JSON paths, digests,
signing, triple DES, QRC by words and LYS, the derivation of QMC keys, MQTT
properties, COS signatures, the formatting of headers and URLs. What they contribute
to the control of a call is an outcome there: a reply is accepted, refused or vague.
Below the temporary file and the rename the file backend is taken as all or nothing.

Not composed: `CredentialStore` with `ApiContext`, whose states multiply. A refresh
dropped between its commit and `invalidate_session` leaves the old session cached;
the drop is in one model, the cache in the other. `logout` clears the credential of
the client after its request has returned, also one that was set meanwhile: the step
is in `Endpoints`, no promise of the repository forbids it.

Left to do:

A composition of `logout` and `refresh` with the session cache, with
`InvalidationSticks` as its question.
