# A TLA+ model of CipherPass

CipherPass (`src/`) is a Go server for digital driving credentials. Drivers
register, log in and show rotating QR codes; officers scan them; administrators
invite staff and issue licences that are recorded on a blockchain and in a
shadow Merkle tree. All state but the rate limiter's is in MongoDB, and every
HTTP request is a goroutine. The code uses no transactions: what two requests
may do to each other is decided by the filters of single updates, and that is
what this project is about.

## Inventory

| Part | State | Operations | Hard behaviour | What makes it correct |
|---|---|---|---|---|
| QR credentials (`internal/qrcredentials`) | `qr_active_tokens`: one slot per driver with nonce and `consumed_at` | `RefreshToken` upserts the slot, `VerifyToken` checks signature, age, nonce, and consumes the slot | read, compare and update are separate calls; refreshes and scans interleave; whole-second issue times; writes that are applied and still fail | an upsert pays for one scan, a dead token stays dead, a refusal has its cause |
| Sessions (`jwt.go`, `sessions.go`, `password.go`) | `refresh_tokens`, `users.password_hash` | login, refresh with rotation and reuse detection, logout, session deletion, password change | rotation races with sign-outs; sign-out failures are only logged | a revoked token yields nothing, a password change signs old sessions out, users touch only their own sessions |
| Login lockout (`service.go`) | `failed_login_attempts`, `locked_until` | `Authenticate` | counter written back from a read made before bcrypt ran | no lock before a row of failures unless the counter was carried over, a lock holds, as many failures as the limit lock unless one was not counted |
| Accounts and email codes (`service.go`, `email_verify.go`) | `users`, `email_verifications` | register, generate, verify, resend | code marked used before the user is updated; codes shared by all users under one unique index, and looked up without a user | one account per address; a used or replaced code does nothing; a stored code finds only its own document |
| Invitations (`invite.go`) | `invite_tokens` | create, accept | marked before the account is created; two acceptances at once; a stop between the two | one account per invitation, staff roles only by invitation, an invitation is lost for known causes only |
| Password reset codes (`password.go`) | `password_resets` | forgot, reset | check-then-mark without a condition | a used code changed a password or was lost to an error |
| Phone codes (`otp.go`) | `phone_otps` | send, verify, rate limit | attempts compared before they are counted; the limit counts documents that sending deletes | guesses beyond the limit only by overlap |
| Multi-factor login (`mfa.go`, `handler_ext.go`) | `users.mfa_*` | setup, confirm, verify, disable | unconditional writes after checks on an older read | sessions only with the factor the account had, staff without one only on accepting; a factor goes only with its code |
| Licence issuance (`chain/service.go`) | chain, `license_leaves` | `IssueLicense` | transaction, document and tree written in turn; a nonce read before it is used; restarts | the answer says whether the transaction was taken, and nothing else decides it; only licences that were sent are recorded |
| Shadow Merkle tree (`chain/service.go`, `hashing.go`) | `shadow_merkle_nodes`, `shadow_merkle_state` | `insertIntoShadowTree`, paths | interleaved path updates | the root is that of one tree of leaves, served paths prove it |
| Event listener (`chain/listener.go`) | `chain_event_sync` | poll, handle | failed events skipped, cursor, restarts | the cursor covers only delivered events, every event is handled |
| Rate limiter (`server/ratelimit.go`) | in-memory windows | `Allow`, `cleanup` | window boundary, cleanup | at most `limit` per window |
| Vehicles (`vehicle/service.go`) | `vehicles` | add, list | unique plate index | one vehicle per plate |
| Email delivery, HTTP server, middleware, configuration, chain client and signer, commands, bindings | none of their own | I/O and wiring | | |

The parts meet in the database and in a few calls: the scan handler calls
`VerifyToken`; login calls `Authenticate` and then `GenerateTokenPair`, or goes
through the second factor first; password change and reset end in
`RevokeAllUserTokens`; accepting an invitation creates an account and a session;
the listener updates the documents that issuance inserted. The tables under
`migrations/` belong to an earlier PostgreSQL version; only MongoDB is used.

## Plan

Written:

1. `VerificationPermits`, `QRCredentials`, `MCQRCredentials`, `QRCredentials_proofs`
2. `Sessions`, `MCSessions`, `Sessions_proofs`
3. `Lockout`, `MCLockout`, `Lockout_proofs`
4. `LicenseRecords`, `ShadowTree`, `MCShadowTree`
5. `LicenseLeaves`, `LicenseIssuance` (extends `ShadowTree` and `LicenseLeaves`),
   `MCLicenseIssuance`
6. `EventListener` (extends `LicenseLeaves`), `MCEventListener`; `Chain_proofs`, the
   proofs about 4 to 6
7. `Directory`, `Accounts`, `MCAccounts`, `Accounts_proofs`: accounts and
   invitations, refining what they promise.
8. `EmailCodes` (verification and reset codes), `MCEmailCodes`, `EmailCodes_proofs`;
   `PhoneCodes`, `MCPhoneCodes`, `PhoneCodes_proofs`.
9. `MFA`, `MCMFA`, `MFA_proofs`.

Left:

10. Composition of `Lockout`, `MFA` and `Sessions` through the login handler; of
    `LicenseIssuance` and `EventListener` through the chain and the documents.
    The modules state what each part needs of the next (`Sessions` starts a
    login at the accepted password, `MFA` at the same point; `EventListener`
    has the insert of an issuance as an action), so composing them adds states
    and few new behaviours.

## Modules and the code

**VerificationPermits** is what officers and drivers rely on: a refresh grants a
driver's credential a permit, a passing scan spends it.

**QRCredentials** has one action per step between database calls.
`RefreshSign`, `RefreshUpsert` and `RefreshFail` are `RefreshToken`;
`VerifyReject` and `VerifyDecode` are the checks of `VerifyToken` before the
database, `VerifyRead` its `FindOne` with the comparison that follows, and
`VerifyConsume` its conditional update, which does not name the nonce.
`slot[c]` is the document of a driver; a token is named by the refresh that made
it, and `Forged` is any string without a valid signature. `Tick` also sets the clock back,
as a clock correction does. `stored`, `spent` and some fields of a scan are
history.

**Sessions** has one action per database write. `session[r]` is the document
that request `r` inserted; `request[r]` is where the request stands.
`Login` ends with the password check and `Mint` inserts, as every route to a
session does; `RefreshArrive`, `RefreshLookup`, `RefreshRotate` and
`RefreshReuse` are `RefreshAccessToken`; `ChangeStart`, `ChangeWrite` and
`ChangeSignOut` are `ChangePassword`, and `ResetPassword` once its code was
accepted. `login` and `stale` are history: the password a session descends
from, and whether the token was revoked when the refresh arrived. `excused` is
history too: it names the reasons for which an old session may survive.
`LoggedIn` admits the MFA login token as well as an access token: both are
signed with one key, and the validator of one parses the other.

**Lockout** splits `Authenticate` at its read of the user and its write of the
counter; bcrypt runs between the two. `failures` (wrong passwords in a row),
`carried`, `locks` and `missed` are history; `carried` says that the stored
counter counts failures from before the last right password, because the reset
failed or a login that had read the user before it wrote its counter after it;
`missed` says that a wrong password was not counted: its write failed, or another
login wrote the counter between its read and its write.

**ShadowTree** has one action per database call of `insertIntoShadowTree`. A
hash is the term it was computed from, a leaf or a pair, so two hashes are equal
exactly when their trees are. `insertion[i]` is where the call of issuance `i`
stands, with its local variables; `node` holds the stored nodes by level and
position. `zeros`, `weight` (the shift `1 << level`) and `Path` are recursive
functions of the level. `disturbed` is history.

**LicenseRecords** and **LicenseLeaves** hold what these modules share: the names of
licence records, and the collection `license_leaves` with its documents and its
unique index.

**LicenseIssuance** is `IssueLicense` call by call; it extends `ShadowTree`, and its
last part is the insertion of the request's leaf (`StoreLeaf` begins it, `InsertLeaf`
takes its steps, `Restart` stops it). `Accept`
and `Mine` are external: a node that keeps pending transactions by nonce, drops
none and may let one replace another, and a contract that issues a leaf once. (A
real pool may evict a transaction; `CreatedOrReplaced` rests on one that does not.)
`Restart` stops
every request under way. `sent`, `lost` and `dbDown` are history.

**Accounts** is how accounts come to be: `Register` and `Bootstrap` look for the
address, `CreateUser` inserts under the unique index, `CreateInvite` stores an
invitation, and `AcceptRead`, `AcceptMark` and `CreateUser` accept one. A password
is short or `long`: the handlers ask for eight bytes at least, and bcrypt refuses
more than 72, which `CreateUser` answers like an error of the database. `Stop` is
the process stopping in the middle of a request; `why` is history. An
account and an invitation are named by the request that inserted them. Addresses
are compared as they are stored. An invitation whose answer was lost is left out:
only its hash is stored, so nobody can present it. The bootstrap command imports
packages it does not use and does not compile as it stands; the action is what
its code says.

**Directory** is what accounts promise, without requests or errors: anyone not a
member enrols as a driver, every staff role is a grant of an administrator that
one new member redeems once.

**EmailCodes** covers the two kinds of six-digit codes, which differ in the
collection and in what a good code does. `Register`, `Resend` and `Forgot` begin a
generation, `ResendCount`, `GenerateDelete` and `GenerateInsert` are its database
calls; `Arrive`, `Lookup`, `Mark` and `Apply` present a code. A document is named
by the request that inserted it, its value is one of `Codes`, so two documents may
have one value. The hour over which resends are counted is any subset of the
documents stored. `DeleteMany` is one step. What a new password does to sessions
is in `Sessions`.

**PhoneCodes** is one user's codes for the one purpose the routes use.
`SendCheck`, `SendDelete` and `SendInsert` are the send handler, `VerifyRead`,
`VerifyCount` and `VerifyMark` the other. Digits matter only in the comparison,
so its result is chosen there. `tally` and `messy` are history.

**MFA** is the second factor of one account: `Login` and `LoginReload` are the
branch of the login handler, `Verify` and `VerifyCode` the exchange of the MFA
login token, `AcceptInvite` the acceptance that creates an officer's or
administrator's account (its calls are in `Accounts`) and goes on to `Mint`,
`Confirm...` and `Disable...` the calls that enable and disable. A
TOTP code is named by the secret it was computed from; its time step is left
out, and with it the replay of a code within its step, which the code admits.
`during` is history, the factors the account had since a request arrived, and so is
`founder`, the acceptance that created the account.

**EventListener** is the polling goroutine: `Poll` fetches, `Handle` and
`HandleFails` work through the logs, `SyncCursor` stores the cursor. `NewBlock`
is the chain and `Issue` the insert of an issuance.

The structs of `chain/models.go` have no `bson` tags. The MongoDB driver then
names a field after the Go field in lower case (`keccak256leaf`, `nextindex`,
`lastblock`), while filters, updates and indexes are written by hand with
underscores. The documents of the chain side have both names, and each
definition uses the one its line uses.

In the modules on requests and the database alone, a crash is a request that
never takes its next step. Only `Accounts` has an action for it, because a
property there speaks of what a request is still about to do. A write that reports
an error may have been applied or not; both outcomes are modelled.
Random nonces, session tokens and document ids are taken never to repeat, HMAC and
bcrypt never to be fooled.

## Runs

| Run | Question | Instance |
|---|---|---|
| `qr_races` | do interleaved refreshes and scans keep permits, tokens, refusals and the time check right | 2 drivers, 2 refreshes, 3 scans, 2 ticks a second, TTL 1 s, 4 clock values |
| `qr_first_scan_wins` | does the first scan win (no) | 1 driver, 2 refreshes, 2 scans |
| `sessions` | revoked tokens, old passwords, users apart | 2 users, 4 requests |
| `lockout` | when is an account locked, when not, who lifts a lock | 5 logins, limit 2, lock of 2 ticks, 4 clock values |
| `licence_issue` | what do answers, documents and the root say of transactions; of which tree is the root, which paths prove it | 2 requests, 2 licences, depth 3 |
| `tree_adds_leaf` | is every leaf added to the tree (no) | 2 insertions, 2 leaves, depth 2 |
| `licence_documents` | is every created licence stored (no) | 2 requests, 2 licences, depth 2 |
| `listener` | is the stored cursor right, is every event handled | 3 events, 2 blocks, fair |
| `accounts` | who gets an account, what is an invitation worth | 3 addresses, 4 requests |
| `email_codes` | what does a code do, to whom; when is a resend refused | 2 users, 2 code values, 4 requests, limit 2 |
| `phone_codes` | how often can a code be guessed; when is sending refused | 5 requests, 2 attempts, limit 2 |
| `mfa` | which sessions come of which factor; who changes the factor | 5 requests, 2 secrets |

The bounds count requests, each of which runs once. Three scans and two
refreshes are enough for two scans to race with a refresh while a third follows, and
for a token to be replaced before, between or after the two calls of a scan; four clock values, two
ticks a second and a TTL of one second let a token be issued within a second, pass
at its last tick, expire, and meet a clock that was set back; four session requests
are enough for a login, a rotation, a reuse and a password change to overlap; the lockout limit is 2 so that the counter is passed, read stale and
reset within five logins, and so that a reset that failed can be followed by a row.
Two requests share a nonce, a licence or a tree path, each of which may overwrite
half of the other's; a third would only repeat it. Depth 3 is the least with an
inner level whose parent is not the root. Two blocks and three events give a batch two
blocks and one of them two logs, while the other is still to come. Four
account requests and three addresses are the bootstrap, an invitation by the
administrator it made, and two requests that race for it with the address of one
or of both (longer chains, where the invited administrator invites, are left to
the proof). Two code values and two
users let every collision happen; four requests are two generations that
overlap and two presentations, or a generation, a presentation and a second
generation that takes the value again. Five phone requests are a send and four
guesses, twice the limit, or sends that overlap around guesses; the limits are 2
(3 in the code) so that they are reached. Five factor requests are two
confirmations that race, one that disables, and a login with its second step, or
the acceptance that creates the account and what follows it. The proofs have no
bounds. Requests are one-shot and the system stops
when all are answered, so deadlock is not checked. Symmetry is used over names
that are only compared; no run with symmetry checks a liveness property.

The properties that hold:

- `OneScanPerUpsert`: between two refreshes one scan at most consumes the slot.
- `StaleTokenRefused`: a token that was verified or replaced before a scan
  arrives is not verified by it.
- `RefusalHasCause`: "already used" and "not active" are never answered without
  another scan or refresh to blame.
- `ExpiryWindow`: what passes the time check is at most TTL old; what is
  refused as expired is older than TTL less one second.
- `ImplementsPermits`: refinement of `VerificationPermits`.
- `RevokedTokenMintsNothing`: a refresh with a token revoked before it arrives
  gets no session.
- `OldPasswordSignedOut`: after a password change every live session descends
  from the new password, unless its sign-out is still to run, failed, or was
  overtaken by a login or refresh in flight.
- `OwnSessionsOnly`: a request changes sessions of its own user only.
- `LockedOnlyAfterARow`: a lock is written after as many wrong passwords in a row as
  the limit. Fewer do it only with a counter carried over a right password: its
  reset failed, or a login that had read the user before it wrote after it.
- `LockedUnlessMissed`: as many wrong passwords in a row as the limit lock the
  account, unless one of them was not counted.
- `LiftedOnlyByEarlierLogin`: a running lock is lifted only by a right password
  whose login had passed the gate before the lock was written.
- `RootIsOfOneTree`: however insertions interleave, fail or stop, the stored root is
  that of one tree with the leaves of some insertions, each at the index it read,
  and zeros elsewhere: never a mixture of two states of the tree.
- `ServedPathProves`: until insertions meet or fail, the path `GetShadowTreeSiblings`
  would serve for a stored leaf proves it against the stored root. (Nothing calls it
  yet.)
- `SentIsCreated`: "created" is answered for exactly the transactions that the
  node took and acknowledged.
- `RecordedWasSent`: the documents stored, and the leaves the root commits to, are of
  licences whose transaction the node took and acknowledged.
- `CreatedOrReplaced`: the nonce of a licence answered as created is used, by its
  transaction or by one of another issuance that read the same nonce.
- `OneAccountPerInvitation`, `StaffInvited`: no invitation makes two accounts, and
  no chain of accounts and invitations reaches a staff role that no administrator
  granted.
- `LostInvitationHasCause`: an accepted invitation without an account is about to
  get one, or was lost after the mark: to a database error, a stop of the process, a
  taken address, or a password of more than 72 bytes, which the handler lets pass
  (`handler.go:394`) and bcrypt refuses every time (`service.go:71`).
- `ImplementsDirectory`: refinement of `Directory`.
- `StaleCodeRefused`: a code that was used or replaced before it is presented does
  nothing by itself; its value may be that of a later code.
- `OtherCodeNeedsDeletion`: while an emailed code's document is stored, its value
  finds no other user's document. (After it is deleted, it may: codes are looked
  up by value alone.)
- `SpentCodeTookEffect`: a used code verified a user or set a password, is about
  to, or met a database error.
- `LimitNeedsOverlap`: a client that asks for codes one after the other is never
  refused, since each generation deletes what the limit counts; overlap, failed
  deletions or used codes are needed.
- `GuessBound`: guesses exceed the limit only by as many as were under way at once,
  and by increments that failed.
- `LimitCountsVerified`: sends one after the other are refused only to a user who
  has verified all but one of the codes counted.
- `SessionHadFactor`: a session was minted for a code of the factor that the account
  had while the request ran, or for its absence. Without a factor it is a driver's,
  or the one that accepting an invitation gives a new officer or administrator
  (`handler.go:403`); no login of staff gets one.
- `SecretReplacedOnlyByRace`: an enabled factor is replaced only by a confirmation
  that raced with the one that enabled it.
- `DisabledOnlyWithItsCode`: a factor is disabled only by a request with a code of
  it, or of one that was replaced while the request ran.
- `CursorCovers`: every event up to the stored cursor was given to the handler.
- `CursorMonotone`: the stored cursor never goes back.
- `EventsHandled` (liveness): every event is in the end handled without error. It
  holds because every poll starts over at block 1, which is itself against the
  comment of the function (`chain/listener.go:64`, "since the last synced block"): with a cursor that is read back, an
  event passed over would be lost.

Three claims that do not hold have runs of their own:

- `FirstScanWins` (`qrcredentials/service.go:195`). Scans 1 and 2 read the slot
  unconsumed and match; scan 1 consumes it; the driver's app refreshes, which
  unsets `consumed_at`; scan 2 consumes the new upsert with the old token. Both
  verify one token, and the token just shown is spent unseen.
- `EveryLeafAdded` (`chain/service.go:310`, "adds a new leaf to the shadow Merkle
  tree"). The next index is written as `next_index` and read as `nextindex`, so it is
  never read back: a second insertion, after the first is done and without any
  error, works at index 0 too and overwrites its leaf.
- `EveryLicenceStored` (`chain/service.go:94`, "issues a new license on-chain and
  stores the dual-hash"; `:147` and `chain/handler.go:86` say the same). The unique
  index is on `keccak256_leaf`, which no document has: the second insert is a
  duplicate of null, fails and is only logged. The licence is answered as created
  and has no document.

Other comments say more than the code does. A property that holds says what
remains, where the matter is more than a reading:

- "locks the account after 5 consecutive failures" (`auth/service.go:180`): more may
  pass, since concurrent failures overwrite each other's count
  (`LockedUnlessMissed`), and fewer may do, since a reset that fails is only logged
  and a late write from an older read brings back a count that was reset
  (`LockedOnlyAfterARow`).
- "multi-factor authentication is required for your role" (`auth/errors.go:57`,
  `auth/mfa.go:146`): of logins only; accepting an invitation answers a staff
  session at once (`SessionHadFactor`).
- "License issued on-chain" (`chain/handler.go:146`): of two transactions with one
  nonce the node keeps one (`CreatedOrReplaced`); this needs a gas price that rises
  enough between two suggestions.
- "The event listener will update leaf_index and on_chain_root" (`chain/service.go:148`): the filter
  names `keccak256_leaf`, which no document has, so the update matches nothing.
- "since the last synced block" (`chain/listener.go:64`): the cursor is never read
  back.
- `VerifyToken` documents a check that the credential is active
  (`qrcredentials/service.go:124`) and does not make it.
- `encodeTime` drops the fraction of a second, so a token may expire up to a second
  before `TokenTTL` is over (`ExpiryWindow`).
- `BlockConfirmations` (`config/config.go:56`) is configured and never used.
- the rate limiter calls its windows sliding (`server/ratelimit.go:11`); they are
  fixed, so twice the limit may pass around a boundary. No route uses it.

## Fairness

Only the event listener has liveness properties. `ListenerFairSpec` assumes weak fairness
of `Poll`, of the handling of the next log and of `SyncCursor`: the ticker of
`pollLoop` fires for ever, an error of one poll does not end the loop, and the
loop over the logs always goes on. It assumes strong fairness of the handling of
each event without error: handlings may fail any number of times, and the
process may restart any number of times, as long as the database answers again
and again when that event's turn comes. This is an assumption on the database,
not on the code. Weak fairness of `Poll` also assumes that the chain answers a poll
in the end. Nothing is assumed of new blocks or of issuance. The other
properties are safety properties and need no fairness.

## Proofs

Checked by TLAPS for all values of the constants that satisfy
`QRAssumption`, `SessionsAssumption`, `LockoutAssumption`,
`LicenseRecordsAssumption`, `ShadowTreeAssumption`, `EventListenerAssumption`,
`AccountsAssumption`, `MFAAssumption`, `EmailCodesAssumption` and
`PhoneCodesAssumption` (kinds of the numbers, distinctness of the special values;
for email and phone codes, that the requests are finitely many, since the limits
are about how many documents they leave).

- `QRCredentials_proofs`: type correctness, `OneScanPerUpsert`,
  `StaleTokenRefused`, `RefusalHasCause`, `ExpiryWindow` and the refinement.
  The invariant `IInv` adds to these that a slot's nonce was stored
  (`SlotInv`, `StoredInv`), that a slot is consumed exactly when its upsert is
  spent (`SpentInv`), and what a scan past its read knows (`ScanInv`): without
  it the update, which does not name the nonce, could not be related to the
  token. The proof goes action by action.
- `Sessions_proofs`: type correctness and the three properties. `IInv` adds
  `MintInv` (only a finished request has minted), `FromInv` (a refresh works on
  an existing session of its user), `StaleInv` (a stale refresh is on its way to
  a refusal) and `InFlightInv`: a request about to mint for an old password is
  already excused or will be swept. The last is what makes
  `OldPasswordSignedOut` inductive when `Mint` runs.
- `Lockout_proofs`: type correctness and the three properties. `CounterInv` bounds
  every counter, stored or held by a login, by the failures in a row unless it was
  carried over a right password;
  `GateInv` says a login past the gate saw no running lock unless one was
  written since; `CoverInv` that the stored counter is at least the number of
  failures in a row unless one was missed.
- `Chain_proofs` has the chain side in three parts.
  The shadow tree, for any depth: type correctness, `RootIsOfOneTree` and
  `ServedPathProves`. They speak of hashes built by recursion over the levels, so the
  module first proves, by induction from the least number, that `zeros`, `weight`,
  `Path` and `Rows` satisfy their equations at every level, that a shift is never 0 and
  that every bit of index 0 is. `CallsInv` says that every insertion works at
  index 0 and holds at each level the hash `Climb` gives for its own leaf and the
  empty siblings, never one of another insertion's; `StoreInv` that nodes are
  stored at position 0 only, which is why every sibling read is empty and why the
  hashes are those of one leaf; `RootInv` that the root is such a hash of an
  insertion that has begun; `RootOfOne` that such a hash is the root of the tree of
  that one leaf, computed row by row; `SerialInv` that insertions one after the other leave the
  leaf of the one under way, or of the one that wrote the root.
  Issuance: type correctness, `SentIsCreated`, `CreatedOrReplaced`,
  `RecordedWasSent`, and that issuance implements `ShadowTree`:
  each of its steps is a step of an insertion or leaves the tree alone, so what
  holds of the tree holds here. `PhaseInv` says what each place in the handler knows
  of the transaction: none taken before `Send`, one taken and acknowledged after it.
  `DocumentInv` says that a document is of a request whose transaction was taken and
  acknowledged; `ChainInv` that the transaction at each place of
  the chain has that place as nonce, so that a replacement keeps it. `LinkInv` says
  that an insertion that has begun is that of such a request, with its leaf: with
  `RootInv` and `RootOfOne` it gives `RecordedWasSent`.
  The event listener: type correctness, `CursorCovers` and `CursorMonotone`.
  `BatchInv` says that while a batch is handled every event up to its last block
  is delivered or still in it, and that the cursor is not ahead of it; `CursorInv`
  that the cursor is the block of an event, so that a new block, or a new batch
  that reaches to the last event, is not behind it.
- `Accounts_proofs`: type correctness, the three properties and the refinement.
  `FlightInv` says what a request past the read of an invitation knows of it,
  `AccountInv` that an account is what its request asked for; `OneHolder` and
  `OpenInv` that one request at most is past the mark of an invitation, and none
  while it is open: this is what the condition of the update gives. `InviterInv`
  and `RootInv` carry the chain of grants back to a super administrator.
- `MFA_proofs`: type correctness and the three properties. `FactorInv` says that a
  secret is stored exactly while the factor is enabled; `StageInv` that `during`
  holds the present factor of every request under way, and what each place in a
  handler has seen of it; `AbsentInv` that nothing is under way on an account that is
  not there yet, so that the acceptance that creates it sees it without a factor.
- `PhoneCodes_proofs`: type correctness and the two properties. `TallyInv` says
  that the guesses under way at a code are as many as the requests between their
  read and their count, that with these the guesses stay under the bound, and
  that a stored code counts every guess but the lost ones: this is what makes
  the bound inductive when a guess passes the check. `CleanInv` says that while
  sends neither overlap nor fail one code at most is live, and none when a new
  one is due; the limit then counts verified codes and one more. `FoundInv` and
  `AbsentInv` say that guesses work on codes that were inserted.
- `EmailCodes_proofs`: type correctness and the four properties. `DocsInv` says that
  a document's request is done, so that its kind and user are settled; `UniqueInv` is
  the unique index; `LinkInv` what a request knows of the document it holds the email
  of and of the one it found: both were inserted, have its kind, and the first has
  its value. With the index this gives `OtherCodeNeedsDeletion` at the lookup, and
  later steps keep it because a deleted document stays deleted. `OneLiveInv` says
  that a user whose generations neither overlapped nor failed has one live code
  or one insert to come, never two; what a resend counts is then used codes and one
  more. `StepInv` proves once what every step but an insert and an expiry needs.

Only model-checked: `EventsHandled`, which is liveness. The violated claims are
counterexamples and need no proof.

## Not modelled

The rate limiter: fixed windows in memory behind one mutex, and no route uses it,
so nothing the program does depends on it. Vehicles: one insert under a unique
plate index and two reads, no step of which meets another. Email delivery (a
failure to send is an outcome in `EmailCodes`), HTTP routing and middleware
(stateless; the panic of the scan handler on a database error is an answer of
failure here), configuration and start-up, the chain client, the signer and the
ABI bindings (external; no reorganisations of the chain), the server command and
`verify_user`, the endpoints that only read, and functions without callers
(`IsTokenActive`, `RevokeRefreshToken`, `UpdateSessionLastUsed`,
`CleanExpiredSessions`, `SyncToBlock`, `AnchorAuditBatch`, `ComputeMerkleRoot`,
`GetMFASecret`, `GenerateMFABackupCodes`; `GetShadowTreeSiblings` has no caller either
and is modelled, because a property says what it would serve). An access token carries its claims for
fifteen minutes and is not looked up again, so access control is a guard in the
modules that have routes behind it. Wording, hashing and encoding
are abstracted except where a property is about them: the issue time of a token.
