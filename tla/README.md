# KVM-RS in TLA+

TLA+ models of the parts of KVM-RS whose correctness depends on how threads,
tasks, processes and machines interleave, with TLC configurations that check
them on small instances and TLAPS proofs, for every instance, of everything
they check except liveness (some under hypotheses, which section 5 gives).
`PROJECT.json` maps each definition to the lines it models.

Contents: 1 the system, 2 the modules, 3 the runs, 4 fairness, 5 the proofs,
6 disagreements between code and documentation, 7 what is left out, 8 the plan.

## 1. The system

A *server* shares its keyboard and mouse with *clients* over TLS; files and
clipboard text travel beside them.  `src/common` is the wire protocol,
`src/server`, `src/client` and `src/ui` are the programs.

| component | state | operations | talks to |
|---|---|---|---|
| control server (`server.rs`) | registry of outbound channels, `forwarding_enabled`, pending permits, paired devices | accept, TLS, Hello, pair, register, serve, unregister, ctrl_c | clients by envelopes, capture by a channel and the flag, config by a lock |
| input capture (`capture.rs`, `hotkey.rs`) | pressed and swallowed keys, pointer position, debounce | one callback per event: recognise the chord, flip the flag, send | the server's forwarder task by a channel; the flag is shared |
| pairing rate limiter (`server.rs`) | failures and lockout per address | check, record | handlers and SOCKS5 tasks, each under a mutex per access |
| SOCKS5 proxy (`socks5.rs`) | a rate limiter of its own | negotiate, connect, relay | one task per connection |
| file channel (`file_transfer.rs`, both ends) | permits, downloads directory, `.part` files | pair, offer, resume, receive, verify, promote | concurrent handlers share the directory |
| clipboard (`server.rs`, `clipboard.rs`) | the machine's clipboard, `last_seen` | poll and send, receive and apply | a thread on each machine, through sessions |
| client session (`session.rs`, `inject.rs`) | held keys, retry delay | connect, handshake, receive, release, retry | server by envelopes, UI by events and commands |
| client configuration (`config.rs`, `tls.rs`) | `client.toml`: secret, pinned certificate | load, save, forget | shared by all programs of a user |
| desktop UI (`ui/src/main.rs`) | session, generation, forwarding flag | connect, disconnect, toggle, reconnect, copy events | commands and tasks share `AppState` |
| server configuration (`config.rs`, `main.rs`) | `server.toml` with the paired devices | load, save, `--revoke`, `--list-paired` | a running server writes it too |
| server certificate (`tls.rs`) | `server.crt`, `server.key` | generate unless both are there, load | clients pin it |
| wire protocol (`common`) | bytes of a frame half read | frame, serialise, read | everything |
| discovery, addresses, displays, command lines | none that lasts | library calls and parsing | |

What is hard in it, and what makes each part correct:

* *Forwarding.*  The capture thread, the forwarder task and every handler read
  and write one flag and broadcast to one registry, each in several steps.  No
  key may stay down on a client after forwarding went off, a client must be
  told the truth, and nothing may follow a Goodbye.
* *Connections.*  Every early return of the handshake must give its permit
  back; the registry must be exactly the clients being served, paired ones
  only; a peer that stalls or falls silent must be let go; `auto_forward` must
  follow the first and the last client.
* *Lockout.*  Check and record are separate critical sections.
* *Files.*  Broken transfers leave a `.part` that any later one resumes;
  handlers of one name work on one file; what was confirmed must be there,
  whole, and stay.
* *Clipboard.*  Two pollers that set what they poll must not answer each other
  for ever, and a copy must arrive.
* *Client.*  The identity and the pin must survive failed attempts, crashes
  and restarts, and retries must not end.
* *UI.*  Overlapping connects, disconnects and reconnects must leave one
  session, the one the user can stop.
* *Capture.*  A key that is up must not stay down for the machine's own
  programs, and only the user's motion may be forwarded, though the callback
  itself moves the pointer.
* *Wire.*  A read is one arm of a `select!` and may be dropped half way; what
  the session acts on must still be what was sent, in order.
* *Files on disk.*  Every save truncates first, two programs save without a
  lock, and a crash may come between any two steps.

The hazards behind these are listed with their lines in `PROJECT.json`.

## 2. The modules

Each module has its state as variables, one action per step that others can
interleave with, a type invariant and its properties.  An operator introduced
by a comment `Mutant:` is a wrong version of the action that follows it: put
in its place it makes TLC report the property it is listed with, which shows
that the property depends on that code.

**Server** follows one task per accepted connection through `run_server` and
`handle_client`; `pc` is where the task stands.  Each access to the semaphore,
the config lock, the registry mutex and the flag is a step.  A rate limited
address, a wrong version, an error or an unexpected envelope are
`HandshakeRefused`.  The capture thread appears as the two steps of the hotkey
on the flag.  Peers may fall silent and come back; ctrl_c (`Shutdown`) stops
everything.  What handlers send is not here but in Forwarding.

**Forwarding** is the pipeline of keys: capture callback (`ChordPress`,
`KeyPress`, `KeyRelease`, `HotkeyStore`, `Dispatch`), forwarder task
(`Forward`, `ForwardAnnounce`: an off toggle is two broadcasts), handlers
(`Join` to `SayGoodbye`) and clients (`Receive`, `CloseSession`).  A
connection's channel, writer and socket are one FIFO queue.  The two key tables
are constants, so that keys without a code on the client and two keys with one
injected key (left and right Alt) are covered.  Buttons are keys in no chord.
`eaten` is a history variable: the keys whose press was swallowed and a repeat
of it forwarded, so that the release will be swallowed too.

**RateLimiter** is the entry of one address; entries of different addresses
never meet.  **Socks5** extends it with the tasks of the proxy: a task passes
`CheckPasses` when the client offers its methods, and gives its verdict
(`ProofMatches`, `RecordFailure`) when the credentials arrive.  Pairing uses
the limiter in the same order, and `KeepsLockoutProtocol` says that the proxy
implements `RateLimiter`'s specification.

**FileTransfer** has the directory as paths to inodes, so that a handler goes
on writing to the file it opened whatever it is called by now.  Each system
call on the directory is a step.  A file is a sequence of chunks, and its hash
is its content.  `crowded` is a history variable: the transfers whose `.part`
another running transfer used too.

A source that is cut short after it was hashed (`SourceShrinks`) leaves both
ends waiting (`"starved"`).

**Clipboard** has each machine's clipboard, which its user changes between any
two steps of the watcher, `last_seen`, and the queues between the watchers.
The watcher of a session that ended still applies what it was given (`old`),
beside that of the next session.  `missed` records that the last copy met
another on its way or is one a poll cannot notice, `by` who put the text
there.  A text that is empty, too long or no text at all is one value,
`Unsent`.

**UiSession** has the commands and the two tasks a connect spawns; each load
of `generation`, each access to `session` under its lock and each store of
`forwarding_active` is a step.  `orphaned` records sessions whose entry
another driver's cleanup removed, `late` that the flag was stored last by a
listener whose session was gone.

**ClientSession** has connectors that load `client.toml`, dial, pair, save, run
and wait, with a crash possible between any two steps and inside `fs::write`
(`CrashWriting`), and a save that cannot open the file (`SaveFails`) or fails
midway (`WriteFails`).  A file that does not parse is read in one step and
renamed in another (`MoveAway`); a program that has it open then writes to the
backup (`"astray"`).  `known` records the config saved last, until a torn write
or a rename destroys it, `stale` the programs whose copy was read while another
wrote the file.  A connector retries or, with `--no-reconnect` and
`--send-file`, connects once.  The UI's `forget_server` is a second writer.  The
server tests its lockout (`lockedOut`, which other machines behind the address
may cause) before it looks the device up, and when it returns it may have
another certificate or have lost devices it had accepted (`dropped`: revoked, or
never saved).  It may fall silent in the middle of the handshake (`"stalled"`).

**ServerStore** has `server.toml`, `server.crt` and `server.key` and two
processes of one program: the server, and an administrator's `--revoke` or
`--list-paired`.  A file is missing, empty, garbled or holds a value; every
`fs::write` is a truncation and a write, and one that is cut short may leave a
`server.toml` with fewer devices.  A save that fails is logged and the process
goes on.  `confirmed` and `revoked` record what
clients and administrators have been told, `torn` and `mixed` the two ways in
which that may be undone.

**Framing** is one connection from the server's outbound channel to the
client's `select!`: the writer task, frames cut into TLS records,
`read_envelope` with the records it has read so far (`part`), the keepalive
tick, and the other arms, each of which drops what has been read.  An arm that
sends awaits `send_envelope` in the loop: while the socket is full (`SendRoom`
frames that the server has not read) it waits in `write`, and no other arm is
polled.
**Channel** is what Forwarding and Clipboard take a connection to be: a queue
of whole messages that delivers in order until it breaks.  Framing implements
it under the mapping `queue <- Pending`, `open <- ~ended`.  `Pending` is the
messages whose last record is on the wire (`Complete`), the one in the writer
and those in the channel: a frame counts as long as its end is to come, however
much of it has been read.

**Capture** is the callback on the server's machine as Forwarding does not show
it: `parse_hotkey` (`ParseLoop` is what its loop holds after each word), the
pointer (`TakeForWarp`, `TakeForSeed`,
`TakeForMotion`, with the moves that are on their way to the callback), and the
keys that are down for local programs under grab (`local`).  `excused` are keys
whose release the code keeps from the machine, `stolen` users' moves that were
taken for a warp.

The theorems are in **ServerProofs**, **ForwardingProofs**, **LockoutProofs**
(RateLimiter and Socks5), **FileTransferProofs**, **UiSessionProofs**,
**ServerStoreProofs**, **CaptureClipboardProofs** and **FramingSessionProofs**.
The last two each hold the proofs about two components that have nothing to do
with each other; so that both can be extended, Clipboard and ClientSession call
their specifications `ClipSpec` and `ClientSpec`, and their unset values
`Unseen` and `Unset`.
The `MC*` modules name the values of the instances.

## 3. The runs

| run | instance | what it shows |
|---|---|---|
| `server` | 2 connections, 2 devices, 1 pending permit, auto_forward, toggles to either value, hotkey or none | permits conserved, registry = served clients, all paired, flag off when idle; pending slots are given back, silent peers dropped |
| `forwarding` | 1 client, hotkey key and two Alts, autorepeat, queues of 2 and 1 | held keys are down on the server or `eaten`, none when off, notices true, no press after off, told in the end |
| `forwarding_all` | 2 clients, the hotkey's key with autorepeat, auto_forward, off requests | Goodbye is last |
| `forwarding_stuck` (violation) | 1 client that toggles | section 6 |
| `socks5` | 3 connections, window 3, limit 3, clock to 8 | lockout covers its window, overshoot bounded, no second lockout from what one left, Socks5 implements RateLimiter |
| `file_transfer` | 3 transfers, 2 at once; two files of one name, one of another, one too big; a file that was there before | lone transfers delivered, final files kept, transfers end |
| `ui_session` | 3 calls, 1 press of the hotkey, 1 event in flight | superseded connects do not install themselves, only a cleanup orphans a session, an idle UI shows off |
| `client_session` | 1 connector and the UI, 2 secrets, 2 certificates, crashes, stalls, lockouts, lost devices, delays to 2 | identity and pin kept, rejected once paired only in the named cases, retries go on |
| `clipboard` | 2 clients, 2 texts and one not sent, 2 copies, 2 sessions, 1 failure | the last word is mirrored, no echo, comes to rest |
| `server_store` | 2 devices, 3 key pairs, server and administrator | revocations and pairings last, the certificate is kept, starts fail only after a torn write |
| `framing` | a key, a ping of the server, a text of 3 records, the client's pings, room for 1 frame | implements Channel; a silent server is left unless a write blocks |
| `capture` | hotkeys of up to 3 words; a key and both Ctrls; 4 pixels, 2 moves on their way | keys up locally, deltas are the user's, the hotkey is what its text lists |

Why the bounds are enough.  *Server*: two connections are a first and a last
client, one that joins while the other leaves, and one that waits for the
other's permit; more connections, and several in the handshake at once, are
covered by the theorems.  *Forwarding*: two Alts and the hotkey's key give every
order of chord, release, repeat and second modifier; a capture channel of two
holds an event and the toggle behind it, and a client's queue of one is full
after every envelope, which delays its sender and loses nothing.
In the code the queues are unbounded.  *Lockout*: three tasks overshoot a limit
of three in every way, and a clock of more than two windows contains a lockout
and what follows it.  *Files*: two transfers at once and a third after them are
the least that break, resume and collide; the second file of the name is shorter
than the first, and one is over the limit.  *UI*: a superseded, a superseding
and a third call.  *Client*: a delay of two reaches the cap, and a second
secret is what a lost identity is replaced by.  *Clipboard*: two
copies cross, two sessions are a reconnect or two clients.  *ServerStore*:
one device is revoked while the other stays; two starts may crash before the
third key pair is served, and a fourth is not needed because a served one is
kept.  *Framing*: a text of three records has a first, a middle and a last one
to drop, between inputs that are a record each; room for one frame makes the
second one wait; `OnTheWay` keeps pings and pongs finite.  *Capture*: three words hold two modifiers or names and a key, a
second key, a blank or an unknown word at every place; four pixels are two
edges and two places between them, and two moves on their way are a move before
and one after a warp.  The screen is scaled: the threshold of two pixels is the
outermost pixel, and `Capture` assumes only that the middle is away from the
edges.

Deadlock is checked in the forwarding runs, in `socks5` and in `capture`.  The
others may stop: connections, transfers, calls, copies, sessions, secrets and
key pairs are finite in them, and a client may be told to stop.

The type invariants of the modules other than Server and Forwarding are in no
run because they are proved (section 5).

## 4. Fairness

Weak fairness of the steps that a thread or task takes without its peer: the
runtimes poll every ready task, and OS threads are scheduled.  Timers
(`HandshakeTimeout`, `Watchdog`, the retry delay) fire.  Nothing is assumed of
users, of the keyboard, of peers or of the network, with these exceptions:

* a write to a silent peer is taken not to block a handler: the envelopes
  written in the handshake fit the socket's buffer;
* a reachable server answers a client (`ClientSession`) unless it stalls, which
  is a step of its own: the client reads its answers without a deadline;
* a client that still has a part of its file sends it (`FileTransfer`), unless
  its connection breaks or its source was cut short, which are steps too;
* the network delivers what a server that is there has written (`Framing`);
* `ToldInTheEnd` and `RetriesForEver` speak of clients that stay and servers
  that stay reachable;
* `Settles` speaks of users who stop copying, by the bound on copies.

`SilentServerIsLeft` needs the tick alone: a `select!` polls its arms in random
order, so a tick that is due is taken however much there is to read, as long as
the loop is at its `select!` at all.  `Tick` is not enabled while an arm waits
to write, so no fairness is assumed of it then.

## 5. The proofs

All theorems hold for any sets and bounds that meet the modules' assumptions,
which say that sets are finite where they are counted, numbers are numbers and
marks such as `None` are no values.  TLC checks them on every run.  Each
inductive invariant below also holds, as TLC confirms, on the instance of the
module's run; ClientSession's was also run with two connectors that take turns,
to a depth of 26 steps.

*Server* (`ServerProofs`).  `TypeOK`, `PermitsConserved`, `RegistryIsServing`,
`RegisteredArePaired` and `IdleMeansOff` are proved with one inductive
invariant, `IndInv`: their conjunction with `DeviceKnown`, which says that a
connection past its PairRequest has named a device and one that was accepted
has it on the list.  Permits are counted with the cardinality of the set of
holders: lemmas say that an action adds one holder, removes one or keeps the
set.  `IdleMeansOff` needs `RegistryIsServing`, because a task that toggles is
still in the registry, and is inductive only with "no handler owes its
swap(false)" in its premise.

*Forwarding* (`ForwardingProofs`), for every configuration: `TypeOK` and
`GoodbyeIsLast`, from `ConnInv`: the registry is determined by the places of
the handlers, an ended session has nothing in flight, a Goodbye is the last
envelope of its queue, and one is there only after the handler left the
registry.  Broadcasts, sends and receives have a lemma each.

*Forwarding by the hotkey* (`ForwardingProofs`).  When only the hotkey switches
forwarding (`HotkeyOnly`: no client asks, `auto_forward` is off),
`NothingStuckWhenOff`, `NoticeIsTruth` and `NoPressAfterOff` hold for any keys,
tables, chord and number of clients, and so does `HeldKeysAreDown`, which names
the keys in `eaten` as its exception.  The hypothesis is needed:
`forwarding_stuck` shows what a client's switch does.  The argument is one, `PipeAnswers(Q, A, Open)`: behind each of Q on
its way through the capture channel and a client's queue comes one of A, and
one is still to come for each client of Open, which one of Q has reached.  A
lemma per step says that it is kept, and it is used three times:

| invariant | Q | A | Open |
|---|---|---|---|
| `OffReleases`, while the flag is down | presses | Off, ReleaseAll, Goodbye | clients that hold a key |
| `LieIsCorrected` | the toggle that is false now | the toggle that is true | clients told the false one |
| `DownOrLetGo`, for a key that is up and not eaten | presses that inject it | its release, or what releases all | clients that hold it |

`NoPressAfterOff` is an action property and needs the order of what is under
way as well (`OrderInv`): a press comes after the On that allowed it, wherever
the two are.

*Lockout* (`LockoutProofs`).  `EnoughFailuresBlock`, `OvershootBounded` and
`CleanSlate`, for any number of tasks, limit and window.  The invariant is about
the newest failure: failures are on record in order of time, and once there are
enough, the lockout ends one window after the last.  `CleanSlate` rests on
`BeginningKept`: the failure that began a lockout, or extended it last, is on
record until a failure after its end drops it; what is left without it, and
with the new one, is short of the limit.  The recent failures and
the tasks that still prove cannot outgrow the bound, because a task only starts
to prove while fewer failures than the limit are recent.  `RetainSelects` shows
that the suffix of the record which `Retained` keeps is what the closure of
`retain` selects.  `ProxyKeepsProtocol` is the refinement: every step of Socks5
is a step of RateLimiter or leaves its variables alone; the lockout of the proxy
follows (`ProxyLocksOut`).

*UI* (`UiSessionProofs`).  `TypeOK`, `SessionIsCurrent`, `OnlyCleanupOrphans`
and `IdleShowsOff`, for any number of calls.  Generations are handed out once
(`GenerationsAreDistinct`), so one call at most finds the counter at its own.
`SessionIsCurrent` alone is not inductive: it allows an older call that has
still to take the session, and when that one is gone nothing is known.
`NewestOwnsSession` says it is the newest.

*Server's files* (`ServerStoreProofs`).  `TypeOK`, `RevokedNeedsPin`,
`PairingsSurvive`, `StartFailsOnlyTorn` and `CertKept`, for any devices and
supply of key pairs.  The invariant follows each copy of the paired list, in
memory and on file: no copy holds a revoked device, and every copy holds the
confirmed ones unless a write was torn or the processes overlapped.  A key pair
that was shown is on disk, and no start that was under way goes on to replace
it.

*Files* (`FileTransferProofs`).  `TypeOK` with the permits conserved,
`AloneIsDelivered` and `FinalFilesAreKept`, for any transfers, files, paths and
chunks.  What a handler writes does not matter to the argument: what it
delivers is what it verified, and nobody else can touch that inode between the
verification and the rename, or later, because an open file at a `.part` path is
at the path of its own handler (`HandleAtPart`), an inode has one path
(`OnePath`) and a lone transfer's destination is nobody else's (`DestIsOwn`).
The last two theorems assume `NamesApart`: no candidate for a final name is
somebody's `.part`, and files of different names have no candidate in common.
`FinalFilesAreKept` also assumes that no `.part` of an offered file was there at
the start, since that one is resumed by design.  The run's instance meets both;
section 6 has what happens to names that do not.

*Framing* (`FramingSessionProofs`).  `TypeOK`, and `FramingIsAChannel`: Framing
implements Channel, for any messages and any number of records each.  The
mapping counts the last records on the wire, so that reading or dropping part
of a frame stutters, and lemmas say what appending a record, taking one away
and finishing a frame do to the `Pending` queue.  Nothing the client writes is
in the mapping: a blocked write delays the channel and breaks nothing.

*Client* (`FramingSessionProofs`).  For any number of connectors at once: the
types, and that the secret saved last is one the server has accepted, whether
or not it has lost the device since (`SavedSecretIsPaired`), from `StoreInv`, which says what the file can hold
while it is whole, being written or torn, and how far each program's copy has
come.  `IdentityKept`, `PinKept` and `NeverAskedAgain` are proved for behaviours
in which connectors take turns (`TakeTurns`: at most one is between its load and
the end of its save; the UI's `forget_server` may run at any time).  The
hypothesis is needed: two that pair for the first time at once generate a secret
each, and the second save replaces the first (section 6).  One connector meets
it by itself, so for one the three hold outright (`LoneConnectorIsSafe`); this
is what the run checks, with two secrets and two certificates.  The invariant
added is `Copies`: a copy that was not read in the middle of a write has the
secret saved last, and its pin, or the certificate that was compared with it.

*Capture* (`CaptureClipboardProofs`).  `TypeOK`.  `LocalKeysAreDown`, for any
keyboard and any hotkey: with forwarding on no release reaches the machine, so
every key it holds is excused; and a key that repeats for the machine cannot
complete the chord, since the modifiers pressed after it would repeat in its
stead (`RepeatIsNoChord`).  `MotionIsTheUsers`, for any screen: the moves in the
queue are a chain from `last_x` to the pointer, and the warps among them are
exactly those still to be recognised and those whose place a user's move has
taken (`WarpsAreCounted`).  `ParsesAsListed`, for any names and any number of
words: `Held` is a closed form of what the loop of `parse_hotkey` holds after n
words (nothing, once a word is unknown or a second one names a key; else the
modifiers named so far and the key).  It makes the loop's steps (`HeldGrows`),
so the recursive function `ParseLoop` exists and has no first place at which it
differs (`LoopHolds`), and its last value is what `Listed` says.

*Clipboard* (`CaptureClipboardProofs`), for any number of clients, texts, copies
and sessions.  `NoEcho` follows from `AppliedIsSeen`: what a watcher put on a
clipboard is what it remembers, so it finds no change to send.  `Mirrored`
speaks of a state at rest, and its invariant of the way there.  While the server
has the last word (`ServerLeads`), no client has anything to send, and each
client will end with the server's text or the server's poll is still to come.
While a client has it (`ClientLeads`), the server and the other clients have
nothing to send, and the server will end with what that client's watcher
remembers or the client's poll is still to come.  A watcher that outlives its
session may apply an old text under the next one's eyes, which is why a client
is `Silent` only if the old queue is empty too.  Both are claimed as long as
no copy was missed and no `set_text` failed, the exceptions `Mirrored` itself
names.

Where a proof goes by induction over numbers (the n-th of a finite set, the
failures that are recent, the words of the hotkey), it argues with the least
number of a set.

Model-checked only: the seven liveness properties (`PendingResolves`,
`SilentPeerIsDropped`, `ToldInTheEnd`, `TransfersEnd`, `RetriesForEver`,
`Settles`, `SilentServerIsLeft`).  The prover handles neither fairness nor
ENABLED.

## 6. Disagreements between code and documentation

One is a run whose counterexample TLC finds:

* `forwarding_stuck`: a client's off switch sends ReleaseAll past the capture
  channel, and a press already in it arrives afterwards and stays
  (`server.rs:534`, against `common/src/lib.rs:107`).

Others were met with the same modules, with different constants or with a
property that leaves out the exception it names.  The checked properties are
stated so as to hold beside them:

* The last handler removes its entry and later swaps the flag off without
  another look at the registry; a client that joined in between is connected
  with forwarding off (`server.rs:576`, against `config.rs:18`).
  `IdleMeansOff` states the other direction.
* Two uploads of one name share a `.part`, and one is confirmed and then
  damaged by the other (`file_transfer.rs:248`, against `README.md:155`):
  `AloneIsDelivered` speaks of transfers that shared theirs with nobody.
* "Never overwrites or deletes an existing file" (`file_transfer.rs:295`):
  `unique_dest_path` looks for a free name, and the rename comes later.  Where
  "a" is there, an upload of "a" and one of "a (1)" can both pick "a (1)", and
  the second rename replaces the file that was confirmed first
  (`file_transfer.rs:247-248`).  The hypothesis `NamesApart` leaves such names
  out, and the run offers none.
* With autorepeat, the hotkey's key goes on repeating when the modifiers of the
  chord that switched forwarding on are let go.  The repeat is forwarded as an
  ordinary press, and the release is swallowed as the chord's
  (`capture.rs:232`), so that the key stays down on the client until forwarding
  goes off; `capture.rs:59-64` sets out to avoid just that.  `HeldKeysAreDown`
  is checked and proved with autorepeat and names these keys (`eaten`).
* The hotkey and a client that toggle at once can be announced in the opposite
  order of their stores (`server.rs:536`): `NoticeIsTruth` is checked with the
  hotkey alone.
* Under grab, keys that are down when forwarding goes on have their releases
  swallowed, so they stay down for local programs: the Ctrl and Alt of the chord
  itself, each time it switches forwarding on (`capture.rs:150`).  And a chord
  key that repeats after its modifiers were let go is passed on locally while
  its release is still swallowed as the chord's, the "stuck down" that
  `capture.rs:59-64` sets out to avoid.  `LocalKeysAreDown` names both.
* "The next MouseMove is that warp completing, not real user motion"
  (`capture.rs:51-53`): a user's move may come first.  It is dropped, and the
  warp becomes a delta of half the screen.  `MotionIsTheUsers` names this.
* A received file called like another's `.part` is resumed as such and moved
  away (`file_transfer.rs:159`): the run offers none.
* A source file that is cut short after it was hashed leaves client and server
  waiting for each other, neither with a deadline (`client/src/file_transfer.rs:148`); the permit is held as long.  `TransfersEnd` names it.
* The file channel's permit is held for the whole transfer, where the constant's
  comment speaks of handshakes (`file_transfer.rs:20` and `:58`).
* A driver's cleanup checks the generation and then takes the lock, and can
  remove a newer session (`ui/src/main.rs:389`): the exception in
  `OnlyCleanupOrphans`.
* The UI's listener can store an event of a session that has just been taken
  away or has ended (`ui/src/main.rs:271`): the exception in `IdleShowsOff`.  A
  UI that connects while the server forwards is told nothing (`server.rs:469`).
* `--revoke` beside a running server changes the file, not the server's copy;
  the device is still accepted, and the next pairing writes it back
  (`server/src/main.rs:189`).  Started in the middle of the server's save, the
  administrator's process reads an empty file.  `RevokedNeedsPin` and
  `PairingsSurvive` speak of processes that do not overlap.
* A crash inside the write of `server.toml`, `server.crt` or `server.key` leaves
  a file that ends every later start, or an empty `server.toml` that knows no
  device: `torn` in `PairingsSurvive` and `StartFailsOnlyTorn`.
* A program that loads `client.toml` while another writes it finds it empty,
  generates a new secret and saves that (`client/src/config.rs:100`, against
  `:20-22`); two programs of one user that pair for the first time at once
  generate a secret each (`session.rs:466`).  `IdentityKept` names the former;
  the run has one connector, and the theorem assumes that connectors take turns.
* A program that finds `client.toml` broken renames it later, with whatever has
  been saved meanwhile (`client/src/config.rs:61` and `:75`, against `:56-59`,
  "the broken file is renamed").  `IdentityKept` names this.
* "A connect-time error that is fatal (bad PIN, version mismatch, certificate
  fingerprint mismatch) is *not* retried" (`session.rs:447-449`): every
  PairReject is fatal (`session.rs:426-431`), and the server sends one to any
  device of a locked-out address before it looks the device up
  (`server.rs:406`).  A paired client next to a machine that mistypes the PIN
  stops retrying for good.  `NeverAskedAgain` names the lockout, and the
  server that has lost the device, by `--revoke` or by a failed save that was
  only logged (`server.rs:429`).
* "server unresponsive" (`session.rs:271`) is not reached while an arm of
  `Session::run` awaits `send_envelope` (`session.rs:273`, `:283`, `:289`,
  `:315`), nor is the cancel token: a server that hangs with a full socket
  keeps the session until the operating system gives the connection up.
  `SilentServerIsLeft` names the blocked write.
* A failure of an attempt that was in flight when the lockout began stays on
  record past its end (`server.rs:309-315`), so fewer new failures than the
  limit may begin the next one; `CleanSlate` says how far this goes.
* `Session::connect` has no deadline and does not look at the cancel token, so
  a server that accepts and says nothing stops the retry loop, and ctrl_c with
  it (`session.rs:390`): `RetriesForEver` names the stalled handshake.
* Clipboard: copies that cross are exchanged; a session that starts sends the
  client's clipboard, even one older than the server's; a failed `set_text` on
  the server broadcasts its old text again; after a quick reconnect the old
  session's watcher applies a text that the new one sends back
  (`clipboard.rs:68`).  `Mirrored` and `NoEcho` name these exceptions.  A
  client's text reaches the server only, not other clients.

## 7. What is left out

* Not modelled: discovery (calls of an mDNS library), address parsing, display
  detection, argument parsing, logging and the UI's rendering.  They keep no
  state that a step of another part could meet.
* The wheel is forwarded as it comes, without state.  The code treats the two
  axes of the pointer alike, and one is modelled.
* Framing takes a text not to have a NUL byte where a dropped read resumes; with
  one, the size check may let a wrong length pass and the failure is
  bincode's.
* Framing counts the client's pings apart from the frames that fill the socket:
  a silent server is sent a handful of them at most.  The loop's sends to its
  own event channel, which the program's receiver drains, do not block it.
* The Goodbye that ctrl_c queues for every client (`server.rs:224`): the process
  ends right after it, and a client that reads it leaves, as it does when the
  connection closes.  `GoodbyeIsLast` speaks of the handlers' own.
* Clipboard loses what the client has sent and the server's handler has not
  read when the connection breaks.  In the code the old connection's reader may
  deliver it after the client's next session has begun (`server.rs:493-500`),
  as if the client had copied it again.
* ClientSession takes a rename under an open file to leave the writer with the
  backup, as it does on Unix and with the sharing that Rust's files have on
  Windows.
* The client's `last_server`, `last_connected` and the alias of the file port,
  and the settings of `server.toml` other than the paired devices: read once,
  and parameters of the modules that depend on them.
* The duration of the proxy's `idle_timeout`, which bounds the whole relay, and
  the bytes it relays.  No read of its negotiation has a deadline, and nothing
  in the repository promises one.
* Latency, which is only displayed.

## 8. The plan

Done: Server, Forwarding, RateLimiter, FileTransfer, UiSession, ClientSession,
Socks5, Clipboard, ServerStore, Framing with Channel, Capture; every safety
property of every run proved, and both refinements.

Worth adding, in this order:

1. An abstract specification of FileTransfer, a mailbox that delivers each
   offered file once, and its refinement under `NamesApart`.
2. The liveness properties, once the prover handles fairness.
