# Crafty-Server-Watcher in TLA+

Crafty-Server-Watcher keeps Minecraft servers asleep while nobody plays. A server that has been empty
long enough is stopped through the Crafty panel's API; the watcher then listens on the game port in its
place, answers pings, and starts the server when a player tries to log in. This directory holds TLA+
modules of that program, the TLC configurations that check them on small instances, and TLAPS proofs of
the central safety properties for every value of the constants.

Paths such as `proxy_listener.py` are relative to `src/crafty_server_watcher/`. `PROJECT.json` names, for
every definition that models code, the lines it stands for.

    tlc -workers 2 -config handover_safe.cfg MCPortHandover       # one run
    tlapm PortHandoverProofs.tla                                   # one module's proofs

## 1. The system

### 1.1 Components, their state and their operations

| component | state it keeps | operations that change it |
|---|---|---|
| Server lifecycle (`server_state.py`) | per server: one of seven states, `idle_since`, `last_start_time`, `last_stop_time`, a 20-entry start/stop history | `transition` (an invalid one is ignored), `restore` |
| Idle monitor (`idle_monitor.py`) | snapshots waiting for their server's first poll | every 30 s, per server: `_poll_one` drives the lifecycle from Crafty's stats, `_check_idle_shutdown` stops an idle server; then `ensure_listeners` |
| TCP proxy (`proxy_listener.py`) | per server: the listener, the start lockout, whether a re-bind runs, background tasks, login handlers | `ensure_listeners`, `_start_listener` (a bind loop of 15 tries), `_stop_listener`, `_handle_login`, `release_for_start`, `reclaim_after_stop` |
| Bedrock proxy (`bedrock_proxy.py`) | per server: UDP transport, start lockout, `trigger_start` tasks | `datagram_received`, `trigger_start`, `ensure_listeners` (its own loop, every 5 s) |
| State snapshot (`state_store.py`) | one JSON file for all servers | `save` after every accepted transition of any server, `load` at start |
| Crafty event receiver (`health_server.py`, `crafty_events.py`) | per request: what of it was read | a POST's body is searched for a server id and an event; `start_server` releases a port, `stop_server`, `kill` and `crash_detected` reclaim it |
| Client protocol (`mc_protocol.py`, `_handle_client`) | per connection: the bytes not read yet | handshake, then a ping answered or a login's name |
| Configuration (`config.py`) | the settings, shared by machines, controllers and loops | `load_config` at start and on SIGHUP |
| Access control (`access_control.py`) | per server: a copy of `whitelist.json` and the mtime it was read at | `is_allowed`, `update` on reload |
| Webhook notifier (`webhook.py`) | per server: time of the last "denied" message, attempts held back since | `notify_denied`; the others keep no state |
| Startup, reload, shutdown (`__main__.py`) | shutdown and reload events | wires the parts, applies a SIGHUP, ends the run |
| Crafty API client, Bedrock codec, metrics, logging | none that changes | I/O and pure functions |

### 1.2 How they interact

Everything runs in one asyncio event loop: no two pieces of code run at the same time, but every `await`
lets any other task run. The tasks are the poll loop (shared by all servers), the Bedrock manager's loop,
one handler per open connection, one handler per Crafty event, detached re-binds and notifications.
They share the state machines, the lockout sets and the listener tables without locks. Outside the loop
live Crafty (which acts on a call at some time before the answer, or acts and fails to answer, and
announces starts and stops by events that may not arrive), the server process (which wants the same
port), operators at Crafty's console, the Minecraft server rewriting its whitelist, and whoever restarts
the watcher.

### 1.3 What is hard

* **One port, two owners.** The watcher must be off the port when the server boots and on it when the
  server is gone; which is the case is known only from polls that may be seconds old and events that may
  be lost. Code tests a lockout or a state, awaits, and acts.
* **Two players at once**, a player during a stop, a stop during a player's start.
* **The lifecycle must have no dead end**: every start and stop ends, with any call failing.
* **The countdown** must survive restarts of the watcher without surviving what ended it.
* **A file that changes while it is read**, posts that fail, counters that are cleared too early.
* **A state file written in steps**, any of which may fail or be the last one, with times by two clocks.
* **One loop for all servers**: what one of them does holds up, or ends, the pass for the others; a reload or
  a shutdown may come at any point of it.
* **Bytes and bodies from outside**, which may stop anywhere and say anything.

`PROJECT.json` lists these as hazards at the lines where they bite, with the properties that cover them.

### 1.4 What makes each part correct

* Lifecycle and polls: no state is a trap (`StartingEnds`, `StoppingEnds`, `UpIsNoticed`).
* TCP port: a claimed port is not taken back (`LockoutFreesPort`, `ImplementsLease`), a starting server is
  always claimed for (`StartingIsLocked`), a booting one finds its port free and is started once
  (`UnracedBoot`, `UnracedStart`), the proxy returns (`ProxyReturns`).
* UDP port: the same (`LockoutFreesPort`, `ProxyReturns` of `BedrockProxy`).
* Countdown: a stop is asked only of a server idle for the whole timeout as far as the watcher could know
  (`StopsOnlyIdle`), restarts keep it (`RestartKeepsClock`), an empty server does get stopped (`EmptyStops`).
* State file: an atomic register (`ImplementsRegister`), current between saves (`FileIsCurrent`), with clocks
  that are as true as the wall clock (`ClockIsTrue`) and nothing too old (`ResumesRecent`).
* The loop: every server is polled (`PolledAgain`) and gets its proxy (`ProxyComes`) whatever the others do, but
  that a 403 in every pass starves the servers behind it; a signal ends it (`ShutdownEnds`), after one pass at
  most (`OneLatePass`), with its listeners closed (`QuietShutdownCloses`).
* Settings: what the loader excludes never holds (`RunningIsSound`), and every setting is the last good file's or
  the first's, whichever a reload is to leave (`TakenOverOrKept`, `ReloadTakes`).
* Whitelist: a copy is never taken for current when it is not (`CopyIsCurrent`), every verdict (let in,
  refused, or an exception) was the right one while it was worked out (`AnswersAreTrue`).
* Refusals: rate-limited (`RateLimited`), every refused login accounted for once (`TurnedAreAccounted`).
* What comes in: the template is heard in any envelope (`TemplateIsHeard`), a port moves only for the server
  and the event in the body (`MovesAreMeant`), bytes mean what was sent (`UnderstoodAsSent`), and only a whole
  login starts a server (`WholeLoginsWake`).

## 2. The modules

| module | models | uses |
|---|---|---|
| `Lifecycle` | the transition graph and what a poll asks of it, as operators | |
| `PortLease` | abstract: what the start lockout promises about a port | |
| `PortHandover` | one Java server's port: proxy, login handlers, events, polls, Crafty, JVM | `Lifecycle`, `PortLease` |
| `PortHandoverProofs` | theorems about `PortHandover` | |
| `IdleMonitor` | one server's countdown over many runs of the watcher, with its snapshot | `Lifecycle` |
| `IdleProofs` | theorems about `IdleMonitor` | |
| `BedrockProxy` | one Bedrock server's UDP port | `Lifecycle` |
| `BedrockProofs` | theorems about `BedrockProxy` | |
| `SnapshotRegister` | abstract: what the state file promises | |
| `SnapshotFile` | the state file, save by save and step by step, over many runs | `SnapshotRegister` |
| `SnapshotProofs` | theorems about `SnapshotFile` | |
| `Config` | `load_config` as operators | |
| `PollLoop` | the loops over all servers of one run | |
| `Watcher` | one run of the process: startup, reloads, loops, shutdown | `Config`, `PollLoop` |
| `WatcherProofs` | theorems about `Watcher` | |
| `AccessControl` | one server's whitelist copy | |
| `DeniedNotices` | one server's refusal messages | |
| `LoginGate` | a login from the check to Discord | `AccessControl`, `DeniedNotices` |
| `GateProofs` | theorems about `AccessControl`, `DeniedNotices` and `LoginGate`, and that the gate refines both its parts | |
| `CraftyEvents` | `parse_event` as operators | |
| `EventReceiver` | one HTTP request | `CraftyEvents` |
| `Wire` | the Minecraft codecs as operators | |
| `ClientSession` | one connection to the proxy | `Wire` |
| `InboundProofs` | theorems about `EventReceiver` and `ClientSession`, and about the codecs of `Wire` | |
| `MC...` | environments, files, requests, clients and symmetry for TLC | |

### 2.1 `Lifecycle`

`ValidTransitions` is `_VALID_TRANSITIONS` as a relation and `Transition` is `transition`: a target outside
the graph leaves the state alone, as the code does. `PollTarget` is the decision tree of `_poll_one` on the
four stats keys it reads. Every other module moves a state through these only, so an edge missing from the
graph shows up wherever the code relied on it.

### 2.2 `PortHandover`

An action is what a task does between two awaits. `client[c]` is where a connection handler is suspended
(`reading`, in `_stop_listener`, in the 5 s pause, in `start_server` before or after Crafty acted, in the
rollback), `pollPc` where the poll loop is, `binder` where the bind loop is: before `bind(2)`, after it but
before the listener is registered in `_listeners`, or asleep between tries. `listener = "closing"` is
`wait_closed()`, which on Python 3.12 and later waits for open connections and before returns at once:
`WaitClosed` chooses. `jvm` is the server process: `booting` becomes `up` when it finds the port free and
`crashed` when it does not (`JvmCollides`), and `saving` still has the port. `event` is the one event
Crafty is dispatching.

Code keyed by server name is independent per server, so one server is followed; the poll loop is shared,
and is `away` while it is asleep or busy with others. Binding is atomic at `bind(2)`: bound but
unregistered sockets listen already (`WatcherHolds`).

`Env` chooses what the world may do beyond running, starting and stopping:
`console` (an operator), `crash`, `transient` (Crafty reports crashed of a booting server), `lost` (a call
acted on fails for the caller), `lossy` (events may not arrive; the receiver is off by default) and `slow`
(stats as old as their request, events later than the JVM's progress).

Timing assumptions, each a named operator: `Dispatched` (without `slow`, an event is handled before
seconds pass), `Settled` (without `slow`, Crafty answers a start before the JVM reaches its port) and
`BindInFlight` (`start_server` of asyncio yields around `bind(2)` for single turns of the loop: it is over
before anything that takes seconds).

`PortLease` is the abstract promise: a port is held by nobody, the watcher or the server; the watcher
*decides* to take it only while it is not claimed and *acquires* it later; a claim takes a held port away
in the same step, and is *raced* if a decision was in flight. `PortHandover!Lease` is the refinement
mapping (`Holder`, `lockout`, `raced`, `BindInFlight`) and `ImplementsLease` the property.

### 2.3 `IdleMonitor`

`sm` is the state machine with its clocks. A timestamp is represented by its age in ticks, saturating at
the bound the code compares it with; "never" is as old as that bound. A tick is longer than any call, so
time passes only between polls (`pc = "waiting"`) or while the watcher is off. `pc = "stopping"` and
`"stopCalled"` are `stop_server` before and after Crafty acts. `file` and `fileAge` are this server's entry
in the state file and its age; `Become` saves on every accepted transition; `Ends` is a shutdown between
polls or a kill anywhere; `Begins` is `load`; `Adopted` is `restore` at the first poll, which saves nothing.
`OtherSaves` is the save that another server's transition causes, which writes this machine as it is,
reconciled or not. The port and events overtaking one another are left to `PortHandover`: here an event is
handled as it happens (`StartHeard`, `HaltHeard`) or never (`Missed`).

`quiet` and `before` are history variables for the properties. `before` is what the last run knew. `quiet` is for
how long the server has been up and not played, in truth except for two things: that it is played counts from the
poll that sees it, and what a running watcher is not told does not count unless a poll sees it, nor does a start
told of a server whose halt was not told. Where every event is told, each start of the server renews `quiet`
(theorem `StartsRenewQuiet`).

`Env` chooses among operator (`console`), an operator who restarts the server faster than the watcher notices
(`hasty`), events that are lost (`lossy`: any or all of them, as with the receiver off, which is the default, or
for a Bedrock server, which it does not manage), `crash`, `racing` (things happen while a call is awaited),
`restart`, `kill`, `behind` (the server is operated while the watcher is off, or before the first poll of a
run), `others`, `outage` (no poll succeeds for as long as a snapshot may be old).

### 2.4 `BedrockProxy`

`Datagram` is an Open Connection Request 1 and `trigger_start` up to its sleep; `wake[w]` is where a
`trigger_start` task is. Unlike the TCP proxy, the machine enters STARTING after the call, no event reaches it,
and nothing marks a bind in progress: `binder` is whoever is inside `create_datagram_endpoint`, before the
transport is registered. Pings change nothing and are left out. Polls are those of `_poll_one`, with the stop
call in flight in `poll` before or after Crafty acts; `MinutesPass` says that an idle stop and a start timeout
take minutes and a wake takes seconds.

### 2.5 `AccessControl`, `DeniedNotices` and `LoginGate`

A check is one synchronous call; only another process, the Minecraft server, can act between its `stat`
and its read, so a check has two steps, `Asks` and `Reads`. `Writes` changes the file and its mtime,
`Mounts` takes the file or the permission to read it away and gives it back, which the mtime does not show.
A check comes to one of three verdicts. A file that is `Garbled`, closed or gone lets everybody in; one that is
`Undecodable` ends the check in an exception (`Fails`), and the login with it: nobody is kicked or notified.
`cfg` is the settings, any of `Configs`, and `Updates` a reload of them between two checks. `seen` collects
what the file was during the check. Every write renews the mtime (two writes within the file
system's timestamp granularity are not distinguished by the code and not modelled).

`Refused` is `notify_denied` up to its `await`; the post runs in a thread, so several may be under way in
`posting`, and `PostFails` is the exception `_send` swallows; `lost` counts what went with it.

`LoginGate` puts the two together: `Goes` is what a handler does with its answer, `kicking` the handlers in
`drain()`, `spawned` the `notify_denied` tasks that have not run. `turned` and `unsent` are history. A player
who is let in goes on to `PortHandover`.

### 2.6 `SnapshotFile`

`step` is where a save is; each call of `_write_atomic` is an action, with `Fails` and `Cleans` for its
exceptions. `tmp` and `file` are the two files as processes see them, `tmpDisk` and `fileDisk` their contents
on disk, and `settled` what a power failure leaves under the file's name: the old entry until `Settles`.
Time is true time (`now`); the monotonic clock counts from `origin`, another one in each run, and the wall
clock has been set `forward` and `backward` by so much in all. One machine with one timestamp stands for all,
which are saved, converted and restored alike; a move keeps, clears or renews it. Whether a server fits its
snapshot is `IdleMonitor`'s question: here `Begins` may refuse any.

`SnapshotRegister` is the promise: a value is put in one step, read back by a restart or not, and a power
failure brings back the settled one. A torn file maps to no value the register can hold, so the refinement
says, too, that none is ever found under the file's name.

### 2.7 `Config`, `PollLoop` and `Watcher`

`Config!Check` is the loader's checks in their order, each *invalid* (a `ConfigError`) or *broken* (another
exception: of `int()`, of a shape, or of a file that is `Unreadable`); `AppConfig` is what a good file makes,
defaults included. Scalars are strings, with what `int()`, `lower()` and the environment make of them given as
functions. Files are built in `MCWatcher`: a good one and each fault in turn. `None`, no configuration, is one
without servers: `_load_servers` makes none like it. `FilesAssumption` says that a file that gets past the shape
checks has a sequence of servers with names in `Names`.

`PollLoop` follows the idle monitor through a pass: `at` is the server, `step` the await it is in. `Unreachable`
is a failed connection and its pause, `Forbids` a 403, which ends the polls of the pass; then `EnsuresFrom`
goes to the next listener that has to be opened or closed. The other tasks leave `sleeping` and the listeners
alone here (they are `PortHandover`'s); `ClosesAll` is `stop_all`, which closes the listeners there were when
it began. `caught` and `late` are history: whether the shutdown came inside a pass, and the passes begun since.

`Watcher` is `_run`: loading, `check_health`, `list_servers`, then the loops beside the reload watcher. `cfg` is
what machines and monitor go by after `Merged`, which takes over cooldowns, interval and, of the servers there
are, timeouts and access, and leaves the rest as `first` has it; `controllers` is what the `AccessController`s
go by. A server that Crafty does not list is managed all the same, although the log says "Skipping"
(`__main__.py:115`).

### 2.8 `CraftyEvents` and `EventReceiver`

A JSON value is a tree, and a text (a string in it, or the whole body) is opaque but for four things: its
value, the names written in it (`says`, which the scan for known events and ids goes by), the JSON it holds,
and the names it has when it is read (`names`, which are more where JSON escapes a letter; only the properties
look at it). `Strings` is `_iter_strings`: `StringsTo` is computed from the deepest level up, `Level` being the
values so many levels down, and gives the same strings in the same order as the code's recursion without being
recursive, which keeps the module within the prover's reach. `Objects` is what `parse_event` goes through, in its
order; `Ids` is a set where the code takes the first match of an unordered set. `IsBody` says what a parsed body
looks like.

`EventReceiver` is one request through `_handle_request`, `_handle_post`, `_read_body` and
`_process_crafty_event`; reads may end early, and a body that is too long is cut off: what is left holds no JSON
and says any part of what the body said (`Mangled`), unless only padding is cut, which is a body that is not too
long here. What the dispatched call does is `StartEvent` and
`StopEvent` of `PortHandover`.

### 2.9 `Wire` and `ClientSession`

`Wire` reads and writes bytes as `mc_protocol.py` does, with the sizes as constants: a VarInt has up to `MaxGroups`
digits to the base `Group`, and `SignBit` is the bit it is signed by. They are 5, 128 and 2^31 in the program and
3, 8 and 128 in the run, which keeps what matters: the last byte of a VarInt has room for more than the number has
(`WireAssumption`). `Unsigned` and `WriteVarInt` are recursive functions. A read's outcome says whether it raises
EOFError or something else. `ClientSession` takes a connection to the name of its login; `Breaks` is every exception
and timeout.

What clients send is external: `Sent` is a client that keeps to the protocol, and `Sayable` what it may say (32-bit
numbers, packets within the cap, a ping of up to 8 bytes). `Honest` clients send all of it; those that are `CutOff`
stop after any byte, or send a login whose name is longer than its packet.

## 3. The runs

### 3.1 What holds

| run | shows | environment and bounds |
|---|---|---|
| `handover_safe` | types; `StartingIsLocked`; `LockoutFreesPort`; the handover implements `PortLease` | everything in `Deeds`, Python >= 3.12, 2 handlers, 2 bind attempts |
| `handover_calm` | as long as no claim races a bind, a booting JVM finds its port free (`UnracedBoot`) and one start call is in flight at most (`UnracedStart`) | lost events only, Python <= 3.11, same bounds |
| `handover_live` | every start ends, every idle stop ends, the proxy returns | all but the operator, 1 handler |
| `idle_safe` | types; `StopsOnlyIdle` | hasty operator, lost events, crashes, restarts, kills, other servers, outages; idle timeout 3, cooldown 2, grace 1, history 3 |
| `idle_live` | `RestartKeepsClock`; an empty server is stopped in the end | operator, lost events, crashes, restarts, anything while a call is awaited; timeout 2 |
| `bedrock` | types; the lockout keeps the UDP port free; the proxy returns; an up server is noticed | crashes, lost calls, stops; 2 wakes |
| `gate` | types; the copy is the file when their mtimes agree; every verdict was the right one while it was worked out; the rate limit; every refused login is accounted for once | 2 players, 3 settings, 1 write of a list, a garbled or an undecodable file, 3 refusals, cooldown 1, 2 ticks |
| `snapshot` | types; the file is current between saves; clocks are true but for the wall clock's changes; nothing too old is resumed; the file implements `SnapshotRegister` | 3 moves, 3 ticks, the clock set by 1 each way, 2 origins, maximal age 1 |
| `watcher` | types; `TakenOverOrKept`; `RunningIsSound`; `QuietShutdownCloses`; `OneLatePass`; `ShutdownEnds`; `PolledAgain`; `ProxyComes`; `ReloadTakes` | 2 servers, 2 bind attempts, 28 files to start from, 4 edits (good, no YAML, one server less, a port that is no number) |
| `inbound` | `TemplateIsHeard`; `MovesAreMeant`; `UnderstoodAsSent`; `WholeLoginsWake` | 4,358 requests and 1,384 clients; every version, every next state, every cut of five connections, and connections that are wrong in eleven other ways |

### 3.2 Where the code and its own documentation part

Each of these runs checks one property taken from a comment or a doc, and TLC shows the code violating it.
`PROJECT.json` quotes the line.

| run | what happens |
|---|---|
| `finding_rebind` | a start claimed while `asyncio.start_server` is awaited is overtaken: the listener comes up under the lockout |
| `finding_reload` | a reload of a file whose `listen_port` is no number ends the watcher, which was to keep its settings; so does, in the model and in the code, one without permission to read it or that is no UTF-8 (`config.py:361`) |

The environments of 3.1 are as harsh as the properties allow. What each leaves out, it leaves out because
the property is false there, and the hazards in `PROJECT.json` say so at the line:

* `handover_calm` has a `wait_closed()` that returns at once, because where it waits for open
  connections two logins both call `start_server` (`proxy_listener.py:402`), and is free of
  crashes, lost calls and late stats: stats that still say "crashed" undo
  STARTING and the pass clears the lockout in the login's pause (`idle_monitor.py:152`), and a start event
  that follows a poll of the dying JVM is refused (`proxy_listener.py:132`).
* `handover_live` is free of an operator: a server restarted at the console before a poll saw it down stays
  in STOPPING (`idle_monitor.py:210`).
* `StopsOnlyIdle` forgives what a running watcher is not told. An operator who restarts an idle server between
  two polls (30 s by default), with the receiver off, the event lost, or a Bedrock server, leaves `idle_since`
  standing: the fresh server is stopped when the old countdown ends (`idle_monitor.py:225`). So does one whose stop
  event is lost and whose start event arrives: `release_for_start` answers `not_stopped`
  (`proxy_listener.py:132`). README.md promises a stop after N minutes without players; that the server was new
  meanwhile is not seen.
* `idle_live` has an operator who waits until the watcher knows that the server is down (`hasty` is left out). One
  who starts it between an idle stop, the event of which is lost, and the next poll leaves the machine in STOPPING
  with a running server, which every poll leaves alone (`idle_monitor.py:210`): the empty server is never stopped.
* `idle_safe` does not operate the server while the watcher is off (`behind`): a server stopped and started
  again meanwhile matches its old snapshot and is stopped at once (`server_state.py:164`).
* `idle_safe` moves the machine only between calls (no `racing`): a stop that fails after the server was stopped and
  started again gives the fresh server the old idle time (`idle_monitor.py:289`).
* `idle_live` has no kills, no outages and no other servers: a watcher killed between the STOPPING snapshot and the
  call comes back parked in STOPPING (`idle_monitor.py:278`), another server's save overwrites a
  snapshot that is not reconciled yet (`__main__.py:136`), and one restarted after each outage may find its
  snapshot too old each time (`state_store.py:156`).
* `bedrock` asks nothing of the lockout during the wake's pause: the manager's pass clears it there and binds
  the port again (`bedrock_proxy.py:143`).
* `AnswersAreTrue` lets everybody in where the whitelist is only names in the configuration, which the loader
  accepts and the controller takes for a list that cannot be read (`access_control.py:96`).
* `AnswersAreTrue` does not say that the whitelist fails open, as `access_control.py:72` and README.md:213
  promise: a file that is no UTF-8 (or JSON nested too deeply to parse) raises what `access_control.py:111` does
  not catch, and the player is dropped, neither let in nor refused, until the file is replaced. The verdict
  `raised` is that case.
* `PolledAgain` excepts the servers behind one that is answered 403 again and again: such an answer ends the polls
  of the pass (`idle_monitor.py:125`), so that a token without access to one server starves those after it. Nor does
  polling stop, as the log (`idle_monitor.py:122`, "Skipping all API calls until fixed") and the comment below it
  ("Stop polling") say: the next pass asks again.
* `TakenOverOrKept` names what a reload does not take over: the set of servers and their order, ids, ports and
  editions, the webhook, the event path and the state file keep what the start gave them (`__main__.py:222`).
* `QuietShutdownCloses` is about a shutdown between two passes: one inside a pass may bind again what
  `stop_all` has closed (`proxy_listener.py:83`).
* `ReloadTakes` is about a SIGHUP the reload watcher can see: its first step clears one that came during the
  startup (`__main__.py:200`).
* `MovesAreMeant` does not ask that id and event belong together: they may come from different objects of one
  body (`crafty_events.py:127`).
* `TemplateIsHeard` is about envelopes in which no object with another id or event comes before the template
  (`crafty_events.py:115` takes the first), and carries the token where one is set. README.md:291 says that every
  reply is 2xx; a request to another path is answered 404 and one without the token 403 (`health_server.py:158`,
  `:163`), which the runs follow and no property forbids.
* `TurnedAreAccounted` has `lost` in it: a message that is not delivered loses the attempts it counted
  (`webhook.py:124`).

### 3.3 Why the bounds are enough

*Handlers and wakes.* The handlers are alike and meet only in the lockout, the state and the listener.
Two give every pair of positions, and nothing but those three variables passes between them. One suffices
for liveness, where a second could only start what the first did not. The theorems hold for any number.
*Bind attempts.* The loop treats its first, a middle and its last attempt; with two, the loop sleeps once
and then gives up, and the poll loop starts another one, which covers longer ones. Again the theorems hold
for any number. *Ticks.* The countdown, cooldown, grace, start timeout and flap window are compared with
ages only; the values make each guard bind in some behaviour while another does not, and the saturating
ages make the state space finite without bounding the length of a behaviour. *Files and messages.* One
write covers a change before, between or after the two steps of a check, and the theorems hold for any
number; with three refusals and a cooldown of one tick, two messages may overlap, the second of which counts
a refusal held back. *Snapshots.* Three moves let a file be replaced twice and be lost once; with an age
limit of 1 and 3 ticks a snapshot gets too old; the theorems hold for any number. *Servers, edits.* A pass has
a first and a last server; a reload may follow another and may be refused between two good ones. *Bytes.* With
the scaled sizes every VarInt is enumerated, where the program's would be 2^32.

Deadlock is checked except in `watcher`, whose process ends, and in `inbound`, whose connections close. Both
values of `WaitClosed` are covered by the theorems; the runs take the one that lets more happen for their
property.

### 3.4 Fairness and why the code justifies it

* The event loop runs every ready task: weak fairness of the steps that only the loop's scheduling holds
  up (bind steps, closes, handlers, event handlers, poll steps).
* The poll loop sleeps for an interval and goes on; a poll fails now and then but not always: strong
  fairness of `Asks` and `Polls`.
* Time passes: `StartTimesOut` and `Tick` are strongly fair, since other steps disable them for moments.
* A booting server reaches its port or crashes, a saving one exits: weak fairness of these steps of the
  server. `IdleMonitor` adds that the watcher is started again and that a stop call is acted on sometimes.

* In `Watcher`, calls, pauses and tasks that are ready go on (weak fairness). A call comes to any of its outcomes:
  that Crafty ever gives stats is not assumed, and ports may stay taken for good.

Nothing is assumed of players, operators, crashes, events or the order in which tasks run. In particular
a start call is never assumed to succeed.

## 4. The proofs

The theorems are about every value of the constants: any number of handlers, wakes, bind attempts, players,
settings, writes, refusals, transitions, restarts, servers, files and edits, any timeouts and clocks, both
behaviours of `wait_closed()` and every environment, where the theorem does not say otherwise. Assumed of the
constants is what the `ASSUME`s say, each beside the constants it is about: ranges and signs
(`HandoverAssumption`, `BedrockAssumption`, `AccessAssumption`, `DeniedAssumption`, `SnapshotAssumption`,
`IdleMonitorAssumption`, `PollLoopAssumption`, `ConfigAssumption`, `WireAssumption`, `DepthAssumption`,
`LongAssumption`), that `Nothing` is not a machine (`NothingAssumption`), and what a parsed file, a request's
body and the lists of servers and events look like (`FilesAssumption`, `RequestAssumption`, `ManagedAssumption`,
`KnownAssumption`). TLC evaluates them in the runs.

### 4.1 `PortHandoverProofs` and `PortLease`

`TypeCorrect`, `StartingStaysLocked`, `HandoverImplementsLease`, `LockoutKeepsPortFree`. The inductive invariant
is `IInv == TypeOK /\ PortInv /\ StartingIsLocked`. `StartingIsLocked` is inductive given types because a poll
never moves a machine *into* STARTING (`PollNeverStarts`), and both places that drop the lockout leave STARTING in
the same step (`StoppedIsReachable`, `CrashedIsReachable`). The refinement is one step per action: each maps to an
action of `PortLease` or to a stutter. It needs `PortInv`: a bind loop runs only while nothing is registered,
watcher and server are never both on the port, nothing is raced without a lockout. `LockoutKeepsPortFree` then
follows from the abstract theorem `PortLease!LeaseKeepsClaims`, whose invariant `LeaseInv` adds to the promise
that an unraced claim leaves no decision in flight.

`CleanBoots` and `CleanStarts` state `UnracedBoot` and `UnracedStart` under `Steady`: events may be lost, but
there is no operator, no crash, no late answer, and `wait_closed()` returns at once. `Steady` is exact: TLC
finds a counterexample to one of the two with any one of the other deeds or with a `wait_closed()` that waits,
for the reasons listed in 3.2. The invariant, `Orderly`, is inductive along the behaviours in which nothing is
raced. It ties the watcher to what it cannot see: a handler between claim and answer owns STARTING and the
lockout and knows what the JVM does (`StartsAreOwned`), a JVM boots under the lockout or while the proxy is
wholly at rest (`BootsAreSeen`), an event is about what is still so (`EventsAreFresh`), an idle stop meets no
connection (`StopsAreLonely`), a claim leaves no listener and no bind (`ClaimIsClean`), and nobody is left in
`wait_closed()` (`NobodyWaits`).

### 4.2 `IdleProofs`

* `TypeCorrect`, by `TypeInv`, which bounds the history of the machine and of every snapshot.
* `StopsAreOfIdle` states `StopsOnlyIdle` for environments without `racing` and `behind` (its hypothesis `Calm`),
  the two in which the property is false (3.2); events may be lost and the operator may be hasty. `QuietInv`: an idle
  clock, in the machine, in a snapshot that waits for the first poll or in a file young enough to wait, is never
  ahead of `quiet` (`True`). Ageing
  all of them in one tick keeps it; a transition starts the clock anew. It needs `RunInv` and `FileInv`: where a
  snapshot waits, the machine is as it was made, and the file is the machine's, the waiting snapshot's, one
  written by another server's transition, or too old.
* `StartsRenewQuiet` says what `StopsOnlyIdle` is worth where events are not lost: every start of the server renews
  `quiet`, because a machine that counts is one of a server that runs (`SeenInv`), so that no start is ignored.
* `RestartsKeepTheClock` states `RestartKeepsClock` for environments without `behind`, `others` and `outage`
  (`Alone`): kills and calls that overtake one another are allowed, other hands and other saves are not.
  `ClockInv`: the file carries the countdown of the machine while the watcher runs, of the last run while it is
  off, and of the waiting snapshot in between.

### 4.3 `BedrockProofs`, `GateProofs`

* `BedrockProofs!TypeCorrect` and `LockoutKeepsPortFree`. `LockoutFreesPort` is inductive with the types: a
  lockout is set only where a transport is open and closed in that step, and every bind drops it first.
* `GateProofs!TypeCorrect`, `CopyStaysCurrent` and `AnswersStayTrue`, by `IInv`, which adds `ViewInv`: neither
  the copy nor a check under way is ahead of the file, so a write leaves both behind, and a check under way
  has seen the file as it is, which justifies whatever verdict the read comes to (`ListJustifies`, `AnswerIsTrue`).
* `GateProofs!MessagesKeepDistance`, by `RateInv`: the messages before the latest took a cooldown each, and
  the latest is as old as `last` says.
* `GateChecks`, `GateNotifies` and `GateTypes`: every step of the gate is one of the check or leaves it alone, and
  one of the messages or leaves them alone, so that the theorems above hold in the composition. `GateTypes`
  follows from `TypeCorrect` carried over, and from `CountsInv`: every player turned away is with
  a handler, gone, waiting for a message or counted by `notify_denied`, so that no count runs past the bound.
* `GateAccounts` states `TurnedAreAccounted`. `Accounted` is inductive, but its `UnderWay` is a fold over the
  messages under way, so the module first proves what that fold is: that a function which adds up over subsets
  exists (`SumExists`, size by size), that it does not depend on the order (`SumWithout`), and so that an entry
  that comes or goes brings or takes its value (`FoldWithout`). These are inductions over the size of a set,
  written as the impossibility of a smallest counterexample (`SmallestExists`).

### 4.4 `SnapshotProofs`

`TypeCorrect`, `FileStaysCurrent`, `ClockStaysTrue`, `OnlyRecentResumes` and `FileImplementsRegister`, by one `IInv`.
Its parts: what each file holds at each step of a save (the renamed file is whole in memory and on disk, which is
where `fsync` comes in), and that machine, payload and every file are *honest*: their timestamp is off by no more
than the wall clock was set by then. That dumping and restoring keep honesty are two lemmas of arithmetic
(`DumpIsHonest`, `RestoredIsHonest`).

### 4.5 `WatcherProofs`

One invariant, `Inv`, for `TypeCorrect`, `ReloadsTakeOverOrKeep` (`TakenOverOrKept`), `SettingsStaySound`
(`RunningIsSound`), `QuietShutdownsClose` (`QuietShutdownCloses`) and `OnePassMore` (`OneLatePass`):

* `FileInv`: what was loaded last is what the loader makes of some file. That a file it calls good has no two
  servers on a port, no whitelist without names and no webhook without an address is proved of the checks, in
  the order they are made (`FirstGood`: if the first fault is none, there is none).
* `SettingsInv`: the settings in use are sound, have the shape the loader gives, and are taken over or kept. The
  shape is needed because `Merged` replaces fields one by one.
* `StageInv`: a loop that runs has servers to run over.
* `PassInv`: at most one pass begins after a shutdown, and that one is the last; after one between two passes
  the monitor is asleep or ended, and every listener that is up is on the list of those to close.

### 4.6 `InboundProofs`

*Clients.* `ClientsAreUnderstood` and `OnlyWholeLoginsWake` state `UnderstoodAsSent` and `WholeLoginsWake` for every
client that is `Honest` or `CutOff`, any of what it may say and any sizes. The invariant, `SessionInv`, says what of
the client's bytes is still unread at each stage of the connection: the rest of what was sent, whole or cut.
That a step keeps it is a matter of the codecs:

* `VarIntsReadBack`: the decoder undoes the encoder on every number of the width, whatever follows. The quotients
  the encoder goes through come to an end within `MaxGroups` (`EnoughGroups`), its last byte is the first without
  the continuation bit, and the digits add up to the number again (`DigitsAddUp`).
* `PacketReadsBack` and, inside a packet, the strings, the port, the greeting and the login (`UtfReadsBack`,
  `PortReadsBack`, `GreetingReadsBack`, `LoginReadsBack`): each is read back and leaves what follows.
* `PartOfAPacket`, with `PartOfANumber`, `PartOfAString` and `PartOfALogin`: of a part nothing is read. What is read
  from a stream does not change when more of it comes (`NumbersAreStable`).

*Requests.* `OnlyMeantMoves` states `MovesAreMeant` for any requests, bodies, nesting and servers. `ReceiverInv`
says that past the head a request was a POST to the path with the token, that what is read of its body is the
body or holds nothing and says no more, that the event is one `parse_event` may make of it, and that the call is
the event's. `FoundInBody` then brings both halves of an event back to names of the body.

`TemplatesAreHeard` states `TemplateIsHeard` for requests that are `Unrivalled`: for each half, a string down to
`MaxDepth` holds an object that has it, and no string before one that does holds another (`Leads`); what comes
later may say anything, and the fields of the envelope itself come last. Or no string has that half at all, and
the envelope does. It needs that the search finds every string down to `MaxDepth` and nothing else
(`StringsAre`), and in which order they are tried (`ObjectsInOrder`). TLC evaluates in `inbound` that every request
which carries a template is `Unrivalled`, that some would not be with another template, and that the clients are
`Honest` or `CutOff`.

These are inductions over numbers, levels and lengths. Each is about one recursive function, and is written as the
impossibility of a smallest counterexample (`LeastExists`, `Induction`); that the function exists at all is proved
before it is used (`IterationExists`, `LevelsExist`, `StringsExist`).

### 4.7 What is only model-checked

* Liveness, here as `~>` and under fairness: ENABLED is outside the prover.
* Of `inbound`: the clients that break the protocol otherwise than by stopping (another packet, a wrong length, a
  name that is no text), for which `WholeLoginsWake` is checked on those of `MCInbound`. Also that `StringsTo` lists
  strings in the order of `_iter_strings`: the order is its definition, and the theorems take it from there.
* That the properties of 3.2 are false where they are: counterexamples, which TLC finds.

## 5. What is not modelled

* HTTP, TLS and YAML as texts, the Bedrock codec (fixed bytes), metrics and logging: I/O or pure functions that
  no property tells apart. Status, metrics and kick texts are formatting.
* Temporary files that a kill leaves behind: nothing reads them.
* An event body whose JSON is nested so deeply that the parser itself raises.
* Logins and events during a pass over several servers: `PollLoop` leaves them to `PortHandover`, which has one
  server. The Bedrock manager's loop is in `BedrockProxy` only.
* Notifications other than refusals: they keep no state.

## 6. Plan

Done: `Lifecycle`, `PortLease`, `PortHandover` and its proofs; `IdleMonitor`; `BedrockProxy` and its proofs;
`AccessControl`, `DeniedNotices`, `LoginGate` and their proofs; `SnapshotRegister`, `SnapshotFile` and their
proofs; `Config`, `PollLoop`, `Watcher`; `CraftyEvents`, `EventReceiver`; `Wire`, `ClientSession`.

Proofs: all invariants, action properties and refinements of the runs, under the hypotheses section 4 names.

Next, in this order:

1. Proofs: `WholeLoginsWake` for clients that send any bytes, as "the bytes begin with a whole handshake and a whole
   login".
2. Proofs: the exactness of the idle theorems' hypotheses, by theorems with one of `racing` and `behind` and the
   part of `QuietInv` that is left.
3. `IdleMonitor` with a history shorter than the flap guard's threshold (`server_state.py:88`) and with
   timeouts that a reload changes.
