# Silkjam, verified

TLA+ models of Silkjam (`src/`), which runs Minecraft servers on demand behind
a TCP proxy: the models, the TLC runs that check them on small instances, and
TLAPS proofs about them. All paths below are relative to `src/app/backend/`
unless they start with `src/`.

## Inventory

| Component | State it keeps | Operations | Talks to |
| --- | --- | --- | --- |
| **Supervisor** (`supervisor/supervisor.py`, `base_unit.py`) | per unit a `State` (status, task, result, pending start and stop, two events), the command queue, the registered tasks, a lock | `add_unit`, `remove_unit_nowait`, `start_unit_nowait`, `stop_unit_nowait`, `supervise_until`, entering and leaving the context, the waiting operations `done_starting`, `done_stopping` | runs every other unit; is itself a unit, so supervisors nest (orchestrator > backend > timer) |
| **Timer** (`supervisor/timer.py`) | timeout, start time, two events | change the timeout, reset, expire | base of status checker and backup manager; the backend's sleep timer |
| **MCBackend** (`core/backend.py`) | the server process, ports, player count | start and stop the process, sleep decision, wake on login | is a unit of the orchestrator and a supervisor of sleep timer, status checker and backup manager |
| **MCStatusChecker** (`core/status_checker.py`) | retry count | ask the server for its status, give up after three retries | calls `MCBackend.update_stats` |
| **MCBackupManager** (`core/backup_manager.py`), **backup_strategies** (`utils/`) | backup files, autosave of the server | make a backup, remove stale ones | the server's RCON, `tar` |
| **MCOrchestrator** (`core/orchestrator.py`), **Config** (`models/config.py`) | listings, proxies and backends by name, acquired ports | reload the configuration, acquire and release ports | supervisor of all proxies and backends |
| **MCProxy**, **VoiceProxy**, **VoiceBridge** (`core/proxy.py`) | the connections of clients, player sessions, voice bridges, voice queue | identify a backend, answer in its place, wake it, relay a client, track a session, route a datagram, expire bridges | wakes backends and waits for them, counts their players |
| **Packet protocol** (`core/protocol.py`) | the reader's buffer, the length of the packet begun | read, time out and go on, move, grow and shrink the buffer, write | used by the proxy for each connection |
| Applications, CLI, tools, frontend | HTTP glue | | |

Everything runs in one asyncio event loop. The hard behaviour is what happens
*between two awaits of one task*: the operations of the supervisor only set
flags and queue commands, and four kinds of tasks (clients, the unit's own
task, the supervise loop, the task monitoring the queue) act on them later, in
an order nobody chose. On top of that come units that fail at any stage,
cancellation, exits while starts are queued, and restarts.

What makes each component correct:

* Supervisor: a unit has at most one task; its status follows the documented
  life cycle; an accepted start reaches the end of `__aenter__`, an accepted
  stop ends with the unit stopped; no flag survives and blocks the unit;
  leaving the context ends, with no unit alive.
* Backend and timer: an idle server is eventually stopped, one with players is
  not; a login wakes it; a stop sequence ends the process.
* Backups: a failed backup costs no older one; autosave is restored; at most
  `max_backups` files are kept and the survivors stay spread out.
* Orchestrator: no port is given out twice; what runs is what is listed.
* Whoever waits for a unit: what a wait answers agrees with the unit when it
  answers, a stop that was waited for is followed by the start, every wait ends.
* Proxy: a bridge exists only for a tracked session and leads to the backend of
  the session connected longest; the backend is sent what the client sent, in
  order; a player who is relayed is counted, and one who has gone is not; the
  handler of a client who has gone ends.
* Protocol: what is written is what is read; the buffer never loses a byte, and
  is given up on only for a message it cannot hold.

## Modules

| Module | Models |
| --- | --- |
| `Supervisor` | `Supervisor` and the `BaseUnit` context around it, with its properties |
| `UnitLifecycle` | the abstract specification: what the supervisor promises of one unit |
| `MCSupervisor` | symmetry, view and bounds of the runs with two units |
| `SupervisorProofs` | the theorems about `Supervisor` |
| `VoiceChat` | the part of `MCProxy` that tracks player sessions and bridges voice datagrams to the backend a player is on |
| `MCVoiceChat` | two sessions of one player, for TLC |
| `VoiceChatProofs` | the theorems about `VoiceChat` |
| `Retention` | `get_stale_backups`, and what it is meant to return |
| `Backups` | `MCBackupManager`, over `Retention` |
| `BackupsProofs` | the theorems about both |
| `Sleep` | when `MCBackend` stops an idle server: `supervise`, the sleep timer, the status checker and the count of players kept by the proxy |
| `SleepProofs` | the theorems about `Sleep` |
| `Waiting` | who waits for a unit of `Supervisor`: joining players and the supervising task |
| `MCWaiting` | the bounds of its run |
| `WaitingProofs` | the theorems about `Waiting`, over those about `Supervisor` |
| `Connection` | one connection of a client to `MCProxy`, from its first byte to its end |
| `MCConnection` | eleven kinds of client, for TLC |
| `ConnectionProofs` | the theorems about `Connection` |
| `PacketReader` | `PacketReader` with its buffer, and the encoding of `PacketWriter` |
| `MCPacketReader` | sequences of small and large messages, for TLC |
| `PacketReaderProofs` | the theorems about `PacketReader` |
| `Servers` | the server processes of the backends, from start to stop, and the ports they are given |
| `MCServers` | the proxy listings of its runs |
| `ServersProofs` | the theorems about `Servers` |

### Supervisor: state and actions against the code

The variables are the fields of `Supervisor.State` (`status`, `result`,
`pendingStart`, `pendingStop`, `force`, `doneEntering`, `doneExiting`, `task`
is not `None`), the membership in `_units` (`added`), `_command_queue`, and
program counters. `at[u]` is the await where the live `_run_unit(u)` is
suspended, `cancel[u]` a cancellation not yet delivered, `finished[u]` the done
tasks still in `_running_unit_tasks`. `loop` is the position of the supervising
task, `monitor` the command its queue-monitoring task has taken, `ctx` whether
the supervisor's own context is left, entered or being left.

| Action | Code |
| --- | --- |
| `AddUnit`, `RemoveUnit`, `StartUnit`, `StopUnit` | the four `*_nowait` operations |
| `EnterContext`, `ExitContext`, `StopOne`, `AllStopped` | `_start`, `_stop` |
| `SuperviseUntil`, `RestartOne`, `BeginWait`, `MonitorTake`, `Wake` | the first half of the loop in `_supervise_until` |
| `HandleStart`, `DeferStop`, `HandleStop`, `Refuse` | one command of `_handle_command_queue` each |
| `Reap`, `ReapFailed`, `EndIteration`, `Closed`, `CancelSupervise` | the second half, its return and its cancellation |
| `Begin`, `Entered`, `RunReturns`, `Failed`, `Exited` | the stretches of `_run_unit` between its awaits |

*Atomicity.* Code between two awaits is one step. Where it contains a loop (over
units, commands or done tasks) the model takes one iteration per step while
every other actor is blocked (`Yielded` is false), which is the same thing and
leaves the iteration order of the dictionaries open.

*Event loop.* asyncio runs ready callbacks in FIFO order. The model lets any
ready actor go first, so it has every behaviour of the code and some more; each
counterexample about the supervisor, and that of `DoneBeingUsed`, was reproduced
against the code itself.

*Data left out.* Logging, the results' contents, which events and units a
`supervise_until` reports. A unit's exception is `"error"` or `"interrupt"`
(`KeyboardInterrupt`, `SystemExit`). An object is added to a supervisor once:
the repository creates a new object rather than adding a removed one again.

*Who calls when.* `ClientsIn` says whether clients call before the context is
entered, inside it, or while it is being left; `CancelIn` whether the task in
`supervise_until` is cancelled (`apps/orchestrator/main.py:48` does that).

### VoiceChat against `core/proxy.py`

A *session* is a connection of a player that is forwarded to a backend; a
*bridge* is a socket to a backend's voice server on behalf of one client
address. The variables are `_player_sessions`, `_voice_bridges` and
`_voice_queue`, the transport of the listener, the place of each session's
tracking task, and the place of the one task that handles queued packets.

| Action | Code |
| --- | --- |
| `Login`, `Disconnect`, `Leave` | a session in `_forward_to_backend`, which starts and cancels its tracking task |
| `Track`, `NeverTrack`, `Untrack` | `_track_player_session`: it records the session, waits, and in its `finally` block removes it and closes the bridges no longer selected |
| `ListenerStarts`, `ListenerLost`, `ListenerNotices` | `_run_voice_listener` |
| `Datagram`, `DropPacket`, `Forward`, `CreateBridge`, `Created`, `CreateFails` | `_queue_voice_packet` and `_handle_voice_packets`; the creation of a bridge is split at its `await` (698) |
| `ConnectionLost`, `BackendSends`, `BecomeIdle`, `Cleanup` | a bridge's own callbacks and its expiry after 25 and 60 seconds |
| `EndRun`, `CancelSessions`, `CloseAll`, `Restart` | the end of `run`, `_stop`, and the next start |

What a session is (player, backend, ID) is a constant; a session recurs when the
player comes back. The order of connection times is the relation `older`.
Whether a backend's voice server can be reached is an input of each creation,
and so is the time that passes: `BecomeIdle` stands for both timers.

### Backups and Retention against `core/backup_manager.py`, `utils/backup_strategies.py`

A backup is the play time, in ticks, at which it was made. `Retention` follows
the algorithm step by step: the cut-off, the first pass over expired backups,
the counts of the bins, the second pass from the newest backup to the oldest.
`MeantStale` says the same in one sentence: of the backups that may go, the
first so many in the order `GoesBefore`.

| Action | Code |
| --- | --- |
| `SkipBackup`, `BeginBackup` | one turn of `run`: the play time and the directory are read, and a backup is needed or not; the former prunes at once |
| `SaveOff`, `SaveAll`, `Report`, `SaveOn` | `save_and_backup` inside `autosave_off`, split at each command sent to the server |
| `Archived`, `NotArchived`, `Disturbed` | `create_world_archive`: `tar` succeeds, fails, or is tried again because a file changed |
| `Abort` | an exception out of any of these; the effect of the command may have happened |
| `Play`, `Operate`, `ServerStarts`, `ServerStops`, `Rollback` | the server and whoever operates it |

The prune at the end of a check works on the list read at its beginning, which
is why `listed` and `checked` are variables. The timer is abstract: at most
`MaxStep` ticks are played between two checks.

### Sleep against `core/backend.py`, `core/status_checker.py`, `supervisor/timer.py`, `core/proxy.py`

The number of players (`count`) is overwritten by status answers, incremented
and decremented by connections, and read by the task in `supervise`. `loop` is
where that task is: in `supervise_until`, whose return is split from the code
that follows it, for a login may come in between; `saw` is what it returned, and
`ended` the units whose end it has still to report.

| Action | Code |
| --- | --- |
| `Start`, `Exit`, `Raised`, `Down` | the backend enters, its `run` returns because it was stopped, its process ended or `supervise` raised, and it has exited |
| `Return`, `Decide` (`Idle`, `Awake`) | one turn of `supervise` |
| `TimerStarts`, `TimerDue`, `TimerEnds` | the sleep timer, `Timer.run`; between the second and the third its `wait_for` has timed out and the task has not yet had its turn |
| `Answer`, `UpdateStats`, `NoAnswer`, `GivesUp` | `MCStatusChecker.run`: the server counts, the answer arrives later; a request fails, for the last time in `GivesUp` |
| `Login`, `Leave`, `Lose` | `_forward_to_backend`: the player is counted before the server knows of it, and uncounted when either side has closed |
| `Join`, `Kick`, `Forget` | the server lets a player in, ends a connection, notices that one was lost |

`pl[p]` is a player's connection: `joining` is counted and not on the server's
list, `closing` the reverse. The getter of the count says 0 while the backend is
not running (117), and `+=` and `-=` go through it (514, 517): a player dropped by
a stop leaves -1 behind. `exact` is a history variable: an answer was taken when
no connection was in between (`"asked"`), it has been applied (`"yes"`), and
nothing has moved since.

`check_nowait` and `reset` only change *when* the next answer comes or the timer
expires, and have no effect in a model without clock. A listing without sleep
timeout, whose backend never sleeps, is not an instance.

### Servers against `core/backend.py`, `core/orchestrator.py`, `models/config.py`

`at[b]` is the await at which a backend's task is suspended; `proc` is its
`server_proc`, `uses` the ports written to its properties files, `held` those its
exit stack is to release, `acquired` the orchestrator's `acquired_server_ports`.

| Action | Code |
| --- | --- |
| `Reload`, `UpdateConfig` | `reload_config`, `update_config`, over proxies that `Valid` finds without conflict, as `validate_semantics` does |
| `Enter` | `_start` up to the creation of the process: ports are acquired and written without an await; too few of them end the start |
| `Spawn`, `Ready`, `StartFails` | the rest of `_start` |
| `RunEnds` | `run` returns or is cancelled |
| `Close`, `CloseFails` | `super()._stop()`, which stops the backend's units and releases the ports, or is itself cut short |
| `TimesOut`, `Gone`, `Drained`, `Unwind` | `stop`, SIGINT, SIGTERM and SIGKILL, each after a timeout; the process has ended; its output has ended; an exception or cancellation anywhere, after which the `finally` block kills the process |
| `Exits` | the process ends |

A backend's exit may be cut short because of `ExitNotInterrupted` and
`ExitStopsUnits` (below). Then `super()._stop()` neither closes the stack nor
goes on to the process; `unwound` remembers such exits. Ports of a stack that was
not closed are released when the next start replaces it, which finalises its
generators (`Taken`). The process it leaves is followed until the next one replaces
it in `server_proc`.

Which proxies exist is chosen in `Init`: the program never changes a listing but
for its version, so the branches of `reload_config` that remove units are not
in the model. `StartFails` stands for every exception, timeout and forced stop of a
start; a server that closes its output while starting is `Ready`, as in the code.

### Waiting against `core/proxy.py`, `core/backend.py`, `supervisor/supervisor.py`

`Waiting` extends `Supervisor` by those who wait for its events. An
`asyncio.Event` that is set wakes whoever waits for it, even if it is cleared
before they have their turn, and they read the unit's State only then: hence
`woken[c]` and `latched`, apart from the events themselves. `told` and `ran` are
history: what the last step told a player, and whether the backend ran while
the player waited.

| Action | Code |
| --- | --- |
| `Join` | `_handle_client` of a player whose backend does not run: `mcproc_starting` (`start_unit_nowait`), then `mcproc_done_starting` up to its first suspension |
| `StopSeen`, `StartSeen` | the rest of `mcproc_done_starting` after `done_stopping`, and of `done_starting` |
| `GiveUp` | `wait_for` with 25 seconds, at whichever await the wait has reached |
| `UntilDoneStarting`, `UntilDoneStopping`, `Again`, `Awake`, `Collect`, `Return` | the loops of `supervise_until_done_starting` and `_stopping` around `supervise_until`: which events and units a turn reports, and when the loop ends |
| `Others`, `Waiters` | any other step of the supervisor, with the events it sets |

The conjunct of `Waiters` about `"created"` keeps one consequence of the FIFO order
that the answers depend on: a player woken by a run of the backend has its turn
before the first step of the next.

### Connection against `core/proxy.py`

What a client sends is a sequence of *pieces*, each a message but for a Login
Start, which comes in two so that a read may end inside it. `sent`, `taken` and
`parsed` count the pieces that have arrived, were read from the socket, and were
returned as messages; the reader holds what lies between the last two, which
`NothingLost` of `PacketReader` justifies. `pc` is the await at which
`_handle_client` is.

| Action | Code |
| --- | --- |
| `LegacyPing`, `NotLegacy`, `Handshake`, `NotIdentified` | `_identify_backend`, and what `_handle_client` then does: relay, wake or answer |
| `Woken` | the wait for the backend ends, either way |
| `Answer`, `Unanswered` | `_handle_handshake`: the status of a backend that does not run |
| `Drained` | the end of a `PacketWriter.drain`, with its timeout: after the status (`"reply"`), and after a pong, the answer to a legacy ping or a kick message (`"farewell"`) |
| `Connect`, `ConnectFails`, `LoginStart`, `NoLoginStart` | `_forward_to_backend` up to the forwarding: the player is counted, then the Login Start read, then tracking begun |
| `ForwardInitial`, `Forward`, `UpstreamEnds`, `BackendSends`, `DownstreamEnds`, `RelayEnds` | the two `forward` tasks, which end, or raise (`UpstreamRaises`, `DownstreamRaises`) |
| `Release`, `Untrack`, `CloseBackend`, `Close` | the `finally` blocks; the last two are the ends of `wait_closed` |
| `ReadsOn` | a read that needs more; every read may also have taken more than the message |
| `Send`, `Go`, `Takes`, `BackendEnds`, `TrackingEnds` | the client, the server, and the end of a tracking task by itself |

`buffered` says of each peer whether it has taken everything that was written to it (0), not yet
(1), or so little that a drain waits (`Full`). Drains in the relay have no timeout, nor has
`wait_closed`, which returns when the buffer is empty or the connection lost (`Flushed`).

Whether the backend is listed, running or reachable is an input of the steps that
ask for it, and every packet but the first may time out at any moment.

### PacketReader against `core/protocol.py`

The variables are the reader's own (`data`, `i`, `j`, `packet_length`), the call that
is suspended (`reading`), and the peer's stream. The only await of a call is
`StreamReader.read`, so a step is the code from one of them to the next or to
the call's end.

| Action | Code |
| --- | --- |
| `Call` | `read_legacy_ping` or one of the `read_*_packet` is called |
| `Fill(count)` | a read returns `count` bytes and the loop goes on: parse, and if that needs more, allocate |
| `EndOfStream`, `TimesOut` | `ConnectionResetError`, and the cancellation by `wait_for` |
| `Await`, `NewSize`, `Compacted` | `_allocate_buffer` and the condition for it: the buffer is left, moved, grown or shrunk, or found full |
| `DecodeVarint`, `DecodePacket`, `DecodeLegacy`, `EncodeVarint`, `EncodePacket` | the functions that read a variable-length integer, a packet and a legacy ping, and their counterparts in `PacketWriter` |

A byte has `GroupBits` + 1 bits, an integer `Width`. The fields of a packet after
its ID are opaque, so a decoder that raises on them is not in the model. What the peers
send is limited by `SentAssumption`: integers that `PacketWriter` can encode, legacy pings that
fit into the largest buffer, and a first packet that does not begin with the three bytes of a
legacy ping. The first packet of a connection is a handshake, whose ID is 0.
`save()`, with which a message can be read again, is called by nobody.

## Runs

| Run | Instance | Shows |
| --- | --- | --- |
| `sup_two` | 2 units, all client calls at any time, cancellation; 2.0 million states | `StartIsFresh`, `NoEarlyCancel`, `NoStuckStop`, `CleanExit`, `QueueBounded`, and that `Supervisor` implements `UnitLifecycle` |
| `sup_live` | 1 unit that may fail, fair scheduling; 16,520 states | `StartPromise`, `StopPromise`, and that starts, stops and exits end |
| `sup_exit_hangs` | 1 unit, fair, cancellation | *violated:* `ExitTerminates` |
| `voice` | 2 sessions of a player with different IDs, on 2 backends, 3 addresses; 107,968 states | `OwnEntryOnly`, `NoLeak`, `StoppedClean`, `KeepsSelected`, `StraysFromCreation`, and that abandoned bridges are closed (`AbandonedCloses`) |
| `voice_shared_id` | the same with one ID for both sessions | *violated:* `OwnEntryOnly` |
| `backups` | at most 3 backups, interval of 2 ticks, 14 ticks of play; 181,248 states | `StaleAsMeant`, `AtMostMax`, `OldestKept`, `NeverEmptied`, `NewBackupKept`, `SuspendedByAbort` |
| `sleep` | 2 players, 1 retry; 98,726 states | `CountRepaired`, `PlayersSuspend`, and that a backend nobody is connected to stops (`IdleStops`) |
| `servers` | 2 backends, one with voice chat, 5 ports, 3 lists of proxies; 28,523 states | `ServersApart`, `LeavesNothing`, and that a backend told to stop, or whose server has ended, comes to rest (`Settles`); also, by an assumption, `ValidAsMeant` for all lists of up to three proxies |
| `servers_ports` | the same | *violated:* `DoneBeingUsed` |
| `waiting` | 1 backend that may fail, 1 player, a supervising task that waits for starts and stops; 38,056 states | `AnswersAgree`, `WakesAgain`, and that every wait ends (`WaitsEnd`) |
| `packets` | two or three messages of 3 to 37 bytes, a buffer of 8 to 32; 19,796 states | `NothingLost`, `FailsWhenFull`, and that what was sent is returned in the end (`Delivered`); also, by an assumption, that every integer is decoded as it was encoded (`VarintRoundTrip`) |
| `connection` | 11 kinds of client; 27,890 states | `RelayedInOrder`, `PlayerAccounted`, which awaits of a handler may last (`HandlerEnds`), and that the handler of a client that has gone ends (`GoneIsOver`) |

The type invariants are theorems (below); that of `PacketReader` is checked by its
run as well. Deadlock is checked except where a run may really be over: in
`packets`, when the stream has ended, and in `connection`, when the handler has.

*Bounds of the supervisor.* Nothing in the model counts, so the only bound is the number of units.
Units interact through the shared queue, lock, monitor and exit alone, all of
which two units exercise: one unit's command behind another's, one unit's crash
of the loop while another runs. The run with two units further assumes that
both are added before the context is entered, that only the exit forces stops,
and that a context left with an exception is not entered again
(`TwoUnitBounds`); the run with one unit has none of these restrictions. The
view of that run drops `result`, `doneEntering` and `doneExiting`, which no
guard and no property of the run reads, and units are symmetric in its safety
properties.

*Bounds of the voice chat.* Two sessions suffice for one to begin or end while the
other's bridge is used or under creation. They are on two hosts, one of which
sends from two ports, so that a packet's address is accepted, refused
(`voice_ip_binding`) or replaces the one a bridge has. The queue holds one packet:
an older one only delays it.

*Bounds of the backups.* Three bins cover seven intervals, or 14 ticks, so that the
first backups expire within the run; an interval of 2 ticks has backups on the
border of two bins and beside it; a check comes after 0 to 3 ticks, thus before,
at and after the time a backup is needed. `Older` leaves more backups than the
limit at the start, as a changed configuration does, and `RolledBack` backups
that are newer than the world.

*Bounds of the sleep module.* With two players one leaves while the other joins and
a status answer is under way, and the count can be wrong in either direction; a
third would only make it wrong by more. The code allows three retries, the run
one, which has a failure that is tried again and one that is not.

*Bounds of the servers.* Five ports are enough for both backends with one proxy in the
range, and too few with two, so that starts fail after none, one or two ports;
only one backend wants a UDP port, which a proxy's voice chat competes for. The third
list has conflicting listings, one of them disabled, and one with wrong routes.

*Bounds of the waits.* One unit, since a wait is for one unit's events and the queue
with others is the matter of `sup_two`. One player suffices as well: players
affect each other only by the starts they ask for, which `StartUnit` makes at any
time. `BackendBounds` follows `MCOrchestrator`: the backend has `restart=False`, is
added before and never removed, its context is not left, and nobody forces a
stop.

*Bounds of the reader.* A variable-length integer has up to 4 bytes of 3 bits each
where the code has up to 5 of 8, so lengths of one to three bytes occur, and
negative integers, which take all 4. Frames are shorter than the initial buffer,
between it and the largest, and larger than that; two large ones around a small
one make the buffer grow, move and shrink. One packet begins with the two bytes
a legacy ping begins with. `MIN_READ_SIZE` of 2 keeps the ratios of the code's
sizes.

*Bounds of the connection.* One client, because handlers share nothing but the
count of players (`Sleep`) and the table of sessions (`VoiceChat`). The eleven
streams reach each branch of the handler and stop within a message. Three levels of a
buffer are all that drains and `wait_closed` tell apart.

*Fairness of the supervisor.* asyncio's ready queue is FIFO, so a task that is ready gets its
turn: weak fairness for the loop, strong fairness for the monitor and the unit
tasks, which the loop's atomic sections disable again and again. A unit's
`__aenter__` and `__aexit__` are assumed to end; its `run()` need not. Clients
are never assumed to call anything, and the context need not be entered again,
which is why the liveness properties allow for `ctx = "out"`.

*Exceptions in the liveness properties.* `Orphan(u)` is the situation of
`RemoveOnlyAtRest`, below: the State of a live unit no longer names its task, so no
stop reaches it. `StopTerminates` and `ExitTerminates` hold but for it.

*Fairness of the voice chat.* A cancelled task ends, an idle bridge's time passes
and the clean-up, which runs once a minute, runs. Players, backends and the
network are never assumed to do anything. A backend sends to connected players
only, and can keep their bridges in use for ever: `AbandonedCloses` is about the
bridges to a backend the player has left.
The backups have no liveness property: nothing obliges the server to run.

*Fairness of the sleep module.* Tasks get their turn, time passes for a running timer, a
request is answered or fails, a connection that has ended is noticed. The timer's
start is handled inside `supervise_until`, which returns and is called again for
ever: strong fairness. Players and the server's process are never assumed to do
anything. `IdleStops` excepts `Unwatched`: the checker gave up while
`supervise_until` was returning (`CompletionReported`, below), so `supervise` never
learns of it, nobody counts players any more, and the backend may stay up.

*Fairness of the servers.* Every await of `_start` and `_stop` has a timeout or waits for
units to exit, the end of a process's output is noticed, and a killed process ends.
A process need not end by itself, and nobody need start or stop a backend.

*Fairness of the waits.* That of the supervisor, and a task whose event was set has its
turn, strongly, since the loop's atomic sections disable it. Nobody is
assumed to join, and the timeout is never assumed to occur: `WaitsEnd` holds without it.

*Fairness of the reader.* The caller calls again after a timeout, and a `read()` of bytes
that are there returns them without suspending, so that no timeout comes before it. Both
are strong fairness, spelled out because what enables the actions is simpler
than the actions.

*Fairness of the connection.* The handler and its timers have their turn. A server takes what
it is sent or loses its connections (one that hangs is given up by the status checker, stopped
and in the end killed), and closes a connection whose other end was closed. A client that
has closed its end takes what is still sent to it, or its connection is reset (the kernel
answers for a socket that is gone, or retransmission ends). Nothing is assumed of a client that
stays: it may keep its relay, and stop reading, for as long as it likes. So `HandlerEnds` excepts the handler
that waits in `wait_closed` (proxy.py:653) for such a client; `PlayerAccounted` says that a player
whose handler waits there is no longer counted or tracked.

## Proofs

`SupervisorProofs` proves, for any set of units and any choice of failures and
contexts: `TypeCorrect`, `InvariantHolds`, `StartsAreFresh`, `NoStopIsStuck`,
`NoCancelIsEarly`, `OneTaskAtATime`, `ExitsAreClean` and
`ImplementsLifecycle`. The only assumption is the named one on the constants;
`QueueIsBounded` further assumes that there are finitely many units, without which there is
nothing to count.
`StartsAreKept` and `StopsAreKept` further assume that `CancelIn` is empty: with cancellation a
command that the monitor holds is lost (`StartPromise`, below).

`StartIsFresh` and `NoStuckStop` are not inductive: whether a START that leaves
the queue finds the unit at rest depends on the flags agreeing with the place of
the unit's task, and on there being one START only. `IInv` adds just that:
`PlaceAgrees(u)` ties `status`, `pendingStart`, `cancel` and `task` to `at`, and
`OneStart(u)` says a START is held once. The proof is by unit: `IInvByUnit`
rewrites the invariant as one predicate per unit, lemmas on the queue
(`PutStart`, `PutStop`, `TakeNext`, `DropTaken`) say what a step does to the
commands that are held, and `CallsKeepInv`, `LoopKeepsInv`, `HandleKeepsInv` and
`TaskKeepsInv` take the actions one by one. Refinement follows from the
invariant: each step of a client or a unit task is a step of `UnitLifecycle`,
each step of the loop a stutter.

`ExitsAreClean` needs `ExitInv`: outside the context the
supervising task does nothing, and once it is on its way out without an exception no unit
is registered. `StartsAreKept` needs `PromiseInv`: the monitor has a command only until the
loop has handled it, so a START is never dropped with it. `StopsAreKept` needs that as well, for
a STOP that is left to a task which is yet to be made by a START, and `StopInv`: a
task that has cancelled itself has still to see it, and a unit that was removed has no task
that its State names. With these, a STOP that the loop refuses (321) is one of a unit that is
orphaned, at rest, or to be started again.

`QueueIsBounded` needs the order of the queue. The flags allow a unit to be started and
stopped again while its commands are queued, so it is not enough to count them: a STOP can be
left over from a life of the unit that ended by itself. `Order`, about the command the
monitor has followed by the queue (`HeldSeq`), says of each unit that it has one START at most
(`FewStarts`); that a START lies between two of its STOPs (`StopsApart`); and that while
`pending_stop` is false a STOP is the only one, that of a unit which is not live, and before
its START (`LateStop`). So a unit has at most one START and two STOPs there, and the bound
follows by counting the places of the queue.

`WaitingProofs` proves, for any units, failures, players and callers:
`PlayersKeepInvariant` and `WaitTypeCorrect`, by showing that a player's step is a
start that a client of `Supervisor` could ask for, or changes nothing of it;
`AnswersAreTrue` and `WaitersAreStarted`, by `AnswerInv`. That invariant says of
the backend (`BackendInv`) when it has a result and its start has ended, and of a
client that waits (`ClientInv`) that its event is not set, or that it was woken by one whose
cause can still be seen: the backend ran meanwhile or has failed, or its task has ended and not
run again. The last part rests on the order in which asyncio runs what is ready (`Waiters`).

`ConnectionProofs` proves, for any set of streams: `TypeCorrect`; `PlayersAreAccounted`, by an
invariant that says of each place of the handler what is counted, tracked and open there;
and `RelayIsInOrder`, from facts about contiguous parts of a sequence: what the
reader took goes on where the messages end, and every later read where that ends.

`PacketReaderProofs` proves, for any sizes of the buffer, streams of messages and divisions
into reads, and for bytes and integers of any width: `TypeCorrect`; `NothingIsLost` (the
messages returned are the first ones sent, unchanged and in order, and the unparsed bytes are
the bytes that follow); `FailsOnlyWhenFull` (a call fails for want of space only if the message it waits for
is larger than the largest buffer, or once an earlier one has made the buffer grow); and `NeverMalformed` (the bytes
that `PacketWriter` makes are never rejected). They rest on two named assumptions about the
constants, which the code's values meet: `ReaderAssumption`, that the longest variable-length
integer has room for an integer (5 groups of 7 bits, and 32) and that the buffer starts with at
least four times the smallest read (4096 and 1024 bytes); and `SentAssumption`, on the peers
(above). The proof has five parts:

* powers of two, by counting the subsets of a set, and division;
* a variable-length integer: the loop gathers the number that was divided into groups
  (`DecodeWhole`), and asks for more when the last byte is not there (`DecodePart`);
* a frame: it decodes to its message whatever follows it, and a part of it is incomplete
  (`PacketDecodes`, `LegacyDecodes`); a packet is not taken for a legacy ping
  (`LegacyRefuses`);
* the stream: a frame lies where the ones before it end (`FrameIsThere`);
* the reader: the invariant `Inv`.

`Inv` has eight conjuncts. `Returned` (the messages returned are the first ones) and `Holds` (the
unparsed bytes are the next ones) are what is to be shown. They are not inductive:
whether a call fails depends on the length it has read (`Known`), on where it is suspended
(`Due`, `Turn`) and on the space the buffer has. `Sized` says of the latter that the
buffer has its first size, or begins with a message it was made larger for. `Excused` says
why a call that failed did. What is defined by recursion over a number (what is gathered
from the groups, the end of a message in the stream) is reasoned about by its least
counterexample, a set of naturals without a least element being empty.

`VoiceChatProofs` proves, for any players, sessions, backends and addresses:
`TypeCorrect`, `NothingLeaks`, `StoppedIsClean`, `EntriesAreOwn`,
`SelectedIsKept` and `StraysComeFromCreation`. `StoppedClean` needs the
strengthening `QuietOutsideRun` (which tasks can be alive in which phase of
stopping), and `OwnEntryOnly` needs `TrackInv`, which ties an entry of the
session table to the task that made it. That theorem assumes `IdsDistinct`, which
proxy.py:491 does not guarantee; the others do not. `OnlyCreatedOpens` says that
no step but the end of a creation opens a bridge.

`BackupsProofs` proves, for any limit, interval, number of retries and bound, `TypeCorrect`
and every property of the run:

* `StaleIsMeant`: the two passes of the retention remove exactly the backups that
  `MeantStale` names. The passes are unfolded one backup at a time: after `k` of
  them the stale ones are the first in the order `GoesBefore`, and a bin's
  count is that of the backups of it which are left. That this holds for every `k` is shown
  of the least one for which it does not. The argument needs each backup that has not expired to
  have a bin between 0 and `MaxBackups` - 1, hence facts about powers of two
  (the number of subsets) and about rounding by an interval.
* `BinsAreInRange`, from the latter (`Rounded`, `Cancel`, `RoundedInIntervals`, `AgeInRange`).
* `AtMostMaxLeft`, `NeverEmpty`, `OldestStays` and `NewBackupStays`, action properties of the
  manager. They follow from how many backups the retention removes and which it spares, and
  from `ListedInv`: the list that a prune works on was read at the beginning of its check, and
  the backups on disk are still those and the new one.
* `OnlyAbortsSuspend`, by the invariant `SuspensionKnown`, which also says what is
  still owed to the server in the middle of a backup.

`SleepProofs` proves, for any finite set of players and any number of retries:
`TypeCorrect`; `CountIsRepaired`, by one lemma for each group of actions: the
steps of players end what `exact` says, and an answer taken while everybody is
away or online counts exactly the players online (`Counts` keeps such a number
apart from no answer); and `PlayersSuspendTimer`, where the only steps that matter
are those that set the event, which makes the property hold, and `Decide`,
which clears it together with its decision.

`ServersProofs` proves, for any backends, ports and proxy listings: `TypeCorrect`,
which includes that a backend whose server initializes, runs or is waited for has a
`server_proc` (not that `_stop` has one where it first reads it: below, under what is not modelled);
`ServersAreApart`, by `PortsInv` (a port that is acquired is held by one backend and
reserved for no proxy, and a backend that serves uses what it holds); and
`NothingIsLeft`, by `RestInv` (nothing is held once the stack is closed). `ValidIsMeant` says
of any list of proxies what TLC checks of the short ones (`ValidAsMeant`): no two valid
listings share a port, and one is invalid only for its routes or for a valid one above it.
`Valid` is a recursion over the list, which is unfolded (`ValidUnfolds`) once it is shown, by its
least counterexample again, that there is a set of listings such as the recursion asks for
(`PassingExists`).

Only model-checked: all liveness, which is beyond the prover, since it needs fairness and
`ENABLED` (`StopTerminates`, `StartTerminates`, `ExitTerminates`, `AbandonedCloses`, `IdleStops`,
`Settles`, `WaitsEnd`, `Delivered`, `HandlerEnds`, `GoneIsOver`); and `VarintRoundTrip` for
the negative integers, an assumption TLC evaluates, which no theorem needs: nobody sends one
as the ID or the length of a packet. Every safety and action property of the runs that pass is
a theorem.

## What comments promise and the code does not do

Three have runs (above, and `findings` in `PROJECT.json`):

* `ExitTerminates`, when `supervise_until` is cancelled: a STOP the monitor has taken is
  lost, and leaving the context waits for ever.
* `OwnEntryOnly` with a shared ID: sessions are told apart by the `id()` of an
  object that is already freed.
* `DoneBeingUsed`: a backend's ports are released before its server is told to stop, and
  given to the next backend that starts.

The others are stated at the end of the module they belong to, each with the lines of the
comment. TLC finds the first three and the last five violated in the instances of the runs of
those modules:

* `AutosaveRestored`: an exception during a backup leaves autosave off, and the
  next backup takes that for the operator's wish.
* `RemovalMakesRoom`: a check that makes no backup prunes as if it had made one;
  with `max_backups` = 1 it removes the only backup, otherwise the newest.
* `StopsOnlyEmpty`: an answer given before a login and applied after it makes the
  count 0, and the backend is stopped under a player who is joining. `src/TODO.md:62`
  counts a final check of the number of players before a server sleeps as done; the
  check does not exclude this.
* `ExitStopsUnits`: all running units are stopped upon exiting (59-60). A unit whose
  task ends while its STOP is still queued (238) may be stopped again; the stale
  STOP is handled during the exit, raises `is not running` (321) out of `_stop`, and
  the other units run on.
* `RemoveOnlyAtRest`: a unit that runs is not removed (488-491). A unit that ends while
  the lock is held and is started before its old task is reaped has the State of the
  new task cleared (416), and can be removed while it runs.
* `ExitNotInterrupted`: a unit that is exiting is allowed to exit fully (60-62).
  A STOP queued while the unit ran and handled after its `run()` returned finds it
  exiting, passes every condition of 299-320 and cancels its `__aexit__` (323).
* `CreatesWithListener`: the assertion of proxy.py:694 fails for a packet that was
  queued before the listener was lost or the proxy restarted.
* `PendingWhileQueued`: `pending_stop` is reset (238) while its STOP is queued.
* `ExitForces`: a stop already pending is not upgraded to a forced one (646,
  655), so leaving the context waits for an `__aenter__` to end by itself.
* `CleanupAsserted`: the assertion of 240 fails for an orphaned unit.
* `InterruptPropagates`: `isinstance(KeyboardInterrupt, SystemExit)` (182, 205,
  227) is always false; `SystemExit` is stored like any other exception.
* `CompletionReported`: a unit that ends while the task group of a returning
  `supervise_until` closes is in nobody's `done_units`.
* `StartPromise`, when `supervise_until` may be cancelled: a START taken by the
  monitor is lost, and the unit can neither be started nor stopped any more.
* `ExitTerminates`, when clients may start units during the exit
  (`ClientsIn` with `"exiting"`): the exit waits for a unit nobody stops.
* `StopFirst`: `done_stopping` waits for the unit to finish stopping (692). A stop
  scheduled before the unit's first step finds `done_exiting` set by the run before
  (713), so the wait returns at once.
* `StartedTrue`: `supervise_until_done_starting` returns True only if the unit
  finished starting successfully (545-548). It returns True when the event was set, which
  the end of a start by a stop sets too.
* `FullAtMaximum`: the buffer has its largest size when it is found full
  (protocol.py:401, 459, 489). A buffer that could grow may be made smaller instead (340), and
  found full then.
* `ShrinksWhenSparse`: a buffer shrinks when less than a quarter of it is occupied
  (340-341). The condition compares with three quarters.
* `OnlyTrackingLost`: without a Login Start only tracking is unavailable
  (proxy.py:502-506). A packet that was read as one and is none is not passed on
  to the backend.

## Plan

In order of importance:

1. done: the supervisor, its life cycle and the first theorems.
2. done: `Waiting`: `done_starting`, `done_stopping`, `mcproc_done_starting` and the
   25-second wait of a joining player, over the events of the supervisor; the
   `supervise_until_done_*` loops.
3. done: `Sleep`: the sleep decision of `MCBackend` with timer, status checker and
   player count.
4. done: `Backups`, `Retention`: the backup run with failures at every step; the
   retention algorithm against a reference definition.
5. done: `VoiceChat`: player sessions, bridges, idle expiry and the listener.
6. done: `Servers`: port allocation, configuration reload, and the life of a server
   process with its stop sequence.
7. done: `PacketReader`: the buffer and the variable-length integers.
8. done: `Connection`: a client from its first byte to its end.

What is left: the remaining return conditions of `supervise_until`, should somebody come to use
them, the way back through a voice bridge, and proofs of the safety part of
what the liveness properties rest on (that nobody waits for an event which cannot come).

## Not modelled

The HTTP applications, the command-line client, the tools, the frontend and the
deployment files keep no state the properties are about. `reload_config` has branches for listings that are gone, which does not happen yet. A
first start without enough ports ends in an `AttributeError` of `_stop` (242), which replaces the
`AcquirePortError` that `MCOrchestrator.run` looks for (220); nothing follows from it,
as the backend does not restart. Four of the six return
conditions of `supervise_until` are used by nobody. Of the proxy, the contents of its answers,
the lookup of a player's UUID and
the way back through a voice bridge are left out; of the protocol, the fields inside a packet,
lengths that are negative or nonsense, `save()`, and the JSON of a status; of the backup manager, the
`.part` files, which are never listed and always written anew, `max_backups` = 0,
and a play time that cannot be read, which restarts the unit.
