# A TLA+ model of loomtty

loomtty is a terminal multiplexer written in Rust. A daemon (`loomtty-server`)
owns the programs, their terminals and the sessions; desktop clients, web
clients and a command line connect to it over a socket and show or drive them.
This directory holds specifications of the daemon's concurrent core and of the
protocols between it and its desktop client, the TLC configurations that check
them on small instances, and TLAPS proofs of their main safety properties. Paths
below are relative to the repository (`src/`); `D/` stands for
`crates/loom-server/src/daemon/` and `T/` for `crates/loom-term/src/`.

## The system

| component | state | operations | speaks to |
|---|---|---|---|
| PTY reader threads (`T/pty.rs`) | a read buffer, `reader_done` | read a chunk, send it to a bounded channel, notify; end of file | tick loop, by channel and `Notify` |
| Pane (`T/pane/mod.rs`) | terminal screen, parsers, exit status | drain and parse, reply, check for exit, write input | PTY |
| Session (`D/session.rs`) | panes, layout, generation per pane | PTY pass, damage marking, resize, reap, full sync, autosave | panes, client table |
| Server (`D/server/`) | sessions, clients, waiters, idle deadline | one handler per client message | everything, under one tokio `Mutex` |
| Client table (`D/client.rs`, `D/damage.rs`) | per client: session, channel, damage per pane, send failures, acknowledgements | mark, merge, take | tick loop and handlers |
| Tick loop (`D/tick.rs`) | frame deadline, pending frames | wake, pass over the sessions (locked), encode (unlocked), validate and push (locked), idle shutdown | all of the above |
| Connection handlers (`D/connection.rs`) | one reader and one writer task per client | register, first frames, dispatch, clean up, graceful shutdown | server, client |
| Accept loop, signals (`D/mod.rs`), tray, web gateway (`D/web.rs`), socket ownership (`D/unix_socket.rs`) | listeners, shutdown `Notify` | accept, shut down | handlers |
| Desktop client (`crates/loom`, `loom-app`) | grids with their scrollback, expected panes, predictions, connection slots, the daemon it has launched | apply events, predict and judge echo, find or launch a daemon, reconnect | server, socket path |
| Layout (`loom-layout`) and its callers (`D/server/layout.rs`, `layout_dispatch.rs`) | workspaces, columns, tiles, an active index in each | create, close, move, focus, consume, expel | session |
| Persistence (`loom-session`, `D/server/restore.rs`) | the dirty mark and its debounce, a file for each session | autosave, save at shutdown, restore, delete | session, disk |
| Web client (`web/packages`) | grids and layout, in TypeScript | | web gateway |
| Keys (`loom-input`), codec (`loom-protocol`) | pure data | | used by the above |
| Rendering, UI, animation, plugins, configuration | presentation | | |

What makes the system hard: one lock that the tick loop holds, releases to
encode, and takes again, with handlers in between; a coalescing notification
that may be consumed before the data it announced is drained; bounded channels
pushed to with `try_send`, so that a message may be refused after the state it
stands for was already cleared; first frames built under the lock and pushed
without it; two independent signs of a program's end; shutdown decided in one
critical section and done in another; predictions judged by frames that are older than
they are; a watermark that stands for rows nobody acknowledges; indices into a
layout that shrinks under them; several processes that find, remove and replace
one socket file. `PROJECT.json` lists these hazards with their lines.

What makes each component correct: a client that has read everything shows the
screen of its session (frames); output is never left in a channel with nobody
woken for it, and comes out in order (PTY); every client in the table is on a
session that exists, every waiting command line is registered for a pane that
exists, empty sessions and finished daemons go away (registry); every pane of a
session is in one tile, the focus stays where the user left it, and what was
saved comes back (layout); the client's scrollback is the pane's (history); a
wrong prediction is gone with the frame that acknowledges it and a right one is
not disturbed (echo); one daemon serves the path, and a client that tries gets
somewhere (local server).

## Modules

| module | what it models |
|---|---|
| `ScreenSync` | from output to the client's grid: damage, snapshots, channels, switching, eviction |
| `MCScreenSync` | small instances of it |
| `ScreenSyncProofs` | type correctness, the inductive invariant, `Accounted`, `PushedToCurrentSession` |
| `ScreenSyncViewProofs` | `SettledMirror` |
| `PtyStream` | abstract: the output of a pane as a stream, and the end of the pane |
| `PtyPump` | reader thread, channel, wake-up permit, draining, replies, exit; implements `PtyStream` |
| `MCPtyPump` | small instances of it |
| `PtyPumpProofs` | type correctness, `NoLostWakeup`, the safety half of the refinement |
| `SessionRegistry` | sessions, panes, clients, waiters, idle shutdown, quitting |
| `MCSessionRegistry` | small instances of it |
| `SessionRegistryProofs` | type correctness, `LiveHome`, `LastSessionOnly`, `WaitsAgree` |
| `Layout` | the tiling layout as pure operators on a value |
| `SessionLayout` | one session: its panes, its layout, its file, restarts; uses `Layout` |
| `MCSessionLayout` | small instances of it |
| `SessionLayoutProofs` | the operators of `Layout`; type correctness, `Arranged`, `CleanMeansSaved`, and what steps do to focus, order and the saved session |
| `ScrollbackSync` | the history of a pane and its copy in a client |
| `MCScrollbackSync` | small instances of it |
| `ScrollbackSyncProofs` | type correctness, `Mirror`; what the fold over the channel computes |
| `Echo` | keys, the program's echo, acknowledgements, and the client's predictions |
| `MCEcho` | small instances of it |
| `EchoProofs` | type correctness, `JudgedAtOnce`, `NoBlindEcho`, `LaterKept` |
| `LocalServer` | daemons and clients at one socket path |
| `MCLocalServer` | small instances of it |
| `LocalServerProofs` | type correctness, `OneServer`, `LegacyKept` |

The specifications of the daemon overlap at the tick loop: each keeps the part
of an iteration its question needs. `ScreenSync` takes the PTYs as sets of rewritten
rows; `PtyPump` is why that is allowed (nothing is lost or reordered on the way,
and whoever writes wakes the loop). `SessionRegistry` takes a reader thread as
the notification it makes when it ends; a reader that leaves without one was
blocked on a full channel, and `NoLostWakeup` says a wake-up was on its way.

### ScreenSync

A row's content is the generation at which it last changed, so `grid[c][p][r] =
screen[p][r]` says that the client shows the row. `damage` is `ClientState.damage`;
the scrollback-replace flag and the column ranges are left out, rows are whole.
`queue[c]` is the client's mpsc channel together with the socket; `outbox[c]`
holds what a handler has built and not yet pushed, either without the lock
(`conn[c] = "joining"`, the first frames) or with it (`holder = c`).

One iteration of `run_tick_loop` is

* `TickDrain` or `TickCollect`: the wake-up and phase 1. Whether `send_frame`
  holds is `due`. Both drain and mark (`Drained`); only `TickCollect` takes the
  damage and snapshots it. A set `G` says which panes held graphemes that a
  delta cannot carry, and `H` for which frames the debounced cursor was held.
  The wait for the lock is part of the action: the permit may be set again
  before it, which `permit' = FALSE` followed by `PtyOutput` covers.
* `TickSend(f)` for each pending frame, in any order: the affinity check, then
  `SendOk`, `SendFail` or `SendSkip`. Phase 2 holds the lock from the first
  frame (`pc = "send"`).
* `TickEnd`: `to_disconnect`, `retry_at`, and the notification after PTY data.

`Attach`, `SwitchSession`, `Resize`, `Input` and `Leave` are the handlers. The
panes whose dimensions change are an arbitrary set `Z`: the layout decides it,
and no property depends on how. `Receive` is the writer task, the network and
`process_server_events` in one step: a socket is first in, first out.

Not in this model: scrollback (`ScrollbackSync`), the cursor's value and echo
acknowledgements (`Echo`), layout (`SessionLayout`), title, clipboard, image and
notification messages, which share the channel. They can
only make it full earlier, which a small `QueueCap` does as well.

### PtyPump and PtyStream

Chunks are numbered as the program writes them, so each stage of the pipeline is
a counter: `written`, `got` (read by the thread), `sent` (in the channel),
`taken` (`try_recv`), `parsed`. `Read`, `Send`, `Notify`, `ReadEof`, `StoreDone`
and `NotifyEof` are the steps between which the thread can be preempted. `TickTake`
is one `try_recv`, so the reader may refill the channel while the loop drains it.
`TickReply` and `InputWrite` are blocking writes with the server lock held. The
exit of a program is two events, `HangUp` (end of file on the terminal) and `Die`
(reapable), seen in either order.

`PtyStream` promises that output is shown in order, that only a pane whose
program ended is reaped, that output of a live pane is shown and that a pane
whose program has ended is reaped. `shown` is `parsed`, `state` is computed from
`fate` and `prog`.

### SessionRegistry

`live` is `Server.sessions`, `newer` the order of `last_attached`, `home`
`ClientState.session_name`, `waits` `pending_pane_waits`. Handlers run under the
lock and are single actions. A pass of the tick loop is `TickWake`, `TickLock`,
`TickSession(s)` for each session in any order (the code iterates a hash map),
`TickIdle`, the end of phase 1, and `TickEnd`; clients may be evicted in between
(`Evict`, whose cause, a full channel, is in `ScreenSync`). That a session had
output, which makes the loop notify itself, is decided in `TickSession`; the
permit is not consumed before the next `TickWake`, so setting it early is the
same. `seen` is the session a client displays, which lags behind `home`.
`quitting` is the gap between a request to quit and `graceful_shutdown`, when no
lock is held; `pc = "grace"` is the 50 ms sleep before an idle shutdown.

For a session that is opened 1 to `MaxRestore` panes are tried, for a template one.
Programs that cannot be started are only logged (`D/server/restore.rs:210`), so any of
the panes, and all of them, may be missing; `unstarted` has the sessions that were
opened without any. Their numbers are used up all the same (`D/session.rs:156`). A pane
that a message creates is one whose program starts; otherwise only a number is used.
`SessionKilled` goes through the channel of the client, whose refusal is only logged
(`D/server/mod.rs:99`): `told` has the clients that were told, `deaf` those whose
channel was full. A refused `SessionSwitched` is why `Learn` need never happen. Answers
to a command line are assumed to fit its nearly empty channel. What a failed program
does to the layout, saved files, autosave and a restart of the daemon are the subject
of `SessionLayout`.

### Layout and SessionLayout

A layout is a value: a sequence of workspaces with the index of the active one,
each a sequence of columns with an active index, each a sequence of tiles with an
active index. An operator of `Layout` stands for a method of `loom-layout`
(`CloseIn` for `Workspace::close_pane`, `CleanupEmpty` for
`WorkspaceSet::cleanup_empty`, `MoveVertically` for `move_pane_up` and
`move_pane_down`, ...). Indices start at 1, so the code's 0 for "no column yet"
is 1. Widths, weights and scroll positions are left out; they decide neither
where a pane is nor what has the focus.

`SessionLayout` gives the operators their callers, one action per handler, for a
session driven by clients with views that may be out of date: `FocusPane` and
`CloseRequest` name any pane, also one that is gone. `TickCloses(D)` is
`cleanup_exited_panes`: the panes of `D` are closed in every order, since the code
iterates a hash map. `dirty`, `disk` and `TickSaves` are the autosave,
`GracefulShutdown`, `DaemonEnds` and `DaemonStarts` the life of the daemon, with or
without a save. `AttachNew` is `get_or_create_session`: the file may be missing or
rejected, and any of its programs may fail to start, so restored layouts may have
blank workspaces. `panicked` is an index outside its sequence; it ends the handler
of one client, and the session goes on.

### ScrollbackSync

A row that scrolls out is a number, so `rows` is the history with what has been
evicted from it and `size` the part the terminal still has; their length is
`history_size` plus the evicted lines, as the code counts. `wake` is the permit, or the
timer set to the next frame: `Drain` leaves it set (the loop notifies itself after
output), and so do the refusal of a frame with history (`frame_pending`) and `Notify`,
which is input, or output of another pane. `Resize` marks damage and does not set it;
`unwoken` notes that. `Drain` and `Snapshot` are phase 1, `SendSkip`, `SendOk` and
`SendFail` phase 2. `Snapshot` needs the wake-up, and a pane that is not in
synchronized output (`hold`, which output may set and clear, or never clear);
`PassOver` is a pass that finds nothing to send and arms no timer. A pass ahead of the
frame's time arms the timer for what it leaves, which is no step here. `Plan` is
`scrollback_sync_plan`. `Resize` takes rows back into the viewport and pushes
others out. `SwitchAway` and `SwitchBack` are `handle_switch_session`, `Reconnect` a
lost connection, after which the client keeps its grid and `SendInitial` delivers
the first frames. `Apply` is the client's `apply_full_sync`. `View` is what the
client will have when it has read everything.

Not in this model: output that clears the history (`CSI 3 J`). The total counts the
rows of the history and the evicted ones (`T/pane/mod.rs:605`), so it should fall below
the watermark, which `Plan` answers with a replacement, as after a resize; but as many
rows may scroll out again before the next frame, and then the watermark says nothing of
it. `Mirror` is not claimed for a pane whose history is cleared.

### Echo

One row of one pane. The program is a line editor; `Habit` lets it obey a key,
ignore it, or answer with output that echoes nothing, and Enter may start a line in
another mode (`plain`, bracketed `paste`, `alt` screen, or `password` with the echo
off). `Input` is `handle_input` with the received number, `Drained` the promotion of
that number by any output, `Throttle` the cursor debounce, `TickFrame` both phases of
the tick loop, since `ScreenSync` has what happens between them. On the client's
side `Predict` is `new_user_input_internal` with a branch for each context and key,
and `Sync` is `on_server_sync`, in its order: `Disturbed` (the reset), `Noticed`,
`ExpireOld`, `Confirm`, `Reject`, `JudgeCursors`, `Tidied`. `Receive(old)` lets any
prefix of the inputs be past its time; `Expire` is the timer of the event loop.
`Display = "adaptive"` is the adaptive display once it is armed.

Left out: line feeds and wraps to another row, wide cells, renditions, underlines,
the round-trip measurement, input that is broadcast to several panes. A frame is
never refused here; `ScreenSync` has that. The program's line ends one column
before the edge, so that a letter inserted anywhere in it finds a blank to push.

### LocalServer

Daemons and clients are processes that interleave at each system call on the
socket path and on the lock file. `path` is whose socket is there, live or stale;
`Answers` says that a connection would be accepted. `Lock`, `Bind`, `Probe`,
`Check`, `Remove`, `Rebind`, `Listen` (the second system call of `UnixListener::bind`,
before which a connection is refused) and `Permit` are `unix_socket::bind`;
`ShutDown`, `RemoveSocket`, `Release` and `Exit` the end of a daemon.
`graceful_shutdown` unlocks the state before it removes the socket, and a second
request returns at once (`D/connection.rs:27,50-51`) and ends the accept loop, which
holds the lock file (`D/mod.rs:377-382`): so `Release` may come before `RemoveSocket`
(`"late"`). `Crash` leaves the socket. `Legacy` is a daemon of a version that took no
lock. A client is opened once; one that is opened again is another. It is
`ProbeServer` (`server_is_running`) and `Unlink` of what did not answer, `ProbeFails`
(any other error of the connection, which counts as no answer), `Launch` (which does
nothing while the copy it has launched runs), `Connect` every 20 ms, `Judge` and `TimeOut` (`spawned_server_state`), `Welcome`, `Lost`, and
`Retry` with the attempts of `ReconnectState`. The user may cancel at any time.
`served` is the flag of `SPAWNED_SERVER`; `unlinked` records history: the daemons whose
socket was removed while it was bound by a process without the lock. Of the old daemon
it records only what a failed probe and an end of its own do, so that `LegacyKept` says
of an ordinary probe that it keeps its hands off.

Left out: named pipes on Windows, tunnels and slots for remote hosts, the 30 s limit
on the server's hello, `loomtty web`, an old daemon that starts later, and errors of the
daemon's own probe other than a refusal, which end it as an answer does.

## Checks

`tlc -workers 2 -config X.cfg M` in this directory, for the module and the
configuration of each run.

| run | configuration | result | shows |
|---|---|---|---|
| switch | `ScreenSync_switch.cfg` | holds, 1.2 M states | `SettledMirror`: whatever the tick loop is doing while a client switches between two sessions, once it has read everything it has the panes of its session, and each row is current, marked, or an exception. `PushedToCurrentSession`: a frame of another session never enters its channel |
| live | `ScreenSync_live.cfg` | holds, 57 k | `Accounted`: no row change is forgotten; `IInv`, the invariant its proof is about. `OutputSnapshot`: the permit or the frame timer is there whenever rows are marked. `FullSyncRetried`: a refused full sync is retried until it, or a later one, is pushed |
| stream | `PtyPump_stream.cfg` | holds, 18 k | `NoLostWakeup`: output or an end of file has a wake-up on its way. `StreamImplemented`: the pump implements `PtyStream`, liveness included |
| homes | `SessionRegistry_homes.cfg` | holds, 1.8 M | `LiveHome` (a client is on a session that exists, or was told, or its channel had no room), `WaitsAgree`, `LastSessionOnly` for two clients, one command line, two sessions, templates |
| ends | `SessionRegistry_ends.cfg` | holds, 50 k | `EmptySessionGone`: a session that lost its panes goes; one that never had any, as soon as something wakes the loop. `QuitEnds` |
| layout | `SessionLayout_layout.cfg` | holds, 232 k | `Arranged`: tiles and panes agree and every index the code uses unchecked points somewhere. `CleanMeansSaved`: no change escapes the autosave. `FocusStays`, `FocusGoesUp`: what the end of a pane does to the focus. `MovesAlone`: a move disturbs no other pane. `RestartKeeps`: what a shutdown saved comes back |
| scroll | `ScrollbackSync_scroll.cfg` | holds, 672 k | `Mirror`: the client's scrollback is the pane's history up to the watermark, without a gap or repetition, except where `astray` says why. `CatchesUp`: damage brings the watermark up to the history though frames are refused and output is held back for a while, unless a resize has marked it and nothing woke the loop since |
| echo | `Echo_echo.cfg` | holds, 373 k | `JudgedAtOnce`, `LaterKept`: a frame settles what it acknowledges and leaves the rest alone. `NoBlindEcho`: no prediction is shown after Enter before a frame has acknowledged a key typed after it. `Converges`: the picture becomes the program's |
| launch | `LocalServer_launch.cfg` | holds, 311 k | `OneServer`: a daemon that serves is at the path, unless a process without the lock removed its socket. `LegacyKept`. `Settles`: a client that tries comes to an outcome, and does not launch copy after copy; that it does not give up too early is not said |
| expel, twice, unlink | | violated | the disagreements below |

Each module's `TypeOK` is checked once. It also relates the variables: the order of
the stages of the pump, of the acknowledgements and of the epochs; who owns the lock.

The exceptions in `Accounted` and `SettledMirror` are variables of the model, so
that they are visible: `dropped` (a delta refused by a full channel; its damage
was taken and is not put back), `reordered` (an older full sync pushed after a
newer frame), `blind` (a `StateSync` refused by a full channel). The properties
say that these are the only ways to lose a row. `astray` in `ScrollbackSync` is of
the same kind: a full sync of a switch that the channel refused (`D/server/mod.rs:99`,
the watermark is set all the same), a frame from before a switch away and back
(`D/tick.rs:636`), a frame ahead of the first ones (`D/connection.rs:257`), a resize
in the alternate screen (`D/tick.rs:323`, which forgets the replacement), and an
attachment in it (`D/server/mod.rs:231`). The next replacement ends all of them.
`deaf` excepts from `LiveHome` a client whose channel refused `SessionKilled`;
`unstarted` excepts from `EmptySessionGone` a session that never had a pane and that
nothing wakes the loop for; `unwoken` excepts from `CatchesUp` what a resize has marked
(`D/session.rs:390`), and `hold` a program that does not end its synchronized output
(`D/tick.rs:285`, which has no time limit). `unlinked` excepts from `OneServer` a daemon
whose socket was removed without the lock: by a client (the finding below), by an old
daemon that ends, or by a daemon that two requests shut down, which had released its
lock before (`D/connection.rs:27,50-51`); with any one of the three not excepted TLC
finds a violation. `ShiftsFocus` is the exception of `FocusStays`: closing a column to the left of the
active one does not shift the index (`loom-layout/src/workspace.rs:369`).

Bounds. Two versions of a row distinguish old from new, three allow a change
while an older frame is under way; no property of `ScreenSync` relates two clients,
and the proofs hold for any number; two sessions are what a switch needs; a channel
of two messages is full after the first frames of one pane, so refusal, retry and
eviction all happen within a few steps; `MaxFailures` stands for the 100 of the code,
and 2 keeps the difference between the first refusal and the last. Four chunks of
output fill a PTY channel of two slots, so that the reader blocks, and one chunk of
terminal buffer makes the program block. Two panes created are enough for two sessions to end in one pass,
and for a pane to be created, waited for, and closed, killed or replaced.
Three panes are enough for a middle element of every sequence of the layout, and
since a closed pane's name is free again, sequences of operations are unbounded.
Two rows of history rotate with the third row that scrolls out, when a client that keeps
two trims as well; a channel of one is full with one frame, behind which the first
frames of a new connection may wait (`twice`, which needs no refusal, has one row and a
channel of two).
Three keys allow a wrong prediction with a later one behind it, of which one is
Enter; a row of four columns has the prompt, two places and the edge; one frame under
way is enough for a prediction to be older or newer than a frame, because keys and
output go on. Two clients race for the path, two daemons for the lock, and two
events are a shutdown, a crash or a failed probe and another one while the first is
being repaired; one attempt is enough to run out of them. Larger instances were
run by hand: `Echo` in all four modes (481 k states), with Escape (593 k), with Right
(591 k).
Symmetry is used for clients, panes and sessions, in runs without liveness only.
`CHECK_DEADLOCK FALSE` is given everywhere because the bounds on generations,
chunks, panes, rows, keys and events, and the end of the daemon, stop the models.

Fairness. Tasks and threads are scheduled (weak fairness of each step). The
server lock is a tokio `Mutex`, which is first come first served, so the tick
loop, whose lock handlers take again and again, gets it (strong fairness of
`Tick`, `TickLock` and the shutdown steps). Time passes (`FrameDeadline`,
`Timeout`). Nothing is assumed of clients in `live`; programs may write, read or
exit when they like, except that `stream` needs a program that reads its input
(`ProgRead`): the code writes to the PTY with the lock held, so a program that
does not read while the daemon owes it replies stops the daemon, and the model
with it. `ReadingSpec` adds clients that read and hang up when the server closed
the connection. In `scroll` the client reads, its handler sends the first
frames, and the tick loop runs once it has been woken (`Tick`): neither a wake-up nor
the end of synchronized output is assumed. In `echo` everything runs but the user, who
need not type, and `Expire` is the passing of 8 s; `WF_chan(Deliver)` is the fairness of
`Receive`, the one step that takes a frame from the channel. In `launch` the steps of a daemon
and of a client are fair, starts, shutdowns and crashes are not, and `TimeOut` is
strongly fair: the 1 s or 15 s go on while the client tries every 20 ms.

## Disagreements

Each is a run in which TLC finds a behaviour of the code that a comment excludes.

* **expel** (`loom-layout/src/workspace.rs:426`): `expel_active_tile` indexes the
  active column before it looks whether there is one. A session whose first program
  could not be started has none, and `ExpelFromColumn` panics.
* **twice** (`D/server/mod.rs:231`): a client that reconnects while the pane shows the
  alternate screen keeps its scrollback, gets no replacement, and its watermark is
  set to 0; when the alternate screen ends it gets the whole history again.
* **unlink** (`crates/loom/src/connection.rs:680`): a client that was refused removes
  the socket without the lock and without looking again. In TLC's trace the daemon that
  another client has launched has bound and does not listen yet when the probe is
  refused; it serves by the time its socket is removed, and cannot be reached. After a
  crash two clients that try at the same moment do the same to each other over the stale
  socket.

Others are stated in the modules without a run of their own. TLC refutes each when
it is put in a configuration:

| property | where | what happens |
|---|---|---|
| `StaleFrameDropped` | `ScreenSync`, `D/tick.rs:636` | the affinity check compares names: a client that switches from A to B and back between the phases gets a frame from before the switch, after the newer full sync |
| `EvictedClientDisconnects` | `ScreenSync`, `D/connection.rs:267` | first frames that do not fit the channel are awaited before the writer exists; the handler hangs, and evicting the client closes nothing |
| `ExitCodeCaptured` | `PtyPump`, `T/pane/mod.rs:392` | end of file may be seen before the process is reapable; it is asked for once more and then the pane goes, so `run-command --wait` has no exit code |
| `IdleEnds` | `SessionRegistry`, `D/tick.rs:533` | nothing wakes the tick loop at the idle deadline, nor when the last client leaves after the last session |
| `WaitedPaneExists` | `SessionRegistry`, `D/server/template.rs:186` | replaced panes do not answer their waiters |
| `FrameKeepsPicture` | `Echo`, `D/server/mod.rs:283` | a frame that acknowledges an input carries the debounced old cursor, so the client rejects a right prediction of the cursor (one mode, `Display = "always"`, two keys, Left and Right) |
| `EchoedBeforeShown` | `Echo`, `crates/loom-app/src/prediction/mod.rs:122` | predictions are shown after Enter though nothing typed after it has been echoed: the late echo of an older key, acknowledged with a later number, is what an epoch's prediction expects, and confirms it (four keys: x, Enter, and after the overlay expired x and x) |

And some are in the models as the code has them, and worth a reader's attention. A
daemon that is asked twice to shut down may release its lock before it removes its
socket, and then removes that of the daemon that came after it (`unlinked`). A client
whose channel is full when its session is killed is not told; a session none of whose
programs could be started, and the damage of a resize, wait for somebody else to wake
the tick loop. A client that attaches during the 50 ms before an idle shutdown is shut
down with its session (`IdleShutdown` does not look again). `ClosePane` answers a waiter even when
the pane is not in the session the closing client has just been moved to.
`init_default_workspace` does not reset the active workspace, and panics when a restore
has started no program and the saved index was not the first (`AttachDefault`). A
layout with a blank workspace does not validate, so after a partly failed restore the
session is not saved until the workspace has gone, neither by the autosave nor at
shutdown. Output that is in the terminal but not read promotes every number
received, so a burst of keys is acknowledged before all of it is echoed. A rejected
Backspace stays until it expires when no output follows, since the client asks for
both numbers (`prediction/sync.rs:224`; the comment at `D/tick.rs:305` says otherwise).
A client whose daemon loses the race for the lock gives up for good, also when the
winner is a daemon that is closing; one whose connection ends before the hello does,
too. The attempt counter starts anew as soon as the connection's thread runs, so the
limit and the growing back-off apply to errors of starting it only.

## Proofs

`tlapm M.tla` checks `ScreenSyncProofs`, `ScreenSyncViewProofs`, `PtyPumpProofs`,
`SessionRegistryProofs`, `LocalServerProofs`, `SessionLayoutProofs`,
`ScrollbackSyncProofs` and `EchoProofs`; all hold for every value of the constants that the named
assumptions allow (`ConstantsAssumption`, `PumpAssumption`, `RegistryAssumption`,
`ServerAssumption`, `SessionAssumption`, `ScrollbackAssumption`, `EchoAssumption`).

* `TypeCorrect`, `Inductive`, `Accounting` (`ScreenSyncProofs`). `Accounted` is
  not inductive: pushing a frame makes its rows "sent", so what the frame
  carries has to be known before. `IInv` adds that a snapshot which will be
  pushed is current or its rows are marked again (`BatchFresh`), the same of a
  full sync that a handler built (`OutboxFresh`), and where frames come from
  (`Structure`: the batch is empty while the loop waits, a frame's session owns
  its pane, a full frame has all rows). The proof has a step for each action;
  the actions that resize panes and those that push share lemmas.
* `Affinity` (`ScreenSyncProofs`): `PushedToCurrentSession`. A snapshot waits in the
  batch while handlers switch clients; the push compares its session with the
  client's (`SameSession`), and `Structure` says that its session owns its pane. What a
  handler still has to push is not compared with anything: `Addressed` says that it is
  of the client's session because the handler holds the lock until it is pushed.
* `Settled` (`ScreenSyncViewProofs`): `SettledMirror`, the daemon's accounts seen from the
  client. `IInv` says how what was pushed last (`sent`) differs from the screen; what is
  missing is that the client ends up with it, although it ignores frames of panes it
  does not expect. `Expects` says which panes a client will expect when it comes to a
  message of its channel, `Shows` which content a row will have; both are defined by the
  last message that matters instead of a fold over the channel, so that a push and a
  read are arithmetic on indices (`ExpectsAfter`, `ExpectsRest`, `ShowsNew`,
  `ShowsRead`). The invariant `View` adds that a handler's frames follow their StateSync
  and none is missing (`Outgoing`).
* `PumpTypes`, `Wakeup`, `StreamSafety` (`PtyPumpProofs`). The invariant is
  `TypeOK`, `NoLostWakeup` and `Sound`, which ties the program counters of the
  tick loop to the lock, the pane in hand and the panes marked as exited.
  `NoLostWakeup` is the code's own comment at the end of the loop: a permit
  consumed there could strand a reader on a full channel. `StreamSafety` maps
  each step of the pump to a step of `PtyStream` or a stutter.

* `RegistryTypes`, `Homes`, `LastOnly`, `Waiters` (`SessionRegistryProofs`). One invariant,
  `Inv`, of five parts. The order of `last_attached` is strict and total on the sessions
  there are (`Ordered`), so a finite set of them has one that was attached to last
  (`LastAttached`, by the least number of sessions newer than it), and `Fallback`
  returns a live session (`FallbackLives`): that is what `Homes` and `LastOnly` need. When
  there is none, `Finalize` puts each client of the session into `told` or `deaf`.
  Pane numbers below `next_pane_id` are never used again (`PaneTable`), so a new
  registration meets no old one (`CreateKeeps`).
* `ServerTypes`, `OneOwner`, `OldKept` (`LocalServerProofs`). `OneServer` follows from
  the lock, which `TypeOK` ties to the place of each daemon from taking it to releasing
  it, and from `unlinked`: who holds the lock finds its socket at the path from `Bind`
  to `RemoveSocket`, unless a step of somebody else has put it into `unlinked`.
  `LegacyKept` is not inductive: a daemon or a client that has found nobody at the path
  acts on it some steps later. `ServersCleared` and `ClientsCleared` say that whoever is
  about to take the path has seen that the old daemon does not run, and `OldAnswers`
  that it answers as long as it does. `ClientMoves` lists once what each step makes of
  a client's record, `Gone` and `Ended` what the steps of a daemon have in common.
* `TypesHold`, `LayoutArranged`, `CleanSessionsSaved` (`SessionLayoutProofs`). The
  invariant `SessionInv` says more than `Arranged`: every layout, the saved ones
  included, is `Well`, because a restore makes one of them the layout of a session.
  `Well` says what the operations of `crates/loom-layout` need of each other: an active
  tile in each column, an active column in each workspace that has any, no pane twice.
  Each of its three levels (a column, the columns of a workspace, the workspaces of a
  layout) has lemmas for removal, insertion and replacement at an index, from which those
  about the operations follow (`CleanupEmptyWell`, `ClosePaneWell`, `MoveVerticallyWell`, `RestoredWell`,
  ...). `AtIndices`, the part of a sequence at a set of indices, keeps an order: its
  lemmas rank indices (`Rank`, `Nth`). Counting places and closing several panes at once
  (`FoldClosesWell`) are inductions over data; they are done by the least counterexample
  (`LeastNat`), which needs no theorem with an operator as a parameter.
* `FocusUndisturbed`, `FocusAbove` (`SessionLayoutProofs`). `CleanupEmptyFocus` says
  which workspace has the focus after a cleanup: `Heir`, the active one if it is not
  blank, else its neighbour. When several panes end, that no column to the left of the
  focus is emptied has to hold again after each of them: `Guarded` is what
  `ClosePaneFocus` keeps, and `FoldFocus` carries it through a run of closes (`IsRun`,
  `FoldRun`).
* `MovedAlone` (`SessionLayoutProofs`). The order of two panes is one of three: within a
  column, between the columns of a workspace, between workspaces (`InColumn`, `InRow`,
  `InStack`; `PrecedesIs`). A change of a sequence keeps an order if the indices of what
  holds the two panes go where an increasing map sends them (`KeepsInColumn`,
  `KeepsInRow`, `KeepsInStack`); taking out, inserting and replacing give such a map, a
  cleanup and a restore give `Rank`. Keeping the order one way is enough, since no pane
  is in two places (`OrderKept`).
* `PromiseAlways`, `ComesBack` (`SessionLayoutProofs`). `PromiseKept` says that what a
  shutdown saved is still in the file when a client attaches. A restore that starts every
  program is then the identity: `AllIndices`, and indices that the validation has
  accepted are not clamped (`WholeColumn`, `WholeWorkspace`, `WholeLayout`). When no
  program starts, the code creates one new pane instead; if that is what the saved
  layout had, validation leaves it only one form (`OnlyPane`). `RestoredOrder` is the
  order of what could be started.
* `SyncTypes`, `WatermarkTrue` (`ScrollbackSyncProofs`). `Mirror` speaks of the scrollback
  after all that is queued, a fold over the channel. `RunIsFold` says that the fold is the
  last element of its run (its existence and uniqueness are proved by the least
  counterexample); a message at the end of the channel and one read at its head are then
  lemmas (`AfterAppend`, `AfterHead`). `SyncInv` adds to `Mirror` what the frame between
  the phases holds (`Brings`): the rows between the watermark and the history it was made
  of, or a replacement, unless the client was away or a resize has marked another. A
  frame that replaces by the watermark's own decision does not suspend the claim, because
  when it is refused it is asked for again as an ordinary full sync (`Following`, which
  excepts less than `Mirror`). The steps that change only `wake`, `hold` and `unwoken`
  leave all of it alone (`FlagsStay`).
* `EchoTypes`, `PredictionsJudged`, `EnterHides`, `AgreeingFramesKeep` (`EchoProofs`). The
  invariant `EchoInv` has five parts: the types, with the order of the numbers and epochs in
  an overlay; what is predicted is younger than the last frame that was applied (`Timely`);
  the program's cursor stays on its line (`LineKept`); predictions and frames stand between
  the prompt and the edge (`Anchored`); and `Tentative`, which `NoBlindEcho` needs: as long as
  no frame has acknowledged a key typed after Enter, no epoch later than Enter's is
  confirmed, and what is predicted has a later one. A frame can confirm only an epoch whose
  prediction it acknowledges, and Enter starts an epoch, whatever the overlay was before.
  The client's operators are a dozen functions of an overlay, so each has one lemma that it
  keeps the types and one that it `Extends` or `Reduces` the overlay: what it may do to the
  epochs and which predictions it may add. `AgreeingFramesKeep` follows the overlay through
  the stages of `on_server_sync` when everything judged agrees: nothing is rejected, and a
  later prediction comes out as it went in.
  Two corrections came out of the attempt. A line as long as the row let the cursor leave it
  in larger instances, so `Editable` keeps its last column blank. And `NoBlindEcho` used to
  demand an echo instead of an acknowledgement, which three keys do not refute and four do
  (`EchoedBeforeShown`, above).

Only model-checked: everything temporal with fairness (`OutputSnapshot`,
`FullSyncRetried`, the liveness of `PtyStream`, `EmptySessionGone`, `QuitEnds`,
`CatchesUp`, `Converges`, `Settles`), which the provers do not reach.

## Not modelled

* Rendering, GPU back ends, UI, animation, mouse and palettes, configuration, plugins
  and system probes: most of the repository's lines. They hold no state that several
  actors share, and their results are pictures.
* Codec and escape-sequence parsers: they work on bytes, and a model of them would be a
  transliteration.
* The web gateway: two semaphores whose permits are released when the values that own
  them are dropped, which a model would assume. The web client repeats the desktop
  client's event application in TypeScript, without prediction.
* Windows: named pipes, and ConPTY teardown (`T/pty.rs:391`), where the reader meets end
  of file only after `ClosePseudoConsole`.
* Remote hosts: ssh tunnels, remote probes and connection slots.
* Leader keys and bindings: a table and a timer in one thread.

## Plan

1. Connection slots: `switch_to_slot` starts the numbers of inputs anew while the
   server's live on (`crates/loom/src/app/mod.rs:876`), to be composed with `Echo`.
2. The composition of `ScrollbackSync` with the refusals of `ScreenSync` for several
   clients of one pane, whose resizes mark each other's replacement.
3. The safety half of what the liveness properties rest on, where it is not stated yet:
   for `QuitEnds` and `EmptySessionGone`, what a daemon that stops has left to do.
