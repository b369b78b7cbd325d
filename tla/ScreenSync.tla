----------------------------- MODULE ScreenSync -----------------------------
(***************************************************************************)
(* How a pane's screen reaches the clients of its session.                 *)
(*                                                                         *)
(* The daemon keeps one terminal screen per pane and, for every attached   *)
(* client, a damage accumulator per pane.  The tick loop (tick.rs) wakes   *)
(* on a coalescing notification or on a frame deadline, drains the PTYs    *)
(* and marks damage under the server lock, takes the damage of each client *)
(* and snapshots the damaged rows, releases the lock to encode, takes it   *)
(* again and pushes each frame with try_send on the client's bounded       *)
(* channel.  Connection handlers run between these steps: they attach a    *)
(* client, switch its session, resize panes, or drop the client.           *)
(*                                                                         *)
(* A row's content is the generation at which it last changed, so "the     *)
(* client shows the row" means the two numbers are equal.                  *)
(***************************************************************************)
EXTENDS Naturals, Sequences, FiniteSets

CONSTANTS
    Client,       \* connections the daemon may hold
    Session,      \* session names
    Pane,         \* panes, all sessions together
    Row,          \* viewport rows of a pane
    SessionOf,    \* the session that owns a pane
    Target,       \* sessions that clients ask to switch to
    AltScreen,    \* panes on the alternate screen: no cursor debounce there
    SyncPane,     \* panes whose program uses synchronized output (DEC 2026)
    NoSession,    \* not in the server's client table
    QueueCap,     \* capacity of a client's channel (256 in the code)
    MaxFailures,  \* consecutive failed sends before eviction (100)
    MaxVersion    \* bound of the model: how far a pane's generation goes

ASSUME ConstantsAssumption ==
    /\ SessionOf \in [Pane -> Session]
    /\ Target \subseteq Session
    /\ AltScreen \subseteq Pane /\ SyncPane \subseteq Pane
    /\ NoSession \notin Session /\ "none" \notin Client
    /\ QueueCap \in Nat \ {0}
    /\ MaxFailures \in Nat \ {0}
    /\ MaxVersion \in [Pane -> Nat]

VARIABLES
    \* --- the panes
    ptyRows,      \* rows rewritten by output waiting in the PTY channel
    ptySync,      \* DEC 2026 mode once that output is parsed
    screen,       \* screen[p][r]: generation of the row's content
    version,      \* Session.generation
    syncOutput,   \* Pane.is_sync_output: frames are withheld
    \* --- the tick loop
    pc,           \* "wait", "encode" (unlocked) or "send" (lock held)
    permit,       \* the Notify permit
    retry,        \* retry_at is armed
    due,          \* next_frame has been reached
    batch,        \* pending_sends: frames snapshot in phase 1
    framePending, \* frame_pending or cursor_held_pending
    hadData,      \* had_pty_data
    evict,        \* to_disconnect
    \* --- the server's client table and the connection handlers
    conn,         \* "off", "joining" (initial frames unsent), "on"
    sess,         \* ClientState.session_name, NoSession when absent
    damage,       \* ClientState.damage
    fails,        \* ClientState.send_failures
    holder,       \* the handler that holds the server lock, if any
    outbox,       \* messages a handler has built and not yet pushed
    queue,        \* the client's mpsc channel and socket
    \* --- the client
    expected,     \* expected_pane_ids
    grid,         \* pane_grids
    \* --- history variables
    sent,         \* content of the last frame pushed for each row
    dropped,      \* rows of a delta that try_send refused
    reordered,    \* panes for which an older frame followed a newer one
    blind         \* a StateSync was refused by a full channel

panes   == <<ptyRows, ptySync, screen, version, syncOutput>>
tick    == <<pc, permit, retry, due, batch, framePending, hadData, evict>>
table   == <<conn, sess, damage, fails, holder, outbox, queue>>
view    == <<expected, grid>>
history == <<sent, dropped, reordered, blind>>
vars    == <<panes, tick, table, view, history>>

-----------------------------------------------------------------------------
(* Data.                                                                   *)

None == "none"

\* DamageAccumulator, without the scrollback-replace flag and column ranges.
Damage == [full : BOOLEAN, lines : SUBSET Row, cursor : BOOLEAN]
Clean  == [full |-> FALSE, lines |-> {}, cursor |-> FALSE]

DamageIsEmpty(d) == ~d.full /\ d.lines = {} /\ ~d.cursor
MarkFull(d)      == [d EXCEPT !.full = TRUE, !.lines = {}]
MergeRanges(d, R) == IF d.full THEN d ELSE [d EXCEPT !.lines = @ \cup R]
MarkCursor(d)    == [d EXCEPT !.cursor = TRUE]
Covers(d, r)     == d.full \/ r \in d.lines

Cells == [Row -> Nat]

\* One PendingSend: a FullSync carries every row, a delta the damaged ones.
\* "stale" is history: the client changed session after the snapshot.
Frame == [client : Client, session : Session, pane : Pane, full : BOOLEAN,
          lines : SUBSET Row, cells : Cells, stale : BOOLEAN]

FrameMsg    == [kind : {"frame"}, pane : Pane, lines : SUBSET Row, cells : Cells]
StateMsg    == [kind : {"state"}, session : Session]
SwitchedMsg == [kind : {"switched"}, session : Session]
Message     == FrameMsg \cup StateMsg \cup SwitchedMsg

Rank(m) == CASE m.kind = "switched" -> 0
             [] m.kind = "state"    -> 1
             [] m.kind = "frame"    -> 2

PanesOf(s)  == {p \in Pane : SessionOf[p] = s}
ClientsOf(s) == {c \in Client : sess[c] = s}

FullMsg(p, cells) ==
    [kind |-> "frame", pane |-> p, lines |-> Row, cells |-> cells]

\* build_state_sync: StateSync, then one FullPaneSync per pane.
StateSync(s, cells) ==
    {[kind |-> "state", session |-> s]}
        \cup {FullMsg(p, cells[p]) : p \in PanesOf(s)}

RoomOffByOne(c) == Len(queue[c]) <= QueueCap
Room(c) == Len(queue[c]) < QueueCap
Overlay(old, lines, cells) ==
    [r \in Row |-> IF r \in lines THEN cells[r] ELSE old[r]]

LockFree == pc # "send" /\ holder = None

-----------------------------------------------------------------------------
Init ==
    /\ ptyRows      = [p \in Pane |-> {}]
    /\ ptySync      = [p \in Pane |-> FALSE]
    /\ screen       = [p \in Pane |-> [r \in Row |-> 1]]
    /\ version      = [p \in Pane |-> 1]
    /\ syncOutput   = [p \in Pane |-> FALSE]
    /\ pc           = "wait"
    /\ permit       = FALSE
    /\ retry        = FALSE
    /\ due          = TRUE
    /\ batch        = {}
    /\ framePending = FALSE
    /\ hadData      = FALSE
    /\ evict        = {}
    /\ conn         = [c \in Client |-> "off"]
    /\ sess         = [c \in Client |-> NoSession]
    /\ damage       = [c \in Client |-> [p \in Pane |-> Clean]]
    /\ fails        = [c \in Client |-> 0]
    /\ holder       = None
    /\ outbox       = [c \in Client |-> {}]
    /\ queue        = [c \in Client |-> <<>>]
    /\ expected     = [c \in Client |-> {}]
    /\ grid         = [c \in Client |-> [p \in Pane |-> [r \in Row |-> 0]]]
    /\ sent         = [c \in Client |-> [p \in Pane |-> [r \in Row |-> 0]]]
    /\ dropped      = [c \in Client |-> {}]
    /\ reordered    = [c \in Client |-> {}]
    /\ blind        = [c \in Client |-> FALSE]

-----------------------------------------------------------------------------
(* The environment: programs in the panes, and time.                       *)

\* The reader thread hands over output that rewrites the rows R and leaves
\* the pane in sync mode m, then notifies the tick loop.
PtyOutput(p, R, m) ==
    /\ version[p] < MaxVersion[p]
    /\ R # {} \/ m # ptySync[p]
    /\ m => p \in SyncPane
    /\ ptyRows' = [ptyRows EXCEPT ![p] = @ \cup R]
    /\ ptySync' = [ptySync EXCEPT ![p] = m]
    /\ permit' = TRUE
    /\ UNCHANGED <<screen, version, syncOutput, pc, retry, due, batch,
                   framePending, hadData, evict, table, view, history>>

\* Instant::now() reaches next_frame.
FrameDeadline ==
    /\ ~due
    /\ due' = TRUE
    /\ UNCHANGED <<panes, pc, permit, retry, batch, framePending, hadData,
                   evict, table, view, history>>

-----------------------------------------------------------------------------
(* The tick loop.                                                          *)

HasData(p) == ptyRows[p] # {} \/ ptySync[p] # syncOutput[p]

\* wait_for_tick: the permit, or the armed frame deadline.
Woken ==
    \/ permit /\ permit' = FALSE
    \/ retry /\ due /\ UNCHANGED permit

\* process_pty_and_damage parses what the PTYs hold ...
DrainPanes ==
    /\ version' = [p \in Pane |-> IF ptyRows[p] = {} THEN version[p]
                                                     ELSE version[p] + 1]
    /\ screen' = [p \in Pane |-> [r \in Row |->
                     IF r \in ptyRows[p] THEN version[p] + 1 ELSE screen[p][r]]]
    /\ syncOutput' = ptySync
    /\ ptyRows' = [p \in Pane |-> {}]
    /\ hadData' = \E p \in Pane : HasData(p)
    /\ UNCHANGED ptySync

\* ... and marks it in the accumulators of the session's clients; panes in G
\* hold graphemes a delta cannot carry.
Drained(c, p, G) ==
    LET d == damage[c][p] IN
    IF sess[c] # SessionOf[p] \/ ~HasData(p) THEN d
    ELSE IF ptyRows[p] = {} THEN MarkCursor(d)
    ELSE IF p \in G THEN MarkCursor(MarkFull(d))
    ELSE MarkCursor(MergeRanges(d, ptyRows[p]))

\* Accumulators a frame may be taken from: DEC 2026 withholds the pane.
Sendable(c, p, G) ==
    /\ sess[c] = SessionOf[p]
    /\ ~ptySync[p]
    /\ ~DamageIsEmpty(Drained(c, p, G))

\* Phase 1 before the frame deadline: damage stays, the timer will send it.
TickDrain ==
    /\ pc = "wait"
    /\ holder = None
    /\ Woken
    /\ ~due
    /\ DrainPanes
    /\ \E G \in SUBSET {p \in Pane : ptyRows[p] # {}} :
         /\ damage' = [c \in Client |-> [p \in Pane |-> Drained(c, p, G)]]
         /\ framePending' = \E c \in Client, p \in Pane : Sendable(c, p, G)
    /\ pc' = "encode"
    /\ retry' = FALSE
    /\ UNCHANGED <<due, batch, evict, conn, sess, fails, holder, outbox, queue,
                   view, history>>

\* The snapshot of one client's damage of one pane, and the same taken from
\* the screen as it was before the drain.
SnapshotBeforeDrain(c, p, d) ==
    [client |-> c, session |-> SessionOf[p], pane |-> p, full |-> d.full,
     lines |-> IF d.full THEN Row ELSE d.lines,
     cells |-> [r \in Row |-> IF Covers(d, r) THEN screen[p][r] ELSE 0],
     stale |-> FALSE]
Snapshot(c, p, d) ==
    [client |-> c, session |-> SessionOf[p], pane |-> p, full |-> d.full,
     lines |-> IF d.full THEN Row ELSE d.lines,
     cells |-> [r \in Row |-> IF Covers(d, r) THEN screen'[p][r] ELSE 0],
     stale |-> FALSE]

\* The pairs whose damage a due frame takes.
Ready(G) == {cp \in Client \X Pane : Sendable(cp[1], cp[2], G)}

\* Take the damage and snapshot it.  For the pairs in H the debounced cursor is
\* held back, which marks the cursor again.
Collect(G, H) ==
    /\ batch' = {Snapshot(cp[1], cp[2], Drained(cp[1], cp[2], G)) : cp \in Ready(G)}
    /\ damage' = [c \in Client |-> [p \in Pane |->
                    IF <<c, p>> \notin Ready(G) THEN Drained(c, p, G)
                    ELSE IF <<c, p>> \in H THEN MarkCursor(Clean)
                    ELSE Clean]]
    /\ framePending' = (H # {})
    /\ due' = (Ready(G) = {})

\* Phase 1 on a due frame.
TickCollect ==
    /\ pc = "wait"
    /\ holder = None
    /\ Woken
    /\ due
    /\ DrainPanes
    /\ \E G \in SUBSET {p \in Pane : ptyRows[p] # {}} :
         \E H \in SUBSET {cp \in Ready(G) : cp[2] \notin AltScreen} : Collect(G, H)
    /\ pc' = "encode"
    /\ retry' = FALSE
    /\ UNCHANGED <<evict, conn, sess, fails, holder, outbox, queue, view, history>>

\* A handler builds StateSync and FullPaneSync before it pushes them; a tick
\* frame that gets ahead of the pane's FullPaneSync is overwritten by it.
Overtakes(f) ==
    \E m \in outbox[f.client] : m.kind = "frame" /\ m.pane = f.pane

\* The affinity check of phase 2.
ClientKnown(f) == sess[f.client] # NoSession
SameSession(f) == sess[f.client] = f.session

\* Phase 2, accepted: the frame still belongs to the client's session.
SendOk(f) ==
    LET c == f.client IN
    /\ SameSession(f)
    /\ Room(c)
    /\ queue' = [queue EXCEPT ![c] = Append(@,
                    [kind |-> "frame", pane |-> f.pane, lines |-> f.lines,
                     cells |-> f.cells])]
    /\ fails' = [fails EXCEPT ![c] = 0]
    /\ sent' = [sent EXCEPT ![c][f.pane] = Overlay(@, f.lines, f.cells)]
    /\ dropped' = [dropped EXCEPT ![c] =
                      @ \ {pr \in @ : pr[1] = f.pane /\ pr[2] \in f.lines}]
    /\ reordered' = [reordered EXCEPT ![c] =
                        IF Overtakes(f) \/ f.stale THEN @ \cup {f.pane}
                        ELSE IF f.full THEN @ \ {f.pane} ELSE @]
    /\ UNCHANGED <<damage, framePending, evict, blind>>

\* A full sync that could not be pushed is marked again.
Forget(d) == d
Remark(d) == MarkFull(d)

\* Phase 2, refused by a full channel: a FullPaneSync is marked again, the
\* damage of a delta is gone.
SendFail(f) ==
    LET c == f.client IN
    /\ SameSession(f)
    /\ ~Room(c)
    /\ fails' = [fails EXCEPT ![c] = @ + 1]
    /\ evict' = IF fails[c] + 1 >= MaxFailures THEN evict \cup {c} ELSE evict
    /\ IF f.full
       THEN /\ damage' = [damage EXCEPT ![c][f.pane] = Remark(@)]
            /\ framePending' = TRUE
            /\ UNCHANGED dropped
       ELSE /\ dropped' = [dropped EXCEPT ![c] = @ \cup ({f.pane} \X f.lines)]
            /\ UNCHANGED <<damage, framePending>>
    /\ UNCHANGED <<queue, sent, reordered, blind>>

\* Phase 2, the client is gone or has switched session: the frame is dropped.
SendSkip(f) ==
    /\ ~SameSession(f)
    /\ UNCHANGED <<queue, fails, sent, dropped, reordered, damage, framePending,
                   evict, blind>>

TickSend(f) ==
    /\ pc \in {"encode", "send"}
    /\ holder = None
    /\ f \in batch
    /\ batch' = batch \ {f}
    /\ pc' = "send"
    /\ SendOk(f) \/ SendFail(f) \/ SendSkip(f)
    /\ UNCHANGED <<panes, permit, retry, due, hadData, conn, sess, holder,
                   outbox, view>>

\* retry_at: a timer for pending frames and held cursors.
TimerForData == hadData
Rearm == framePending

\* End of the iteration: slow clients leave the table, the timer is armed for
\* what is still pending, and PTY data keeps the loop awake.
TickEnd ==
    /\ pc \in {"encode", "send"}
    /\ holder = None
    /\ batch = {}
    /\ sess' = [c \in Client |-> IF c \in evict THEN NoSession ELSE sess[c]]
    /\ damage' = [c \in Client |-> IF c \in evict THEN [p \in Pane |-> Clean]
                                                  ELSE damage[c]]
    /\ fails' = [c \in Client |-> IF c \in evict THEN 0 ELSE fails[c]]
    /\ evict' = {}
    /\ retry' = Rearm
    /\ permit' = (permit \/ hadData)
    /\ framePending' = FALSE
    /\ hadData' = FALSE
    /\ pc' = "wait"
    /\ UNCHANGED <<panes, due, batch, conn, holder, outbox, queue, view, history>>

-----------------------------------------------------------------------------
(* Connection handlers.                                                    *)

\* resize_all_panes on the panes Z whose dimensions change: every row is new
\* and every client of the session (as of table t) gets a full sync.  Nothing
\* notifies the tick loop.
ResizePanes(Z) ==
    /\ \A p \in Z : version[p] < MaxVersion[p]
    /\ version' = [p \in Pane |-> IF p \in Z THEN version[p] + 1 ELSE version[p]]
    /\ screen' = [p \in Pane |-> IF p \in Z THEN [r \in Row |-> version[p] + 1]
                                            ELSE screen[p]]
    /\ UNCHANGED <<ptyRows, ptySync, syncOutput>>

ResizedUnmarked(d, s, p, Z) == d
Resized(d, s, p, Z) == IF p \in Z /\ SessionOf[p] = s THEN MarkFull(d) ELSE d

\* handle_client after the handshake: the client enters the table with clean
\* accumulators; its first frames are built under the lock and sent after it.
Attach(c, s, Z) ==
    /\ LockFree
    /\ conn[c] = "off"
    /\ Z \subseteq PanesOf(s)
    /\ ResizePanes(Z)
    /\ conn' = [conn EXCEPT ![c] = "joining"]
    /\ sess' = [sess EXCEPT ![c] = s]
    /\ damage' = [k \in Client |-> [p \in Pane |->
                    IF k = c THEN Clean ELSE Resized(damage[k][p], sess[k], p, Z)]]
    /\ fails' = [fails EXCEPT ![c] = 0]
    /\ outbox' = [outbox EXCEPT ![c] = StateSync(s, screen')]
    /\ UNCHANGED <<tick, holder, queue, view, history>>

\* The messages are pushed in the order they were built.
NextMsg(c) ==
    {m \in outbox[c] : \A n \in outbox[c] : Rank(m) <= Rank(n)}

\* What pushing message m tells the history variables.
Pushed(c, m) ==
    /\ queue' = [queue EXCEPT ![c] = Append(@, m)]
    /\ sent' = IF m.kind = "frame"
               THEN [sent EXCEPT ![c][m.pane] = Overlay(@, m.lines, m.cells)]
               ELSE sent
    /\ blind' = [blind EXCEPT ![c] = @ /\ m.kind # "state"]
    /\ UNCHANGED <<dropped, reordered>>

\* tx.send().await of an initial frame: waits for room, without the lock.  The
\* writer and reader tasks start after the last one.
SendInitial(c, m) ==
    /\ conn[c] = "joining"
    /\ m \in NextMsg(c)
    /\ Room(c)
    /\ Pushed(c, m)
    /\ outbox' = [outbox EXCEPT ![c] = @ \ {m}]
    /\ conn' = [conn EXCEPT ![c] = IF outbox[c] = {m} THEN "on" ELSE @]
    /\ UNCHANGED <<panes, tick, sess, damage, fails, holder, view>>

\* SwitchSession: affinity moves first, the accumulators of the old session
\* are forgotten, the target and then the old session are resized.
SwitchSession(c, t, Z) ==
    /\ LockFree
    /\ conn[c] = "on"
    /\ sess[c] # NoSession
    /\ Z \subseteq PanesOf(t) \cup PanesOf(sess[c])
    /\ ResizePanes(Z)
    /\ sess' = [sess EXCEPT ![c] = t]
    /\ damage' = [k \in Client |-> [p \in Pane |->
                    IF k = c THEN Clean ELSE Resized(damage[k][p], sess[k], p, Z)]]
    /\ fails' = [fails EXCEPT ![c] = 0]
    /\ outbox' = [outbox EXCEPT ![c] =
                    {[kind |-> "switched", session |-> t]} \cup StateSync(t, screen')]
    /\ holder' = c
    /\ batch' = {f \in batch : f.client # c}
                  \cup {[f EXCEPT !.stale = TRUE] : f \in {g \in batch : g.client = c}}
    /\ reordered' = [reordered EXCEPT ![c] = {}]
    /\ dropped' = [dropped EXCEPT ![c] = {}]
    /\ UNCHANGED <<pc, permit, retry, due, framePending, hadData, evict, conn,
                   queue, view, sent, blind>>

\* The handler pushes its responses with try_send, the lock still held.
Dispatch(c, m) ==
    /\ holder = c
    /\ m \in NextMsg(c)
    /\ outbox' = [outbox EXCEPT ![c] = @ \ {m}]
    /\ holder' = IF outbox[c] = {m} THEN None ELSE c
    /\ \/ Room(c) /\ Pushed(c, m)
       \/ /\ ~Room(c)
          /\ blind' = [blind EXCEPT ![c] = @ \/ m.kind = "state"]
          /\ dropped' = [dropped EXCEPT ![c] = @ \cup
                            (IF m.kind = "frame" THEN {m.pane} \X m.lines ELSE {})]
          /\ UNCHANGED <<queue, sent, reordered>>
    /\ UNCHANGED <<panes, tick, conn, sess, damage, fails, view>>

\* Resize, or any layout change that gives panes new dimensions.
Resize(c, Z) ==
    /\ LockFree
    /\ conn[c] = "on"
    /\ sess[c] # NoSession
    /\ Z # {} /\ Z \subseteq PanesOf(sess[c])
    /\ ResizePanes(Z)
    /\ damage' = [k \in Client |-> [p \in Pane |->
                    Resized(damage[k][p], sess[k], p, Z)]]
    /\ UNCHANGED <<tick, conn, sess, fails, holder, outbox, queue, view, history>>

\* Input: off the alternate screen the keystroke's ack needs a frame.
Input(c, p) ==
    /\ LockFree
    /\ conn[c] = "on"
    /\ sess[c] = SessionOf[p]
    /\ damage' = IF p \in AltScreen THEN damage
                 ELSE [damage EXCEPT ![c][p] = MarkCursor(@)]
    /\ permit' = TRUE
    /\ UNCHANGED <<panes, pc, retry, due, batch, framePending, hadData, evict,
                   conn, sess, fails, holder, outbox, queue, view, history>>

\* The reader task sees end of file: cleanup_client, the writer is aborted.
\* Ids are never reused, so frames still in the batch find no client.
Leave(c) ==
    /\ LockFree
    /\ conn[c] = "on"
    /\ conn' = [conn EXCEPT ![c] = "off"]
    /\ sess' = [sess EXCEPT ![c] = NoSession]
    /\ damage' = [damage EXCEPT ![c] = [p \in Pane |-> Clean]]
    /\ fails' = [fails EXCEPT ![c] = 0]
    /\ queue' = [queue EXCEPT ![c] = <<>>]
    /\ batch' = {f \in batch : f.client # c}
    /\ expected' = [expected EXCEPT ![c] = {}]
    /\ grid' = [grid EXCEPT ![c] = [p \in Pane |-> [r \in Row |-> 0]]]
    /\ sent' = [sent EXCEPT ![c] = [p \in Pane |-> [r \in Row |-> 0]]]
    /\ dropped' = [dropped EXCEPT ![c] = {}]
    /\ reordered' = [reordered EXCEPT ![c] = {}]
    /\ blind' = [blind EXCEPT ![c] = FALSE]
    /\ UNCHANGED <<panes, pc, permit, retry, due, framePending, hadData, evict,
                   holder, outbox>>

-----------------------------------------------------------------------------
(* The client.                                                             *)

\* The writer task forwards a message and process_server_events applies it:
\* StateSync replaces the expected panes, frames of other panes are ignored,
\* and no generation is compared.
Receive(c) ==
    /\ conn[c] = "on"
    /\ queue[c] # <<>>
    /\ queue' = [queue EXCEPT ![c] = Tail(@)]
    /\ LET m == Head(queue[c]) IN
       /\ expected' = IF m.kind = "state"
                      THEN [expected EXCEPT ![c] = PanesOf(m.session)]
                      ELSE expected
       /\ grid' = IF m.kind = "frame" /\ m.pane \in expected[c]
                  THEN [grid EXCEPT ![c][m.pane] = Overlay(@, m.lines, m.cells)]
                  ELSE grid
    /\ UNCHANGED <<panes, tick, conn, sess, damage, fails, holder, outbox, history>>

-----------------------------------------------------------------------------
Tick == TickDrain \/ TickCollect \/ (\E f \in batch : TickSend(f)) \/ TickEnd

Handler(c) ==
    \/ \E s \in Session, Z \in SUBSET Pane : Attach(c, s, Z)
    \/ \E m \in outbox[c] : SendInitial(c, m)
    \/ \E t \in Target, Z \in SUBSET Pane : SwitchSession(c, t, Z)
    \/ \E m \in outbox[c] : Dispatch(c, m)
    \/ \E Z \in SUBSET Pane : Resize(c, Z)
    \/ \E p \in Pane : Input(c, p)
    \/ Leave(c)
    \/ Receive(c)

Next ==
    \/ \E p \in Pane, R \in SUBSET Row, m \in BOOLEAN : PtyOutput(p, R, m)
    \/ FrameDeadline
    \/ Tick
    \/ \E c \in Client : Handler(c)

Spec == Init /\ [][Next]_vars

\* The daemon's tasks are scheduled and time passes.  The server lock is a
\* tokio Mutex, which serves its waiters in order: the tick loop, which waits
\* for a lock that handlers hold again and again, gets it.  Nothing is assumed
\* of the client, which may stop reading.
Fairness ==
    /\ WF_vars(FrameDeadline)
    /\ SF_vars(Tick)
    /\ \A c \in Client :
         /\ WF_vars(\E m \in outbox[c] : SendInitial(c, m))
         /\ WF_vars(\E m \in outbox[c] : Dispatch(c, m))

FairSpec == Spec /\ Fairness

\* The same, with clients that read their sockets and hang up once the server
\* has closed the connection.
Closed(c) == sess[c] = NoSession /\ queue[c] = <<>> /\ Leave(c)

ReadingSpec ==
    FairSpec /\ \A c \in Client : WF_vars(Receive(c)) /\ WF_vars(Closed(c))

-----------------------------------------------------------------------------
(* Properties.                                                             *)

TypeOK ==
    /\ ptyRows \in [Pane -> SUBSET Row]
    /\ ptySync \in [Pane -> BOOLEAN]
    /\ screen \in [Pane -> Cells]
    /\ version \in [Pane -> Nat]
    /\ syncOutput \in [Pane -> BOOLEAN]
    /\ pc \in {"wait", "encode", "send"}
    /\ permit \in BOOLEAN /\ retry \in BOOLEAN /\ due \in BOOLEAN
    /\ batch \subseteq Frame
    /\ framePending \in BOOLEAN /\ hadData \in BOOLEAN
    /\ evict \subseteq Client
    /\ conn \in [Client -> {"off", "joining", "on"}]
    /\ sess \in [Client -> Session \cup {NoSession}]
    /\ damage \in [Client -> [Pane -> Damage]]
    /\ fails \in [Client -> Nat]
    /\ holder \in Client \cup {None}
    /\ outbox \in [Client -> SUBSET Message]
    /\ queue \in [Client -> Seq(Message)]
    /\ \A c \in Client : Len(queue[c]) <= QueueCap
    /\ expected \in [Client -> SUBSET Pane]
    /\ grid \in [Client -> [Pane -> Cells]]
    /\ sent \in [Client -> [Pane -> Cells]]
    /\ dropped \in [Client -> SUBSET (Pane \X Row)]
    /\ reordered \in [Client -> SUBSET Pane]
    /\ blind \in [Client -> BOOLEAN]

\* The row's present content waits in a snapshot not yet pushed.
InBatch(c, p, r) ==
    \E f \in batch : /\ f.client = c /\ f.pane = p /\ f.session = sess[c]
                     /\ r \in f.lines /\ f.cells[r] = screen[p][r]

InOutbox(c, p, r) ==
    \E m \in outbox[c] : /\ m.kind = "frame" /\ m.pane = p
                         /\ r \in m.lines /\ m.cells[r] = screen[p][r]

AccountedFor(c) ==
    \A p \in Pane, r \in Row :
      sess[c] = SessionOf[p] =>
        \/ sent[c][p][r] = screen[p][r]
        \/ Covers(damage[c][p], r)
        \/ InBatch(c, p, r)
        \/ InOutbox(c, p, r)
        \/ <<p, r>> \in dropped[c]
        \/ p \in reordered[c]

\* The daemon never forgets a change: for every attached client, a row of its
\* session whose last pushed content is out of date is still marked in the
\* client's damage, or waits in a snapshot or in a handler's responses.  The
\* only exceptions are the two the code has: a delta refused by a full channel
\* (dropped), and an older frame pushed after a newer one (reordered).
Accounted == \A c \in Client : AccountedFor(c)

\* The parts of the inductive invariant behind Accounted.  A snapshot that will
\* be pushed is up to date, or its rows are marked again ...
BatchFresh(c) ==
    \A f \in batch : (f.client = c /\ ~f.stale /\ f.session = sess[c]) =>
      \A r \in f.lines : \/ f.cells[r] = screen[f.pane][r]
                         \/ Covers(damage[c][f.pane], r)

\* ... and so is a full sync that a handler has built and not yet pushed.
OutboxFresh(c) ==
    \A m \in outbox[c] : \A r \in Row :
      (m.kind = "frame" /\ sess[c] = SessionOf[m.pane]) =>
        \/ m.cells[r] = screen[m.pane][r]
        \/ Covers(damage[c][m.pane], r)
        \/ InBatch(c, m.pane, r)
        \/ <<m.pane, r>> \in dropped[c]
        \/ m.pane \in reordered[c]

Structure ==
    /\ pc = "wait" => batch = {}
    /\ \A c \in Client : conn[c] = "off" => sess[c] = NoSession
    /\ \A f \in batch : /\ conn[f.client] # "off"
                        /\ f.session = SessionOf[f.pane]
                        /\ f.full => f.lines = Row
    /\ \A c \in Client : \A m \in outbox[c] : m.kind = "frame" => m.lines = Row

\* The inductive invariant.  Accounted alone is not inductive: what a frame or
\* a full sync still to be pushed carries matters, and where frames come from.
IInv ==
    /\ TypeOK
    /\ Structure
    /\ \A c \in Client : AccountedFor(c) /\ BatchFresh(c) /\ OutboxFresh(c)

\* What the user sees: a client that has read everything, while no frame for
\* it is in the making, has the panes of its session, and each row shows the
\* pane's present content unless the row fell under one of the exceptions.
SettledMirror ==
    \A c \in Client :
      (conn[c] = "on" /\ sess[c] # NoSession /\ queue[c] = <<>>
         /\ outbox[c] = {} /\ batch = {} /\ ~blind[c]) =>
        /\ expected[c] = PanesOf(sess[c])
        /\ \A p \in expected[c], r \in Row :
             \/ grid[c][p][r] = screen[p][r]
             \/ Covers(damage[c][p], r)
             \/ <<p, r>> \in dropped[c]
             \/ p \in reordered[c]

\* "sending old-session data to such a client would corrupt its state": once
\* a client has its initial frames, a frame enters its channel only if the
\* pane belongs to the session the client is on at that moment.
PushedToCurrentSession ==
    [][\A c \in Client :
         (conn[c] = "on" /\ Len(queue'[c]) > Len(queue[c])) =>
            LET m == queue'[c][Len(queue'[c])] IN
            m.kind = "frame" => SessionOf[m.pane] = sess[c]]_vars

\* "if the client switched sessions between Phase 1 and now, drop the stale
\* frame": no frame snapshot before a switch reaches the channel after it.
StaleFrameDropped ==
    [][\A f \in batch :
         (f.stale /\ f \notin batch') =>
            Len(queue'[f.client]) <= Len(queue[f.client])]_vars

DirtyRows(c, p) == damage[c][p].full \/ damage[c][p].lines # {}

\* Output that reaches the daemon is snapshot for every client of the pane's
\* session, without another wake-up: the permit or the frame timer is there
\* whenever rows are marked, unless the program withholds them (DEC 2026).
OutputSnapshot ==
    \A c \in Client, p \in Pane :
      (ptyRows[p] # {} /\ sess[c] = SessionOf[p]) ~>
        \/ ptyRows[p] = {} /\ ~DirtyRows(c, p)
        \/ ptySync[p]
        \/ sess[c] # SessionOf[p]

\* "On failure for FullPaneSync, re-mark full so it retries next tick": a full
\* sync that was snapshot is retried until that content, or a later one, is
\* in the client's channel, or the client has left the session or switched to
\* it anew, which starts from a full sync of its own.
FullSyncRetried ==
    \A c \in Client, p \in Pane : \A r \in Row, v \in 1..MaxVersion[p] :
      (\E f \in batch : f.client = c /\ f.pane = p /\ f.full /\ f.cells[r] = v) ~>
        \/ sent[c][p][r] >= v
        \/ ptySync[p]
        \/ sess[c] # SessionOf[p] \/ holder = c

\* "When the tick loop removes this client from s.clients, the last sender is
\* dropped, rx.recv() returns None, the writer exits, and the socket closes":
\* a client taken out of the table gets its connection closed.
EvictedClientDisconnects ==
    \A c \in Client :
      (conn[c] # "off" /\ sess[c] = NoSession) ~> (conn[c] = "off")
=============================================================================
