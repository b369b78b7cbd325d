--------------------------- MODULE ScrollbackSync ---------------------------
(***************************************************************************)
(* The history of one pane and its copy in one client.  The daemon sends   *)
(* the rows that have scrolled out since the last frame and keeps, per     *)
(* client, only a watermark: how many rows that client has been sent.  The *)
(* client appends what it gets, or starts again when it is told to.        *)
(*                                                                         *)
(* Interleaved are the two phases of the tick loop, the handlers (resize,  *)
(* session switch), the channel to the client, and a client that loses its *)
(* connection and comes back with the history it had.  The tick loop runs  *)
(* when it is woken or its timer is armed, and a program may hold its      *)
(* output back.  The viewport is the subject of ScreenSync; here a frame   *)
(* may change it or not.                                                   *)
(***************************************************************************)
EXTENDS Integers, Sequences, SequencesExt, FiniteSetsExt

CONSTANTS
    HistoryCap,  \* lines of history of the daemon's terminal
    ClientCap,   \* scrollback_lines of the client
    ChanCap,     \* slots of the client's channel
    MaxRows,     \* bound: rows that ever scroll out
    MaySwitch,   \* bound: the client switches sessions, or only reconnects
    NoFrame      \* the tick loop is not between its phases

\* What a message does to the client's scrollback; a CellDelta does nothing.
Msg == [rows : Seq(1..MaxRows), replace : BOOLEAN]
Nothing == [rows |-> <<>>, replace |-> FALSE]

\* A snapshot: history_total, whether it brings history, whether its replacement was
\* asked for, and whether the client has been away since.
Frame == [msg : Msg, history : BOOLEAN, total : 0..MaxRows,
          force : BOOLEAN, stale : BOOLEAN]

ASSUME ScrollbackAssumption ==
    /\ {HistoryCap, ClientCap, ChanCap} \subseteq Nat \ {0}
    /\ MaxRows \in Nat /\ MaySwitch \in BOOLEAN
    /\ NoFrame \notin Frame

VARIABLES
    rows,     \* the primary screen's history with the rows evicted from it
    size,     \* history_size of the primary screen
    made,     \* rows that have scrolled out so far
    alt,      \* the pane shows the alternate screen
    hold,     \* Pane.is_sync_output: the program holds its output back
    at,       \* ClientState.session_name is the pane's session
    sent,     \* ClientState.history_sent, 0 when there is none
    damage,   \* ClientState.damage of the pane
    wake,     \* the Notify permit, or retry_at: the tick loop will run
    frame,    \* the frame between the phases of the tick loop, or NoFrame
    initial,  \* first frames that handle_client has yet to send: at most one
    chan,     \* ClientState.tx
    grid,     \* the scrollback of the client's grid
    astray,   \* history: the copy may have gone wrong, in one of the known ways
    unwoken   \* history: since the loop was last woken, a resize that did not wake it

pane == <<rows, size, made, alt>>
client == <<at, sent, damage>>
tick == <<wake, unwoken>>
vars == <<pane, hold, client, tick, frame, initial, chan, grid, astray>>

Clean == [full |-> FALSE, replace |-> FALSE, cells |-> FALSE]
Dirty == damage # Clean

TypeOK ==
    /\ rows \in Seq(1..MaxRows) /\ size \in 0..HistoryCap /\ size <= Len(rows)
    /\ made \in 0..MaxRows
    /\ {alt, hold, at, wake, astray, unwoken} \subseteq BOOLEAN
    /\ sent \in 0..MaxRows
    /\ damage \in [full : BOOLEAN, replace : BOOLEAN, cells : BOOLEAN]
    /\ frame \in Frame \cup {NoFrame}
    /\ initial \in Seq(Msg) /\ Len(initial) <= 1
    /\ chan \in Seq(Msg) /\ Len(chan) <= ChanCap
    /\ grid \in Seq(1..MaxRows) /\ Len(grid) <= ClientCap

Init ==
    /\ rows = <<>> /\ size = 0 /\ made = 0 /\ alt = FALSE /\ hold = FALSE
    /\ at = TRUE /\ sent = 0 /\ damage = Clean
    /\ wake = FALSE /\ frame = NoFrame /\ initial = <<>>
    /\ chan = <<>> /\ grid = <<>>
    /\ astray = FALSE /\ unwoken = FALSE

-----------------------------------------------------------------------------

\* The last n elements.
Newest(s, n) == SubSeq(s, Max({1, Len(s) - n + 1}), Len(s))

\* Mutant: rows are pushed and nothing is trimmed.
ApplyUntrimmed(g, m) == (IF m.replace THEN <<>> ELSE g) \o m.rows

\* apply_full_sync, as far as the scrollback goes.
Apply(g, m) == Newest((IF m.replace THEN <<>> ELSE g) \o m.rows, ClientCap)

\* The scrollback after all that is on its way.
View == FoldLeft(Apply, grid, chan \o initial)

Room == Len(chan) < ChanCap

History == Newest(rows, size)

\* j rows scroll out after k of the newest have gone back to the viewport.
Scrolled(k, j) ==
    /\ k <= size /\ made + j <= MaxRows
    /\ rows' = SubSeq(rows, 1, Len(rows) - k) \o [i \in 1..j |-> made + i]
    /\ size' = Min({HistoryCap, size - k + j})
    /\ made' = made + j

\* mark_full and mark_full_with_scrollback_replace
MarkFull(d, replace) == [full |-> TRUE, replace |-> d.replace \/ replace, cells |-> FALSE]

-----------------------------------------------------------------------------
(* The tick loop.                                                          *)

\* The loop will run: notify_one, or the timer set to the next frame.
Wake == wake' = TRUE /\ unwoken' = FALSE

\* Input, or output of another pane, wakes the loop.
Notify ==
    /\ Wake
    /\ UNCHANGED <<pane, hold, client, frame, initial, chan, grid, astray>>

\* scrollback_sync_plan: how many of the newest rows, and whether they replace.
Plan(hs, last, total) ==
    IF total < last THEN [count |-> hs, replace |-> TRUE]
    ELSE [count |-> Min({total - last, hs}), replace |-> total - last > hs]

\* Output is parsed.  It may leave every row of the viewport and the cursor as they
\* were (the same line over and over): then there is no damage.  After output the
\* loop wakes itself.
Drain ==
    /\ frame = NoFrame
    /\ \/ ~alt /\ \E j \in 1..2 : Scrolled(0, j) /\ UNCHANGED alt
       \/ alt' = ~alt /\ UNCHANGED <<rows, size, made>>
       \/ UNCHANGED pane
    /\ \/ damage' = IF at /\ ~damage.full THEN [damage EXCEPT !.cells = TRUE] ELSE damage
       \/ alt' = alt /\ UNCHANGED damage
    /\ hold' \in BOOLEAN
    /\ Wake
    /\ UNCHANGED <<at, sent, frame, initial, chan, grid, astray>>

\* Damage that phase 1 takes: synchronized output is left alone for as long as it
\* lasts.  A pass ahead of the frame's time only arms the timer for such damage.
Sendable == at /\ Dirty /\ ~hold

\* Phase 1.  Without full damage the rows travel in a frame of their own, and only
\* when the watermark has moved; in the alternate screen it does not.
Snapshot ==
    /\ wake /\ frame = NoFrame /\ Sendable
    /\ LET total == IF alt THEN sent ELSE Len(rows)
           hs == IF alt THEN 0 ELSE size
           force == damage.full /\ damage.replace /\ ~alt
           plan == IF force THEN [count |-> hs, replace |-> TRUE]
                   ELSE Plan(hs, sent, total)
           history == damage.full \/ total # sent
       IN  frame' = [msg |-> IF history THEN [rows |-> Newest(rows, plan.count),
                                              replace |-> plan.replace]
                             ELSE Nothing,
                     history |-> history, total |-> total, force |-> force,
                     stale |-> FALSE]
    /\ damage' = Clean
    /\ wake' = FALSE
    /\ astray' = (astray \/ (damage.replace /\ alt))
    /\ UNCHANGED <<pane, hold, at, sent, initial, chan, grid, unwoken>>

\* A pass that finds nothing to send, and arms no timer.
PassOver ==
    /\ wake /\ frame = NoFrame /\ ~Sendable
    /\ wake' = FALSE
    /\ UNCHANGED <<pane, hold, client, frame, initial, chan, grid, astray, unwoken>>

\* Phase 2: the client has switched sessions, or the frame fits, or it does not.
SendSkip ==
    /\ frame # NoFrame /\ ~at
    /\ frame' = NoFrame
    /\ UNCHANGED <<pane, hold, client, tick, initial, chan, grid, astray>>

SendOk ==
    /\ frame # NoFrame /\ at /\ Room
    /\ chan' = Append(chan, frame.msg)
    /\ sent' = IF frame.history THEN frame.total ELSE sent
    /\ frame' = NoFrame
    /\ astray' = ((frame.history /\ (frame.stale \/ initial # <<>>))
                   \/ (astray /\ ~frame.msg.replace))
    /\ UNCHANGED <<pane, hold, at, damage, tick, initial, grid>>

\* Mutants: the retry is an ordinary full sync; there is no retry.
RemarkFull == IF frame.history THEN MarkFull(damage, FALSE) ELSE damage
RemarkNothing == damage

Remark == IF frame.history THEN MarkFull(damage, frame.force) ELSE damage

SendFail ==
    /\ frame # NoFrame /\ at /\ ~Room
    /\ damage' = Remark
    /\ IF frame.history THEN Wake ELSE UNCHANGED tick
    /\ frame' = NoFrame
    /\ UNCHANGED <<pane, hold, at, sent, initial, chan, grid, astray>>

-----------------------------------------------------------------------------
(* The handlers.                                                           *)

\* resize_all_panes, for any client: rows go back to the viewport, or out of it, or,
\* when the width changes, are wrapped anew.  Nobody wakes the loop.
Resize ==
    /\ \E k, j \in 0..2 : Scrolled(k, j)
    /\ damage' = IF at THEN MarkFull(damage, TRUE) ELSE damage
    /\ unwoken' = ~wake
    /\ UNCHANGED <<alt, hold, at, sent, wake, frame, initial, chan, grid, astray>>

\* snapshot and history_sent_after_full_sync: in the alternate screen no rows, no
\* replacement, and the watermark at 0.
FullMsg == IF alt THEN Nothing ELSE [rows |-> History, replace |-> TRUE]
SentAfterFull == IF alt THEN 0 ELSE Len(rows)

\* handle_switch_session, to another session and back.  A resize that comes with it
\* is a Resize before it.
SwitchAway ==
    /\ MaySwitch /\ at /\ initial = <<>>
    /\ at' = FALSE /\ sent' = 0 /\ damage' = Clean
    /\ frame' = IF frame = NoFrame THEN frame ELSE [frame EXCEPT !.stale = TRUE]
    /\ UNCHANGED <<pane, hold, tick, initial, chan, grid, astray>>

SwitchBack ==
    /\ ~at
    /\ at' = TRUE /\ sent' = SentAfterFull /\ damage' = Clean
    /\ chan' = IF Room THEN Append(chan, FullMsg) ELSE chan
    /\ astray' = IF alt THEN View # <<>> ELSE ~Room
    /\ UNCHANGED <<pane, hold, tick, frame, initial, grid>>

\* The connection is lost with what is queued, and made again.  The client keeps
\* its grids; a frame for the old client is dropped in phase 2.
Reconnect ==
    /\ at' = TRUE /\ sent' = SentAfterFull /\ damage' = Clean
    /\ chan' = <<>> /\ initial' = <<FullMsg>> /\ frame' = NoFrame
    /\ astray' = (alt /\ grid # <<>>)
    /\ UNCHANGED <<pane, hold, tick, grid>>

\* handle_client sends its first frames without the lock, waiting for room.
SendInitial ==
    /\ initial # <<>> /\ Room
    /\ chan' = chan \o initial
    /\ initial' = <<>>
    /\ UNCHANGED <<pane, hold, client, tick, frame, grid, astray>>

Receive ==
    /\ chan # <<>>
    /\ grid' = Apply(grid, Head(chan))
    /\ chan' = Tail(chan)
    /\ UNCHANGED <<pane, hold, client, tick, frame, initial, astray>>

-----------------------------------------------------------------------------

Tick == Snapshot \/ PassOver

Send == SendSkip \/ SendOk \/ SendFail

Next ==
    \/ Notify \/ Drain \/ Tick \/ Send
    \/ Resize \/ SwitchAway \/ SwitchBack
    \/ Reconnect \/ SendInitial \/ Receive

Spec == Init /\ [][Next]_vars

\* Once woken the loop runs (ScreenSync), the handler sends its first frames, and the
\* client reads.
Fairness ==
    /\ WF_vars(Tick) /\ WF_vars(Send)
    /\ WF_vars(SendInitial) /\ WF_vars(Receive)

FairSpec == Spec /\ Fairness

-----------------------------------------------------------------------------
(* Properties.                                                             *)

\* A replacement is marked, or on its way to the channel.
Rebuilding == damage.replace \/ (frame # NoFrame /\ frame.msg.replace)

\* The watermark tells what the client has.  Once it has read what is queued, its
\* scrollback is a run of the pane's rows that ends at the watermark, without a gap
\* or a repetition, and reaches as far back as the pane's own history or the
\* client's limit.  It goes wrong only where astray says so: a full sync of a
\* switch that finds the channel full (mod.rs:99), a frame from before a switch away
\* and back (tick.rs:636), a frame ahead of the first ones (connection.rs:257), a
\* resize (tick.rs:323) or an attach (mod.rs:231) in the alternate screen; and the
\* next replacement puts it right.
Mirror ==
    at /\ ~astray /\ ~Rebuilding =>
        /\ sent <= Len(rows)
        /\ IsSuffix(View, SubSeq(rows, 1, sent))
        /\ Len(View) >= Min({ClientCap, sent - (Len(rows) - size)})

\* Damage brings the watermark up to the history, although frames are refused,
\* passes come before their time and output is held back for a while: whatever
\* leaves damage sees to it that the loop runs.  A resize does not (session.rs:390);
\* it waits for the next output or input.
CatchesUp ==
    (at /\ Dirty /\ ~unwoken) ~> (~at \/ alt \/ hold \/ unwoken \/ sent = Len(rows))

\* "clients must discard stale scrollback before appending to avoid duplication"
\* (snapshot.rs:23): no row is in the client's scrollback twice.
NoRowTwice == \A i, j \in DOMAIN grid : grid[i] = grid[j] => i = j
=============================================================================
