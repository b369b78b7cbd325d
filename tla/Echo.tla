-------------------------------- MODULE Echo --------------------------------
(* One row of one pane, the keys a client types into it, and the client's     *)
(* predictions of their echo: sequence numbers received and promoted by the   *)
(* daemon, the debounced cursor, and the overlay that frames confirm, cut     *)
(* back or reject.  The program behind the pane is a line editor that may     *)
(* also leave keys unanswered.                                                *)
EXTENDS Integers, FiniteSetsExt, SequencesExt

CONSTANTS
    Cols,       \* columns of the row; column 0 holds the prompt
    Letter,     \* printable keys
    Control,    \* other keys: a subset of "back" "left" "right" "enter" "escape"
    Mode,       \* terminal modes the program may choose between its lines
    Habit,      \* how it may treat a key: "edit", "ignore", "bell"
    Display,    \* prediction.mode: "always", "adaptive" (armed) or "never"
    MaxKeys,    \* bound on the keys typed
    ChanCap,    \* bound on the frames under way
    Blank, Prompt, NoRow, None, NoOverlay, Off

VARIABLES
    next,      \* next_input_seq of the client
    newline,   \* number of the last Enter (history, for NoBlindEcho)
    up,        \* Input messages under way
    received,  \* received_input_seq of the pane
    acked,     \* max_input_seq of the pane
    tty,       \* input the program has not read
    prog,      \* the program's line, and the last key it echoed
    wrote,     \* it has output that the daemon has not drained
    pane,      \* the daemon's terminal
    dirty,     \* damage of the pane for this client
    debounce,  \* last_sent_cursor
    chan,      \* frames under way
    grid,      \* the client's copy, with the echo_ack of the last frame
    overlay    \* its predictions

client == <<next, newline, grid, overlay>>
daemon == <<received, acked, pane, dirty, debounce>>
program == <<prog, wrote>>
vars == <<client, up, daemon, tty, program, chan>>

Col == 0 .. Cols - 1
Key == Letter \cup Control
Text == Letter \cup {Blank, Prompt}
Row == [Col -> Text]

\* Predictions of the client: cells, cursors and the overlay of a pane.
Cells == [ch : Text, epoch : Nat, ack : 1 .. MaxKeys, orig : Text,
          typed : BOOLEAN, unknown : BOOLEAN]
Cursors == [col : Col, epoch : Nat, ack : 1 .. MaxKeys]
Overlays == [cell : [Col -> Cells \cup {Off}], cursors : Seq(Cursors),
             start : Col \cup {None}, floor : Col \cup {None},
             epoch : Nat, confirmed : Nat, context : Mode, seen : Col,
             proven : BOOLEAN, forced : BOOLEAN, timer : BOOLEAN]

ASSUME EchoAssumption ==
    /\ Cols \in Nat /\ Cols > 2 /\ MaxKeys \in Nat /\ ChanCap \in Nat \ {0}
    /\ Control \subseteq {"back", "left", "right", "enter", "escape"}
    /\ Mode \subseteq {"plain", "paste", "alt", "password"}
    /\ Habit \subseteq {"edit", "ignore", "bell"}
    /\ Display \in {"always", "adaptive", "never"}
    /\ Letter \cap {"back", "left", "right", "enter", "escape", Blank, Prompt} = {}
    /\ None \notin Int /\ NoOverlay \notin Overlays

-----------------------------------------------------------------------------
(* Rows and the program                                                       *)

NewRow == [c \in Col |-> IF c = 0 THEN Prompt ELSE Blank]

\* Cells from c move right, those at c give way to k; or move left over c.
Opened(row, c, k) ==
    [i \in Col |-> IF i < c THEN row[i] ELSE IF i = c THEN k ELSE row[i - 1]]
Closed(row, c) ==
    [i \in Col |-> IF i < c THEN row[i] ELSE IF i = Cols - 1 THEN Blank ELSE row[i + 1]]

\* The line ends one column before the edge, so the editor never wraps: the
\* last cell of the row stays blank.
Editable(s, k) ==
    \/ k \in Letter /\ s.at < Cols - 1 /\ s.text[Cols - 2] = Blank
    \/ k \in {"back", "left"} /\ s.at > 1
    \/ k = "right" /\ s.text[s.at] # Blank

Edited(s, k) ==
    CASE k \in Letter -> [s EXCEPT !.text = Opened(@, s.at, k), !.at = @ + 1]
      [] k = "back"   -> [s EXCEPT !.text = Closed(@, s.at - 1), !.at = @ - 1]
      [] k = "left"   -> [s EXCEPT !.at = @ - 1]
      [] k = "right"  -> [s EXCEPT !.at = @ + 1]

Screen(s) == [text |-> s.text, at |-> s.at, mode |-> s.mode]

-----------------------------------------------------------------------------
(* The overlay: predicting a key                                              *)

AppMode(m) == m \in {"paste", "alt"}      \* requires_local_edit_start

NewOverlay(g) ==
    [cell |-> [c \in Col |-> Off], cursors |-> <<>>, start |-> None,
     floor |-> None, epoch |-> 1, confirmed |-> 0, context |-> g.mode,
     seen |-> g.at, proven |-> FALSE, forced |-> FALSE, timer |-> TRUE]

Active(o) == {c \in Col : o.cell[c] # Off}
IsEmpty(o) == Active(o) = {} /\ o.cursors = <<>>
Numbers(o) == {o.cell[c].ack : c \in Active(o)} \cup {cur.ack : cur \in ToSet(o.cursors)}
At(o, g) == IF o.cursors = <<>> THEN g.at ELSE Last(o.cursors).col

NextEpoch(o) == [o EXCEPT !.epoch = @ + 1]

PushCursor(o, c, n) ==
    [o EXCEPT !.cursors = Append(@, [col |-> c, epoch |-> o.epoch, ack |-> n])]
SetCursor(o, c, n) ==
    LET cur == [col |-> c, epoch |-> o.epoch, ack |-> n]
    IN  IF o.cursors # <<>> /\ Last(o.cursors).epoch = o.epoch
        THEN [o EXCEPT !.cursors[Len(o.cursors)] = cur]
        ELSE [o EXCEPT !.cursors = Append(@, cur)]

\* The row as predicted so far (effective_cell).
Effective(o, g) == [c \in Col |-> IF o.cell[c] = Off THEN g.text[c] ELSE o.cell[c].ch]
Guessed(o, c) == o.cell[c] # Off /\ o.cell[c].unknown

\* Cells from column c on take the characters of row, predicted for input n.
Stamp(o, g, c, row, n, typed, unknown) ==
    [o EXCEPT !.cell = [i \in Col |->
        IF i < c THEN @[i]
        ELSE [ch |-> row[i], epoch |-> o.epoch, ack |-> n, orig |-> g.text[i],
              typed |-> typed /\ i = c, unknown |-> i \in unknown]]]

\* predict_char: what is pushed to the right edge is not known.
PredictLetter(o, g, k, n) ==
    LET c == At(o, g)
        u == {i \in Col : i > c /\ (Guessed(o, i - 1) \/ i = Cols - 1)}
        p == Stamp(o, g, c, Opened(Effective(o, g), c, k), n, TRUE, u)
    IN  IF c + 1 = Cols THEN SetCursor(NextEpoch(p), c, n)
                        ELSE SetCursor(p, c + 1, n)

\* An edit does not erase past its start; held Backspace stops at the floor.
PredictBack(o, g, n) ==
    LET c == At(o, g)
        u == {i \in Col : i < Cols - 1 /\ Guessed(o, i + 1)}
    IN  IF o.start # None /\ c <= o.start THEN SetCursor(o, o.start, n)
        ELSE IF o.floor # None /\ c <= o.floor THEN NextEpoch(o)
        ELSE IF c = 0 THEN SetCursor(NextEpoch(o), 0, n)
        ELSE SetCursor(Stamp(o, g, c - 1, Closed(Effective(o, g), c - 1), n, FALSE, u), c - 1, n)

SameEpoch(o) == [o EXCEPT !.start = None]
NewEpoch(o) == NextEpoch([o EXCEPT !.start = None])

PredictKey(o, g, k, n) ==
    CASE k \in Letter -> PredictLetter([o EXCEPT !.start = IF @ = None THEN At(o, g) ELSE @], g, k, n)
      [] k = "back"   -> PredictBack([o EXCEPT !.forced = @ \/ ~AppMode(g.mode) \/ o.proven], g, n)
      [] k = "left"   -> SetCursor(o, IF At(o, g) = 0 THEN 0 ELSE At(o, g) - 1, n)
      [] k = "right"  -> SetCursor(o, IF At(o, g) = Cols - 1 THEN At(o, g) ELSE At(o, g) + 1, n)
      [] k = "enter"  -> SetCursor(NewEpoch(o), 0, n)
      [] k = "escape" -> NewEpoch(o)

\* The overlay a key is predicted on: another context starts a new one.
Current(o, g) ==
    IF o = NoOverlay \/ o.context # g.mode THEN NewOverlay(g) ELSE [o EXCEPT !.timer = TRUE]

\* Without an edit to anchor it, Backspace is not predicted for an application.
Unanchored(o, g, k) == k = "back" /\ o.start = None /\ AppMode(g.mode)

\* new_user_input_internal, as the keyboard handler calls it.
Predict(o, g, k, n) ==
    CASE g.mode = "password" -> o
      [] AppMode(g.mode) /\ k \notin Letter \cup {"back"} -> NoOverlay
      [] ~AppMode(g.mode) /\ g.mode # "password" /\ Display = "never" /\ k \notin Letter \cup {"back"} ->
            IF k = "enter" THEN NoOverlay ELSE o
      [] OTHER ->
            LET b == Current(o, g)
            IN  IF ~Unanchored(b, g, k) THEN PredictKey(b, g, k, n)
                ELSE IF IsEmpty(b) THEN NoOverlay ELSE [b EXCEPT !.forced = FALSE]

-----------------------------------------------------------------------------
(* The overlay: judging it against a frame (on_server_sync)                   *)

\* The elements of s at the indices of K, in the order of s (retain).
AtIndices(s, K) ==
    [i \in 1 .. Cardinality(K) |->
       s[CHOOSE k \in K : Cardinality({j \in K : j <= k}) = i]]

Kill(o, e) ==
    [o EXCEPT !.cell = [c \in Col |-> IF @[c] # Off /\ @[c].epoch >= e THEN Off ELSE @[c]],
              !.cursors = AtIndices(@, {i \in DOMAIN @ : @[i].epoch < e}),
              !.epoch = IF @ < e + 1 THEN e + 1 ELSE @]

\* expire_old: inputs up to `old` are past their time; of the older cursors
\* only those of an epoch with cells stay, unless an edit has begun.
ExpireOld(o, old) ==
    LET cell == [c \in Col |-> IF o.cell[c] # Off /\ o.cell[c].ack <= old THEN Off ELSE o.cell[c]]
        keep(i) == /\ o.cursors[i].ack > old
                   /\ \/ i = Len(o.cursors)
                      \/ o.start # None
                      \/ \E c \in Col : cell[c] # Off /\ cell[c].epoch = o.cursors[i].epoch
    IN  [o EXCEPT !.cell = cell, !.cursors = AtIndices(@, {i \in DOMAIN @ : keep(i)})]

MatureOnReceipt(o, c, f) == o.cell[c] # Off /\ o.cell[c].ack <= f.got
\* Cells: an input is judged once its output has flowed back.
Mature(o, c, f) == o.cell[c] # Off /\ o.cell[c].ack <= f.echo
Known(o, f) == {c \in Col : Mature(o, c, f) /\ ~o.cell[c].unknown}
Wrong(o, g, f) == {c \in Known(o, f) : o.cell[c].ch # g.text[c]}
\* A match earns credit only where the screen has changed.
Credit(o, g, f) == {c \in Known(o, f) \ Wrong(o, g, f) : o.cell[c].ch # o.cell[c].orig}
Echoes(o, g, f) == {c \in Credit(o, g, f) : o.cell[c].typed /\ o.cell[c].ch # Blank}

Confirm(o, g, f) ==
    [o EXCEPT !.cell = [c \in Col |-> IF Mature(o, c, f) /\ c \notin Wrong(o, g, f) THEN Off ELSE @[c]],
              !.confirmed = Max({@} \cup {o.cell[c].epoch : c \in Credit(o, g, f)}),
              !.proven = @ \/ (o.start # None /\ Echoes(o, g, f) # {})]

WrongEpochs(o, g, f) == {o.cell[c].epoch : c \in Wrong(o, g, f)}
RejectNothing(o, g, f) == o
Reject(o, g, f) ==
    LET e == WrongEpochs(o, g, f) IN IF e = {} THEN o ELSE Kill(o, Min(e))

\* The newest cursor, once both numbers cover it, is behind the real one (a
\* key the program did not obey) or wrong altogether.
JudgeCursors(o, g, f) ==
    LET judged(cur) == cur.ack <= f.got /\ cur.ack <= f.echo
        rest == [o EXCEPT !.cursors = AtIndices(@, {i \in DOMAIN @ : ~judged(@[i])})]
    IN  IF o.cursors = <<>> \/ ~judged(Last(o.cursors)) \/ Last(o.cursors).col = g.at THEN rest
        ELSE IF Last(o.cursors).col < g.at
             THEN Kill([rest EXCEPT !.floor = g.at], Last(o.cursors).epoch)
             ELSE NoOverlay

\* What is left when nothing is predicted any more: the start of an edit, a floor.
Tidied(o) ==
    IF ~IsEmpty(o) THEN [o EXCEPT !.timer = TRUE]
    ELSE IF o.start = None /\ o.floor = None THEN NoOverlay
    ELSE [o EXCEPT !.timer = FALSE, !.forced = FALSE,
                   !.epoch = IF @ <= o.confirmed THEN o.confirmed + 1 ELSE @]

Disturbed(o, g) ==
    \/ o.context # g.mode
    \/ g.mode = "password"
    \/ AppMode(o.context) /\ IsEmpty(o) /\ o.seen # g.at

Noticed(o, g) ==
    [o EXCEPT !.seen = g.at, !.floor = IF @ # g.at THEN None ELSE @]

Judged(o, g, f) ==
    LET p == Confirm(o, g, f)
        q == Reject(p, g, f)
        r == JudgeCursors(q, g, f)
    IN  IF \E e \in WrongEpochs(p, g, f) : e <= p.confirmed THEN NoOverlay
        ELSE IF r = NoOverlay THEN NoOverlay ELSE Tidied(r)

Sync(o, g, f, old) ==
    IF o = NoOverlay \/ Disturbed(o, g) THEN NoOverlay
    ELSE LET n == Noticed(o, g)
         IN  IF IsEmpty(n) /\ n.floor = None THEN [n EXCEPT !.timer = FALSE]
             ELSE Judged(ExpireOld(n, old), g, f)

-----------------------------------------------------------------------------
(* What the user sees                                                         *)

Permitted(o) == o # NoOverlay /\ ~(AppMode(o.context) /\ ~o.proven)
                /\ (o.forced \/ Display # "never")
Trusted(o, e) == o.forced \/ Display = "always" \/ AppMode(o.context) \/ e <= o.confirmed

Predicted == {c \in Col : /\ Permitted(overlay) /\ overlay.cell[c] # Off
                          /\ ~overlay.cell[c].unknown /\ Trusted(overlay, overlay.cell[c].epoch)}
ShownText == [c \in Col |-> IF c \in Predicted THEN overlay.cell[c].ch ELSE grid.text[c]]
ShownCursor ==
    IF Permitted(overlay) /\ overlay.cursors # <<>> /\ Trusted(overlay, Last(overlay.cursors).epoch)
    THEN Last(overlay.cursors).col ELSE grid.at

-----------------------------------------------------------------------------
(* Client                                                                     *)

Press(k) ==
    /\ next <= MaxKeys
    /\ overlay' = Predict(overlay, grid, k, next)
    /\ up' = Append(up, [key |-> k, seq |-> next])
    /\ next' = next + 1
    /\ newline' = IF k = "enter" THEN next ELSE newline
    /\ UNCHANGED <<grid, daemon, tty, program, chan>>

\* A FullPaneSync or CellDelta; the predictions of inputs up to `old` are past
\* their time and the event loop has not dropped them yet.
Receive(old) ==
    /\ chan # <<>>
    /\ LET f == Head(chan)
           g == [text |-> IF f.text = NoRow THEN grid.text ELSE f.text,
                 at |-> f.at, mode |-> f.mode, echo |-> f.echo]
       IN  /\ grid' = g
           /\ overlay' = Sync(overlay, g, f, old)
    /\ chan' = Tail(chan)
    /\ UNCHANGED <<next, newline, up, daemon, tty, program>>

\* expire_predictions: 8 s after the oldest prediction.
Expire ==
    /\ overlay # NoOverlay /\ overlay.timer
    /\ overlay' = NoOverlay
    /\ UNCHANGED <<next, newline, grid, up, daemon, tty, program, chan>>

-----------------------------------------------------------------------------
(* Daemon and program                                                         *)

\* handle_input: off the alternate screen a frame with the new number is owed.
Input ==
    /\ up # <<>>
    /\ tty' = Append(tty, Head(up))
    /\ received' = IF Head(up).seq > received THEN Head(up).seq ELSE received
    /\ dirty' = IF Head(up).seq > received /\ pane.mode # "alt"
                THEN [dirty EXCEPT !.cursor = TRUE] ELSE dirty
    /\ up' = Tail(up)
    /\ UNCHANGED <<client, acked, pane, debounce, program, chan>>

\* The program reads a key.  Enter ends the line, and the next may be in
\* another mode.
Reply ==
    LET k == Head(tty).key
        editable == prog.mode # "password" /\ Editable(prog, k)
    IN  \/ /\ k = "enter"
           /\ \E m \in Mode : prog' = [prog EXCEPT !.text = NewRow, !.at = 1, !.mode = m]
           /\ wrote' = TRUE
        \/ /\ k # "enter" /\ editable /\ "edit" \in Habit
           /\ prog' = [Edited(prog, k) EXCEPT !.echo = Head(tty).seq]
           /\ wrote' = TRUE
        \/ /\ k # "enter" /\ (editable => "ignore" \in Habit)
           /\ UNCHANGED program
        \/ /\ k # "enter" /\ "bell" \in Habit
           /\ wrote' = TRUE /\ UNCHANGED prog

Read ==
    /\ tty # <<>>
    /\ Reply
    /\ tty' = Tail(tty)
    /\ UNCHANGED <<client, up, daemon, chan>>

\* process_pty_and_damage: any output of the pane promotes what was received.
Drained ==
    LET s == IF wrote THEN Screen(prog) ELSE pane
    IN  [pane |-> s,
         acked |-> IF wrote THEN received ELSE acked,
         rows |-> dirty.rows \/ s.text # pane.text,
         cursor |-> dirty.cursor \/ s # pane]

ThrottleOnce(s) ==
    IF debounce = None \/ s.at = debounce.pending
    THEN [sent |-> s.at, held |-> FALSE, state |-> [sent |-> s.at, pending |-> None]]
    ELSE [sent |-> debounce.sent, held |-> FALSE, state |-> [debounce EXCEPT !.pending = s.at]]
\* throttle_cursor: a position is sent when two frames in a row have seen it.
Throttle(s) ==
    CASE s.mode = "alt" -> [sent |-> s.at, held |-> FALSE, state |-> None]
      [] s.mode # "alt" /\ debounce # None /\ s.at \notin {debounce.sent, debounce.pending} ->
            [sent |-> debounce.sent, held |-> TRUE, state |-> [debounce EXCEPT !.pending = s.at]]
      [] OTHER -> [sent |-> s.at, held |-> FALSE, state |-> [sent |-> s.at, pending |-> None]]

\* A tick before the next frame is due only drains.
TickDrain ==
    /\ wrote
    /\ pane' = Drained.pane /\ acked' = Drained.acked
    /\ dirty' = [rows |-> Drained.rows, cursor |-> Drained.cursor]
    /\ wrote' = FALSE
    /\ UNCHANGED <<client, up, received, debounce, tty, prog, chan>>

TickFrame ==
    LET d == Drained
        t == Throttle(d.pane)
    IN  /\ d.rows \/ d.cursor
        /\ Len(chan) < ChanCap
        /\ pane' = d.pane /\ acked' = d.acked
        /\ chan' = Append(chan, [text |-> IF d.rows THEN d.pane.text ELSE NoRow, at |-> t.sent,
                                 mode |-> d.pane.mode, got |-> received, echo |-> d.acked])
        /\ debounce' = t.state
        /\ dirty' = [rows |-> FALSE, cursor |-> t.held]
        /\ wrote' = FALSE
        /\ UNCHANGED <<client, up, received, tty, prog>>

-----------------------------------------------------------------------------
Init ==
    \E m \in Mode \ {"password"} :
        LET s == [text |-> NewRow, at |-> 1, mode |-> m]
        IN  /\ next = 1 /\ newline = 0 /\ up = <<>> /\ tty = <<>> /\ chan = <<>>
            /\ received = 0 /\ acked = 0 /\ wrote = FALSE
            /\ prog = [text |-> NewRow, at |-> 1, mode |-> m, echo |-> 0]
            /\ pane = s /\ grid = prog
            /\ dirty = [rows |-> FALSE, cursor |-> FALSE]
            /\ debounce \in {None, [sent |-> 1, pending |-> None]}
            /\ overlay = NoOverlay

Next ==
    \/ \E k \in Key : Press(k)
    \/ \E old \in 0 .. MaxKeys : old < next /\ Receive(old)
    \/ Expire \/ Input \/ Read \/ TickDrain \/ TickFrame

Spec == Init /\ [][Next]_vars

\* What Receive does to the channel, and no other step.
Deliver == chan # <<>> /\ chan' = Tail(chan)

\* Tasks run and time passes; the program reads its input; nobody has to type.
FairSpec ==
    /\ Spec
    /\ WF_vars(Input) /\ WF_vars(Read) /\ WF_vars(TickFrame)
    /\ WF_chan(Deliver)
    /\ WF_vars(Expire)

-----------------------------------------------------------------------------
(* Properties                                                                 *)

Sound(o) ==
    /\ o \in Overlays
    /\ \A i, j \in DOMAIN o.cursors : i < j => o.cursors[i].epoch < o.cursors[j].epoch
    /\ \A i \in DOMAIN o.cursors : o.cursors[i].epoch <= o.epoch
    /\ \A c \in Active(o) : o.cell[c].epoch <= o.epoch
    /\ o.confirmed <= o.epoch
    /\ ~IsEmpty(o) => o.timer

Inputs == [key : Key, seq : 1 .. MaxKeys]
Screens == [text : Row, at : Col, mode : Mode]
Frames == [text : Row \cup {NoRow}, at : Col, mode : Mode, got : Nat, echo : Nat]
Acknowledged == [text : Row, at : Col, mode : Mode, echo : Nat]

\* The acknowledgements follow the inputs, and the cursors of the overlay are
\* in the order of their epochs ("sorted by epoch ascending"); whatever is
\* predicted has a deadline.
TypeOK ==
    /\ {next, newline, received, acked} \subseteq Nat
    /\ acked <= received /\ received < next /\ newline < next /\ next <= MaxKeys + 1
    /\ up \in Seq(Inputs) /\ tty \in Seq(Inputs) /\ chan \in Seq(Frames)
    /\ prog \in Acknowledged /\ pane \in Screens /\ grid \in Acknowledged
    /\ grid.echo <= acked /\ prog.echo <= received
    /\ wrote \in BOOLEAN /\ dirty \in [rows : BOOLEAN, cursor : BOOLEAN]
    /\ debounce \in {None} \cup [sent : Col, pending : Col \cup {None}]
    /\ overlay # NoOverlay => Sound(overlay)

\* Once a frame has acknowledged an input, nothing predicted for it is left:
\* it was confirmed, cut back or rejected ("the wrong prediction must be gone
\* immediately"), whatever mode changes, expiry and further keys did between.
JudgedAtOnce == overlay # NoOverlay => \A n \in Numbers(overlay) : n > grid.echo

\* After Enter nothing typed is shown before a frame has come that
\* acknowledges a key typed after it, whose output therefore follows that
\* key; unless a Backspace has forced the overlay to be shown, or the setting
\* is "always" and no application owns the screen.
NoBlindEcho ==
    overlay # NoOverlay /\ ~overlay.forced /\ (Display = "always" => AppMode(overlay.context)) =>
        \A c \in Predicted : overlay.cell[c].ack > newline => grid.echo > newline

\* That the program has echoed such a key does not follow: output for an older
\* key, drained after the later ones were received, can match a prediction.
EchoedBeforeShown ==
    overlay # NoOverlay /\ ~overlay.forced /\ (Display = "always" => AppMode(overlay.context)) =>
        \A c \in Predicted : overlay.cell[c].ack > newline => prog.echo > newline

\* A frame that contradicts no prediction it acknowledges leaves those of
\* later inputs alone, although it is older than they are.
Agrees(f) ==
    LET g == [text |-> IF f.text = NoRow THEN grid.text ELSE f.text, at |-> f.at]
    IN  /\ f.mode = overlay.context /\ f.mode # "password"
        /\ \A c \in Active(overlay) : overlay.cell[c].ack <= f.echo =>
              overlay.cell[c].unknown \/ overlay.cell[c].ch = g.text[c]
        /\ overlay.cursors # <<>> /\ Last(overlay.cursors).ack > f.echo
LaterKept ==
    [][Receive(0) /\ overlay # NoOverlay /\ Agrees(Head(chan)) =>
          /\ overlay' # NoOverlay /\ overlay'.cursors # <<>>
          /\ Last(overlay'.cursors) = Last(overlay.cursors)
          /\ \A c \in Col : overlay.cell[c] # Off /\ overlay.cell[c].ack > Head(chan).echo =>
                overlay'.cell[c] = overlay.cell[c]]_vars

\* When the user stops typing, the client ends up showing the program's line
\* and its cursor: held cursors are sent, wrong predictions go.
Converges == <>[](ShownText = prog.text /\ ShownCursor = prog.at)

\* "assert_eq!(actual[col].ch(), server.viewport[col].ch())" and the same of
\* the cursor: a frame does not spoil a picture that is what the line editor
\* makes of the keys typed.
TypedLine ==
    FoldLeft(LAMBDA s, m : IF Editable(s, m.key) THEN Edited(s, m.key) ELSE s, prog, tty \o up)
ShownIsTyped == ShownText = TypedLine.text /\ ShownCursor = TypedLine.at
FrameKeepsPicture == [][Receive(0) /\ ShownIsTyped => ShownIsTyped']_vars
=============================================================================
