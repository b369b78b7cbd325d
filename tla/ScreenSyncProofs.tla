-------------------------- MODULE ScreenSyncProofs --------------------------
(***************************************************************************)
(* Theorems about ScreenSync, for any number of clients, sessions, panes   *)
(* and rows and any channel capacity.                                      *)
(***************************************************************************)
EXTENDS ScreenSync, TLAPS

(* Types of the helpers.                                                   *)

LEMMA DamageTypes ==
    /\ Clean \in Damage
    /\ \A d \in Damage : /\ MarkFull(d) \in Damage
                         /\ MarkCursor(d) \in Damage
                         /\ Remark(d) \in Damage
                         /\ \A R \in SUBSET Row : MergeRanges(d, R) \in Damage
                         /\ \A s, p, Z : Resized(d, s, p, Z) \in Damage
  BY DEF Damage, Clean, MarkFull, MarkCursor, MergeRanges, Resized, Remark

LEMMA OneAccumulator ==
    ASSUME NEW D \in [Client -> [Pane -> Damage]], NEW c \in Client,
           NEW p \in Pane, NEW d \in Damage
    PROVE  /\ [D EXCEPT ![c][p] = d] \in [Client -> [Pane -> Damage]]
           /\ \A q \in Pane : [D EXCEPT ![c][p] = d][c][q] =
                                IF q = p THEN d ELSE D[c][q]
  OBVIOUS

LEMMA MarkedStale ==
    ASSUME NEW f \in Frame
    PROVE  LET g == [f EXCEPT !.stale = TRUE] IN
           /\ g \in Frame /\ g.stale
           /\ g.client = f.client /\ g.session = f.session /\ g.pane = f.pane
           /\ g.lines = f.lines /\ g.cells = f.cells /\ g.full = f.full
  <1> DEFINE g == [f EXCEPT !.stale = TRUE]
  <1>1. g \in Frame
    BY Zenon DEF Frame
  <1>2. /\ g.client = f.client /\ g.session = f.session /\ g.pane = f.pane
        /\ g.lines = f.lines /\ g.cells = f.cells /\ g.full = f.full
    BY DEF Frame
  <1>3. g.stale
    BY DEF Frame
  <1> QED
    BY <1>1, <1>2, <1>3

LEMMA OverlayType ==
    ASSUME NEW old \in Cells, NEW L, NEW new \in Cells
    PROVE  Overlay(old, L, new) \in Cells
  BY DEF Overlay, Cells

LEMMA DrainedType ==
    ASSUME TypeOK, NEW c \in Client, NEW p \in Pane, NEW G
    PROVE  Drained(c, p, G) \in Damage
  <1>1. damage[c][p] \in Damage /\ ptyRows[p] \in SUBSET Row
    BY DEF TypeOK
  <1>2. /\ MarkCursor(damage[c][p]) \in Damage
        /\ MarkCursor(MarkFull(damage[c][p])) \in Damage
        /\ MarkCursor(MergeRanges(damage[c][p], ptyRows[p])) \in Damage
    BY <1>1, DamageTypes
  <1> QED
    BY <1>1, <1>2 DEF Drained

LEMMA DrainType ==
    ASSUME TypeOK, DrainPanes
    PROVE  /\ ptyRows' \in [Pane -> SUBSET Row]
           /\ ptySync' \in [Pane -> BOOLEAN]
           /\ screen' \in [Pane -> Cells]
           /\ version' \in [Pane -> Nat]
           /\ syncOutput' \in [Pane -> BOOLEAN]
           /\ hadData' \in BOOLEAN
  BY DEF TypeOK, DrainPanes, Cells

LEMMA ResizeType ==
    ASSUME TypeOK, NEW Z, ResizePanes(Z)
    PROVE  /\ ptyRows' \in [Pane -> SUBSET Row]
           /\ ptySync' \in [Pane -> BOOLEAN]
           /\ screen' \in [Pane -> Cells]
           /\ version' \in [Pane -> Nat]
           /\ syncOutput' \in [Pane -> BOOLEAN]
  BY DEF TypeOK, ResizePanes, Cells

LEMMA SnapshotType ==
    ASSUME NEW c \in Client, NEW p \in Pane, NEW d \in Damage,
           screen' \in [Pane -> Cells]
    PROVE  Snapshot(c, p, d) \in Frame
  BY ConstantsAssumption DEF Snapshot, Frame, Damage, Cells, Covers

LEMMA StateSyncType ==
    ASSUME NEW s \in Session, screen' \in [Pane -> Cells]
    PROVE  StateSync(s, screen') \in SUBSET Message
  BY DEF StateSync, FullMsg, Message, FrameMsg, StateMsg, PanesOf

\* A channel never holds more than its capacity.
LEMMA PushType ==
    ASSUME TypeOK, NEW c \in Client, NEW m \in Message, Room(c),
           queue' = [queue EXCEPT ![c] = Append(@, m)]
    PROVE  /\ queue' \in [Client -> Seq(Message)]
           /\ \A k \in Client : Len(queue'[k]) <= QueueCap
  <1>1. queue[c] \in Seq(Message) /\ Len(queue[c]) \in Nat
    BY DEF TypeOK
  <1>2. Append(queue[c], m) \in Seq(Message) /\ Len(Append(queue[c], m)) = Len(queue[c]) + 1
    BY <1>1
  <1>3. Len(queue[c]) + 1 <= QueueCap
    BY <1>1, ConstantsAssumption DEF Room
  <1> QED
    BY <1>2, <1>3 DEF TypeOK
-----------------------------------------------------------------------------
(* Type correctness, one lemma per action.                                 *)

LEMMA InitType == Init => TypeOK
  <1> SUFFICES ASSUME Init PROVE TypeOK
    OBVIOUS
  <1>1. damage \in [Client -> [Pane -> Damage]]
    BY DamageTypes DEF Init
  <1>2. /\ screen \in [Pane -> Cells]
        /\ grid \in [Client -> [Pane -> Cells]]
        /\ sent \in [Client -> [Pane -> Cells]]
    BY DEF Init, Cells
  <1>3. /\ queue \in [Client -> Seq(Message)]
        /\ \A c \in Client : Len(queue[c]) <= QueueCap
    BY ConstantsAssumption DEF Init
  <1> QED
    BY <1>1, <1>2, <1>3 DEF Init, TypeOK

LEMMA PtyOutputType ==
    ASSUME TypeOK, NEW p \in Pane, NEW R \in SUBSET Row, NEW m \in BOOLEAN,
           PtyOutput(p, R, m)
    PROVE  TypeOK'
  BY DEF TypeOK, PtyOutput, table, view, history

LEMMA FrameDeadlineType ==
    ASSUME TypeOK, FrameDeadline
    PROVE  TypeOK'
  BY DEF TypeOK, FrameDeadline, panes, table, view, history

LEMMA TickDrainType ==
    ASSUME TypeOK, TickDrain
    PROVE  TypeOK'
  <1>1. damage' \in [Client -> [Pane -> Damage]]
    BY DrainedType DEF TickDrain
  <1>2. framePending' \in BOOLEAN
    BY DEF TickDrain
  <1>3. permit' \in BOOLEAN
    BY DEF TickDrain, Woken, TypeOK
  <1> QED
    BY <1>1, <1>2, <1>3, DrainType DEF TypeOK, TickDrain, view, history

LEMMA TickCollectType ==
    ASSUME TypeOK, TickCollect
    PROVE  TypeOK'
  <1>1. PICK G \in SUBSET Pane : \E H \in SUBSET Ready(G) : Collect(G, H)
    BY DEF TickCollect
  <1>2. PICK H \in SUBSET Ready(G) : Collect(G, H)
    BY <1>1
  <1>3. damage' \in [Client -> [Pane -> Damage]]
    <2>1. MarkCursor(Clean) \in Damage /\ Clean \in Damage
      BY DamageTypes
    <2> QED
      BY <1>2, <2>1, DrainedType DEF Collect
  <1>4. batch' \subseteq Frame
    <2>1. screen' \in [Pane -> Cells]
      BY DrainType DEF TickCollect
    <2>2. ASSUME NEW cp \in Ready(G)
          PROVE  Snapshot(cp[1], cp[2], Drained(cp[1], cp[2], G)) \in Frame
      <3>1. cp[1] \in Client /\ cp[2] \in Pane
        BY <2>2 DEF Ready
      <3> QED
        BY <2>1, <3>1, DrainedType, SnapshotType
    <2> QED
      BY <1>2, <2>2 DEF Collect
  <1>5. framePending' \in BOOLEAN /\ due' \in BOOLEAN
    BY <1>2 DEF Collect
  <1>6. permit' \in BOOLEAN
    BY DEF TickCollect, Woken, TypeOK
  <1> QED
    BY <1>3, <1>4, <1>5, <1>6, DrainType DEF TypeOK, TickCollect, view, history

LEMMA TickSendType ==
    ASSUME TypeOK, NEW f \in batch, TickSend(f)
    PROVE  TypeOK'
  <1> DEFINE c == f.client
             m == [kind |-> "frame", pane |-> f.pane, lines |-> f.lines,
                   cells |-> f.cells]
  <1>1. /\ f \in Frame /\ c \in Client /\ f.pane \in Pane
        /\ f.lines \in SUBSET Row /\ f.cells \in Cells
    BY DEF TypeOK, Frame
  <1>2. m \in Message
    BY <1>1 DEF Message, FrameMsg
  <1>3. CASE SendOk(f)
    <2>1. queue' \in [Client -> Seq(Message)] /\ \A k \in Client : Len(queue'[k]) <= QueueCap
      BY <1>1, <1>2, <1>3, PushType DEF SendOk
    <2>2. sent' \in [Client -> [Pane -> Cells]]
      BY <1>1, <1>3, OverlayType DEF SendOk, TypeOK
    <2>3. /\ dropped' \in [Client -> SUBSET (Pane \X Row)]
          /\ reordered' \in [Client -> SUBSET Pane]
          /\ fails' \in [Client -> Nat]
      BY <1>1, <1>3 DEF SendOk, TypeOK
    <2> QED
      BY <1>3, <2>1, <2>2, <2>3 DEF TypeOK, TickSend, SendOk, panes, view
  <1>4. CASE SendFail(f)
    <2>1. damage' \in [Client -> [Pane -> Damage]]
      <3>1. Remark(damage[c][f.pane]) \in Damage
        BY <1>1, DamageTypes DEF TypeOK
      <3>2. damage' = damage \/ damage' = [damage EXCEPT ![c][f.pane] = Remark(@)]
        BY <1>4 DEF SendFail
      <3> QED
        <4>1. [damage EXCEPT ![c][f.pane] = Remark(damage[c][f.pane])]
                \in [Client -> [Pane -> Damage]]
          BY <1>1, <3>1, OneAccumulator DEF TypeOK
        <4> QED
          BY <3>2, <4>1 DEF TypeOK
    <2>2. dropped' \in [Client -> SUBSET (Pane \X Row)]
      BY <1>1, <1>4 DEF SendFail, TypeOK
    <2>3. fails' \in [Client -> Nat] /\ evict' \subseteq Client
      <3>1. fails[c] + 1 \in Nat /\ fails' = [fails EXCEPT ![c] = @ + 1]
        BY <1>1, <1>4 DEF SendFail, TypeOK
      <3>2. evict' = evict \/ evict' = evict \cup {c}
        BY <1>4 DEF SendFail
      <3> QED
        BY <1>1, <3>1, <3>2 DEF TypeOK
    <2>4. framePending' \in BOOLEAN
      BY <1>4 DEF SendFail, TypeOK
    <2> QED
      BY <1>4, <2>1, <2>2, <2>3, <2>4 DEF TypeOK, TickSend, SendFail, panes, view
  <1>5. CASE SendSkip(f)
    BY <1>5 DEF TypeOK, TickSend, SendSkip, panes, view
  <1> QED
    BY <1>3, <1>4, <1>5 DEF TickSend

LEMMA TickEndType ==
    ASSUME TypeOK, TickEnd
    PROVE  TypeOK'
  <1>1. damage' \in [Client -> [Pane -> Damage]]
    BY DamageTypes DEF TickEnd, TypeOK
  <1>2. /\ sess' \in [Client -> Session \cup {NoSession}]
        /\ fails' \in [Client -> Nat]
        /\ retry' \in BOOLEAN
    BY DEF TickEnd, TypeOK, Rearm
  <1> QED
    BY <1>1, <1>2 DEF TypeOK, TickEnd, panes, view, history

LEMMA AttachType ==
    ASSUME TypeOK, NEW c \in Client, NEW s \in Session, NEW Z \in SUBSET Pane,
           Attach(c, s, Z)
    PROVE  TypeOK'
  <1>1. damage' \in [Client -> [Pane -> Damage]]
    BY DamageTypes DEF Attach, TypeOK
  <1>2. outbox' \in [Client -> SUBSET Message]
    <2>1. StateSync(s, screen') \in SUBSET Message
      BY ResizeType, StateSyncType DEF Attach
    <2> QED
      BY <2>1 DEF Attach, TypeOK
  <1>3. /\ sess' \in [Client -> Session \cup {NoSession}]
        /\ conn' \in [Client -> {"off", "joining", "on"}]
        /\ fails' \in [Client -> Nat]
    BY DEF Attach, TypeOK
  <1> QED
    BY <1>1, <1>2, <1>3, ResizeType DEF TypeOK, Attach, tick, view, history

\* What a handler pushes, and the history it leaves, keep their types.
LEMMA PushedType ==
    ASSUME TypeOK, NEW c \in Client, NEW m \in outbox[c], Room(c), Pushed(c, m)
    PROVE  /\ queue' \in [Client -> Seq(Message)]
           /\ \A k \in Client : Len(queue'[k]) <= QueueCap
           /\ sent' \in [Client -> [Pane -> Cells]]
           /\ dropped' \in [Client -> SUBSET (Pane \X Row)]
           /\ reordered' \in [Client -> SUBSET Pane]
           /\ blind' \in [Client -> BOOLEAN]
  <1>1. m \in Message
    BY DEF TypeOK
  <1>2. /\ queue' \in [Client -> Seq(Message)]
        /\ \A k \in Client : Len(queue'[k]) <= QueueCap
    BY <1>1, PushType DEF Pushed
  <1>3. sent' \in [Client -> [Pane -> Cells]]
    <2>1. CASE m.kind = "frame"
      <3>1. m.pane \in Pane /\ m.cells \in Cells
        BY <1>1, <2>1 DEF Message, FrameMsg, StateMsg, SwitchedMsg
      <3>2. Overlay(sent[c][m.pane], m.lines, m.cells) \in Cells
        BY <3>1, OverlayType DEF TypeOK
      <3> QED
        BY <2>1, <3>1, <3>2 DEF Pushed, TypeOK
    <2>2. CASE m.kind # "frame"
      BY <2>2 DEF Pushed, TypeOK
    <2> QED
      BY <2>1, <2>2
  <1>4. blind' \in [Client -> BOOLEAN]
    <2>1. blind' = [blind EXCEPT ![c] = blind[c] /\ m.kind # "state"]
      BY DEF Pushed
    <2> QED
      BY <2>1 DEF TypeOK
  <1> QED
    BY <1>2, <1>3, <1>4 DEF Pushed, TypeOK

LEMMA SendInitialType ==
    ASSUME TypeOK, NEW c \in Client, NEW m \in outbox[c], SendInitial(c, m)
    PROVE  TypeOK'
  <1>1. outbox' \in [Client -> SUBSET Message]
    BY DEF SendInitial, TypeOK
  <1>2. conn' \in [Client -> {"off", "joining", "on"}]
    BY DEF SendInitial, TypeOK
  <1> QED
    BY <1>1, <1>2, PushedType DEF TypeOK, SendInitial, panes, tick, view

LEMMA SwitchSessionType ==
    ASSUME TypeOK, NEW c \in Client, NEW t \in Target, NEW Z \in SUBSET Pane,
           SwitchSession(c, t, Z)
    PROVE  TypeOK'
  <1>1. t \in Session
    BY ConstantsAssumption
  <1>2. damage' \in [Client -> [Pane -> Damage]]
    BY DamageTypes DEF SwitchSession, TypeOK
  <1>3. outbox' \in [Client -> SUBSET Message]
    <2>1. StateSync(t, screen') \in SUBSET Message
      BY <1>1, ResizeType, StateSyncType DEF SwitchSession
    <2>2. [kind |-> "switched", session |-> t] \in Message
      BY <1>1 DEF Message, SwitchedMsg
    <2> QED
      BY <2>1, <2>2 DEF SwitchSession, TypeOK
  <1>4. batch' \subseteq Frame
    <2>1. ASSUME NEW f \in batch
          PROVE  [f EXCEPT !.stale = TRUE] \in Frame
      BY MarkedStale DEF TypeOK
    <2> QED
      BY <2>1 DEF SwitchSession, TypeOK
  <1>5. /\ sess' \in [Client -> Session \cup {NoSession}]
        /\ fails' \in [Client -> Nat]
        /\ reordered' \in [Client -> SUBSET Pane]
        /\ dropped' \in [Client -> SUBSET (Pane \X Row)]
        /\ holder' \in Client \cup {None}
    BY <1>1 DEF SwitchSession, TypeOK
  <1> QED
    BY <1>2, <1>3, <1>4, <1>5, ResizeType DEF TypeOK, SwitchSession, view

LEMMA DispatchType ==
    ASSUME TypeOK, NEW c \in Client, NEW m \in outbox[c], Dispatch(c, m)
    PROVE  TypeOK'
  <1>1. outbox' \in [Client -> SUBSET Message] /\ holder' \in Client \cup {None}
    BY DEF Dispatch, TypeOK
  <1>2. CASE Room(c) /\ Pushed(c, m)
    BY <1>1, <1>2, PushedType DEF TypeOK, Dispatch, panes, tick, view
  <1>3. CASE /\ ~Room(c)
             /\ blind' = [blind EXCEPT ![c] = @ \/ m.kind = "state"]
             /\ dropped' = [dropped EXCEPT ![c] = @ \cup
                   (IF m.kind = "frame" THEN {m.pane} \X m.lines ELSE {})]
             /\ UNCHANGED <<queue, sent, reordered>>
    <2>1. m \in Message
      BY DEF TypeOK
    <2>2. (IF m.kind = "frame" THEN {m.pane} \X m.lines ELSE {}) \in SUBSET (Pane \X Row)
      BY <2>1 DEF Message, FrameMsg, StateMsg, SwitchedMsg
    <2>3. dropped' \in [Client -> SUBSET (Pane \X Row)]
      BY <1>3, <2>2 DEF TypeOK
    <2>4. blind' \in [Client -> BOOLEAN]
      <3>1. blind' = [blind EXCEPT ![c] = blind[c] \/ m.kind = "state"]
        BY <1>3
      <3> QED
        BY <3>1 DEF TypeOK
    <2> QED
      BY <1>1, <1>3, <2>3, <2>4 DEF TypeOK, Dispatch, panes, tick, view
  <1> QED
    BY <1>2, <1>3 DEF Dispatch

LEMMA ResizeActionType ==
    ASSUME TypeOK, NEW c \in Client, NEW Z \in SUBSET Pane, Resize(c, Z)
    PROVE  TypeOK'
  <1>1. damage' \in [Client -> [Pane -> Damage]]
    BY DamageTypes DEF Resize, TypeOK
  <1> QED
    BY <1>1, ResizeType DEF TypeOK, Resize, tick, view, history

LEMMA InputType ==
    ASSUME TypeOK, NEW c \in Client, NEW p \in Pane, Input(c, p)
    PROVE  TypeOK'
  <1>1. damage' \in [Client -> [Pane -> Damage]]
    <2>1. MarkCursor(damage[c][p]) \in Damage
      BY DamageTypes DEF TypeOK
    <2>2. damage' = damage \/ damage' = [damage EXCEPT ![c][p] = MarkCursor(@)]
      BY DEF Input
    <2>3. [damage EXCEPT ![c][p] = MarkCursor(damage[c][p])]
            \in [Client -> [Pane -> Damage]]
      BY <2>1, OneAccumulator DEF TypeOK
    <2> QED
      BY <2>2, <2>3 DEF TypeOK
  <1> QED
    BY <1>1 DEF TypeOK, Input, panes, view, history

LEMMA LeaveType ==
    ASSUME TypeOK, NEW c \in Client, Leave(c)
    PROVE  TypeOK'
  <1>1. damage' \in [Client -> [Pane -> Damage]]
    BY DamageTypes DEF Leave, TypeOK
  <1>2. [p \in Pane |-> [r \in Row |-> 0]] \in [Pane -> Cells]
    BY DEF Cells
  <1>3. /\ queue' \in [Client -> Seq(Message)]
        /\ \A k \in Client : Len(queue'[k]) <= QueueCap
    <2>1. queue' = [queue EXCEPT ![c] = <<>>]
      BY DEF Leave
    <2>2. <<>> \in Seq(Message) /\ Len(<<>>) <= QueueCap
      BY ConstantsAssumption
    <2> QED
      BY <2>1, <2>2 DEF TypeOK
  <1>4. grid' \in [Client -> [Pane -> Cells]] /\ sent' \in [Client -> [Pane -> Cells]]
    BY <1>2 DEF Leave, TypeOK
  <1> QED
    BY <1>1, <1>3, <1>4 DEF TypeOK, Leave, panes

LEMMA ReceiveType ==
    ASSUME TypeOK, NEW c \in Client, Receive(c)
    PROVE  TypeOK'
  <1> DEFINE m == Head(queue[c])
  <1>1. m \in Message
    BY DEF TypeOK, Receive
  <1>2. /\ queue' \in [Client -> Seq(Message)]
        /\ \A k \in Client : Len(queue'[k]) <= QueueCap
    <2>1. queue[c] \in Seq(Message) /\ queue[c] # <<>> /\ Len(queue[c]) <= QueueCap
      BY DEF TypeOK, Receive
    <2>2. Tail(queue[c]) \in Seq(Message) /\ Len(Tail(queue[c])) <= QueueCap
      BY <2>1, ConstantsAssumption
    <2> QED
      BY <2>2 DEF TypeOK, Receive
  <1>3. expected' \in [Client -> SUBSET Pane]
    <2>1. expected' = expected \/ expected' = [expected EXCEPT ![c] = PanesOf(m.session)]
      BY DEF Receive
    <2>2. PanesOf(m.session) \in SUBSET Pane
      BY DEF PanesOf
    <2> QED
      BY <2>1, <2>2 DEF TypeOK
  <1>4. grid' \in [Client -> [Pane -> Cells]]
    <2>1. CASE m.kind = "frame" /\ m.pane \in expected[c]
      <3>1. m.pane \in Pane /\ m.cells \in Cells
        BY <1>1, <2>1 DEF Message, FrameMsg, StateMsg, SwitchedMsg
      <3>2. Overlay(grid[c][m.pane], m.lines, m.cells) \in Cells
        BY <3>1, OverlayType DEF TypeOK
      <3>3. grid' = [grid EXCEPT ![c][m.pane] = Overlay(@, m.lines, m.cells)]
        BY <2>1 DEF Receive
      <3> QED
        BY <3>1, <3>2, <3>3 DEF TypeOK
    <2>2. CASE ~(m.kind = "frame" /\ m.pane \in expected[c])
      BY <2>2 DEF Receive, TypeOK
    <2> QED
      BY <2>1, <2>2
  <1> QED
    BY <1>2, <1>3, <1>4 DEF TypeOK, Receive, panes, tick, history

LEMMA StutterType ==
    ASSUME TypeOK, UNCHANGED vars
    PROVE  TypeOK'
  BY DEF TypeOK, vars, panes, tick, table, view, history

LEMMA NextType ==
    ASSUME TypeOK, [Next]_vars
    PROVE  TypeOK'
  <1>1. ASSUME NEW c \in Client, Handler(c)
        PROVE  TypeOK'
    BY <1>1, AttachType, SendInitialType, SwitchSessionType, DispatchType,
       ResizeActionType, InputType, LeaveType, ReceiveType
       DEF Handler
  <1>2. CASE Tick
    BY <1>2, TickDrainType, TickCollectType, TickSendType, TickEndType DEF Tick
  <1> QED
    BY <1>1, <1>2, PtyOutputType, FrameDeadlineType, StutterType DEF Next

\* Every variable keeps its type, and no client's channel ever holds more than
\* its capacity: try_send and the awaited send never overfill it.
THEOREM TypeCorrect == Spec => []TypeOK
  <1> QED
    BY InitType, NextType, PTL DEF Spec
-----------------------------------------------------------------------------
(* Nothing the daemon owes a client is forgotten.                          *)
(*                                                                         *)
(* The induction is per client: CarriedOver covers every step that leaves  *)
(* a client's frames alone, and each remaining lemma treats the one client *)
(* whose frames a step takes, pushes, refuses or replaces.                 *)

Kept(c) == AccountedFor(c) /\ BatchFresh(c) /\ OutboxFresh(c)

LEMMA CoversFacts ==
    ASSUME NEW d \in Damage, NEW r \in Row
    PROVE  /\ ~Covers(Clean, r)
           /\ Covers(MarkFull(d), r)
           /\ Covers(Remark(d), r)
           /\ Covers(MarkCursor(d), r) <=> Covers(d, r)
           /\ \A R \in SUBSET Row :
                Covers(MergeRanges(d, R), r) <=> (Covers(d, r) \/ r \in R)
           /\ \A s, p, Z : Covers(d, r) => Covers(Resized(d, s, p, Z), r)
  BY DEF Damage, Clean, Covers, MarkFull, Remark, MarkCursor, MergeRanges, Resized

\* Marking after a drain covers what was marked and what the output rewrote.
LEMMA DrainedCovers ==
    ASSUME TypeOK, NEW c \in Client, NEW p \in Pane, NEW r \in Row, NEW G,
           sess[c] = SessionOf[p]
    PROVE  Covers(Drained(c, p, G), r) <=>
             \/ Covers(damage[c][p], r)
             \/ r \in ptyRows[p]
             \/ ptyRows[p] # {} /\ p \in G
  <1>1. damage[c][p] \in Damage /\ ptyRows[p] \in SUBSET Row
    BY DEF TypeOK
  <1>2. MarkFull(damage[c][p]) \in Damage /\ MergeRanges(damage[c][p], ptyRows[p]) \in Damage
    BY <1>1, DamageTypes
  <1>3. CASE ~HasData(p)
    BY <1>3 DEF Drained, HasData
  <1>4. CASE HasData(p) /\ ptyRows[p] = {}
    BY <1>1, <1>4, CoversFacts DEF Drained
  <1>5. CASE HasData(p) /\ ptyRows[p] # {} /\ p \in G
    BY <1>1, <1>2, <1>5, CoversFacts DEF Drained
  <1>6. CASE HasData(p) /\ ptyRows[p] # {} /\ p \notin G
    BY <1>1, <1>2, <1>6, CoversFacts DEF Drained
  <1> QED
    BY <1>3, <1>4, <1>5, <1>6

LEMMA DrainScreen ==
    ASSUME TypeOK, DrainPanes, NEW p \in Pane, NEW r \in Row, r \notin ptyRows[p]
    PROVE  screen'[p][r] = screen[p][r]
  BY DEF TypeOK, DrainPanes, Cells

LEMMA ResizeScreen ==
    ASSUME TypeOK, NEW Z, ResizePanes(Z), NEW p \in Pane, p \notin Z
    PROVE  screen'[p] = screen[p]
  BY DEF TypeOK, ResizePanes

LEMMA FrameMessage ==
    ASSUME TypeOK, NEW c \in Client, NEW m \in outbox[c], m.kind = "frame"
    PROVE  m.pane \in Pane /\ m.lines \in SUBSET Row /\ m.cells \in Cells
  <1>1. m \in Message
    BY DEF TypeOK
  <1> QED
    BY <1>1 DEF Message, FrameMsg, StateMsg, SwitchedMsg

LEMMA CarriedOver ==
    ASSUME NEW c \in Client, Kept(c), Structure, TypeOK,
           sess'[c] = sess[c], outbox'[c] = outbox[c], sent'[c] = sent[c],
           dropped'[c] = dropped[c], reordered'[c] = reordered[c],
           \A f \in batch : f.client = c => f \in batch',
           \A f \in batch' : f.client = c => f \in batch,
           \A p \in Pane, r \in Row : sess[c] = SessionOf[p] =>
             /\ Covers(damage[c][p], r) => Covers(damage'[c][p], r)
             /\ screen'[p][r] = screen[p][r] \/ Covers(damage'[c][p], r)
    PROVE  Kept(c)'
  <1>1. ASSUME NEW p \in Pane, NEW r \in Row, sess[c] = SessionOf[p],
               ~Covers(damage'[c][p], r)
        PROVE  /\ screen'[p][r] = screen[p][r] /\ ~Covers(damage[c][p], r)
               /\ InBatch(c, p, r) => InBatch(c, p, r)'
               /\ InOutbox(c, p, r) => InOutbox(c, p, r)'
    <2>1. screen'[p][r] = screen[p][r] /\ ~Covers(damage[c][p], r)
      BY <1>1
    <2>2. InBatch(c, p, r) => InBatch(c, p, r)'
      BY <2>1 DEF InBatch
    <2>3. InOutbox(c, p, r) => InOutbox(c, p, r)'
      BY <2>1 DEF InOutbox
    <2> QED
      BY <2>1, <2>2, <2>3
  <1>2. AccountedFor(c)'
    <2> SUFFICES ASSUME NEW p \in Pane, NEW r \in Row, sess[c] = SessionOf[p],
                        ~Covers(damage'[c][p], r)
                 PROVE  \/ sent'[c][p][r] = screen'[p][r]
                        \/ InBatch(c, p, r)' \/ InOutbox(c, p, r)'
                        \/ <<p, r>> \in dropped'[c] \/ p \in reordered'[c]
      BY DEF AccountedFor, Covers
    <2> QED
      BY <1>1 DEF Kept, AccountedFor
  <1>3. BatchFresh(c)'
    <2> SUFFICES ASSUME NEW f \in batch', f.client = c, ~f.stale, f.session = sess[c],
                        NEW r \in f.lines, ~Covers(damage'[c][f.pane], r)
                 PROVE  f.cells[r] = screen'[f.pane][r]
      BY DEF BatchFresh, Covers
    <2>1. /\ f \in batch /\ f \in Frame /\ f.pane \in Pane /\ r \in Row
          /\ sess[c] = SessionOf[f.pane]
      BY DEF TypeOK, Frame, Structure
    <2> QED
      BY <1>1, <2>1 DEF Kept, BatchFresh
  <1>4. OutboxFresh(c)'
    <2> SUFFICES ASSUME NEW m \in outbox[c], NEW r \in Row, m.kind = "frame",
                        sess[c] = SessionOf[m.pane], ~Covers(damage'[c][m.pane], r)
                 PROVE  \/ m.cells[r] = screen'[m.pane][r]
                        \/ InBatch(c, m.pane, r)'
                        \/ <<m.pane, r>> \in dropped'[c]
                        \/ m.pane \in reordered'[c]
      BY DEF OutboxFresh, Covers
    <2>1. m.pane \in Pane
      BY FrameMessage
    <2> QED
      BY <1>1, <2>1 DEF Kept, OutboxFresh
  <1> QED
    BY <1>2, <1>3, <1>4 DEF Kept

\* An accumulator is only marked, or reset with the screen as it is.
LEMMA TickDrainKept ==
    ASSUME TypeOK, Structure, TickDrain, NEW c \in Client, Kept(c)
    PROVE  Kept(c)'
  <1>1. PICK G \in SUBSET Pane :
          damage' = [k \in Client |-> [p \in Pane |-> Drained(k, p, G)]]
    BY DEF TickDrain
  <1>2. ASSUME NEW p \in Pane, NEW r \in Row, sess[c] = SessionOf[p]
        PROVE  /\ Covers(damage[c][p], r) => Covers(damage'[c][p], r)
               /\ screen'[p][r] = screen[p][r] \/ Covers(damage'[c][p], r)
    <2>1. damage'[c][p] = Drained(c, p, G)
      BY <1>1
    <2>2. r \in ptyRows[p] \/ screen'[p][r] = screen[p][r]
      BY DrainScreen DEF TickDrain
    <2> QED
      BY <1>2, <2>1, <2>2, DrainedCovers
  <1> QED
    BY <1>2, CarriedOver DEF TickDrain, history

LEMMA SnapshotFacts ==
    ASSUME NEW c, NEW p \in Pane, NEW d \in Damage, NEW r \in Row
    PROVE  LET f == Snapshot(c, p, d) IN
           /\ f.client = c /\ f.pane = p /\ f.session = SessionOf[p]
           /\ r \in f.lines <=> Covers(d, r)
           /\ Covers(d, r) => f.cells[r] = screen'[p][r]
           /\ f.full => f.lines = Row
  BY DEF Snapshot, Covers, Damage

LEMMA TickCollectKept ==
    ASSUME TypeOK, Structure, TickCollect, NEW c \in Client, Kept(c)
    PROVE  Kept(c)'
  <1>1. PICK G \in SUBSET Pane : \E H \in SUBSET Ready(G) : Collect(G, H)
    BY DEF TickCollect
  <1>2. PICK H \in SUBSET Ready(G) : Collect(G, H)
    BY <1>1
  <1>3. batch = {}
    BY DEF TickCollect, Structure
  <1>4. ASSUME NEW p \in Pane, NEW r \in Row, sess[c] = SessionOf[p]
        PROVE  \/ Covers(damage'[c][p], r)
               \/ InBatch(c, p, r)'
               \/ screen'[p][r] = screen[p][r] /\ ~Covers(damage[c][p], r)
    <2> DEFINE d == Drained(c, p, G)
    <2>1. d \in Damage
      BY DrainedType
    <2>2. CASE ~Covers(d, r)
      <3>1. ~Covers(damage[c][p], r) /\ r \notin ptyRows[p]
        BY <1>4, <2>2, DrainedCovers
      <3> QED
        BY <3>1, DrainScreen DEF TickCollect
    <2>3. CASE Covers(d, r) /\ <<c, p>> \notin Ready(G)
      BY <1>2, <2>3 DEF Collect
    <2>4. CASE Covers(d, r) /\ <<c, p>> \in Ready(G)
      <3>1. Snapshot(c, p, d) \in batch'
        <4>1. Snapshot(<<c, p>>[1], <<c, p>>[2], Drained(<<c, p>>[1], <<c, p>>[2], G)) \in batch'
          BY <1>2, <2>4 DEF Collect
        <4> QED
          BY <4>1
      <3>2. sess'[c] = SessionOf[p]
        BY <1>4 DEF TickCollect
      <3> QED
        BY <2>1, <2>4, <3>1, <3>2, SnapshotFacts DEF InBatch
    <2> QED
      BY <2>2, <2>3, <2>4
  <1>5. UNCHANGED <<sess, outbox, sent, dropped, reordered>>
    BY DEF TickCollect, history
  <1>6. ASSUME NEW p \in Pane, NEW r \in Row
        PROVE  ~InBatch(c, p, r)
    BY <1>3 DEF InBatch
  <1>7. AccountedFor(c)'
    <2> SUFFICES ASSUME NEW p \in Pane, NEW r \in Row, sess[c] = SessionOf[p],
                        ~Covers(damage'[c][p], r), ~InBatch(c, p, r)'
                 PROVE  \/ sent[c][p][r] = screen'[p][r]
                        \/ InOutbox(c, p, r)'
                        \/ <<p, r>> \in dropped[c] \/ p \in reordered[c]
      BY <1>5 DEF AccountedFor, Covers
    <2>1. screen'[p][r] = screen[p][r] /\ ~Covers(damage[c][p], r)
      BY <1>4
    <2>2. InOutbox(c, p, r) => InOutbox(c, p, r)'
      BY <1>5, <2>1 DEF InOutbox
    <2> QED
      BY <1>6, <2>1, <2>2 DEF Kept, AccountedFor
  <1>8. BatchFresh(c)'
    <2>1. ASSUME NEW cp \in Ready(G), NEW r \in Row,
                 LET f == Snapshot(cp[1], cp[2], Drained(cp[1], cp[2], G)) IN r \in f.lines
          PROVE  LET f == Snapshot(cp[1], cp[2], Drained(cp[1], cp[2], G)) IN
                 f.cells[r] = screen'[f.pane][r]
      <3>1. cp[1] \in Client /\ cp[2] \in Pane
        BY DEF Ready
      <3> QED
        BY <2>1, <3>1, DrainedType, SnapshotFacts
    <2>2. \A f \in batch' : f.lines \in SUBSET Row
      BY TickCollectType DEF TypeOK, Frame
    <2>3. \A f \in batch' : \A r \in f.lines : f.cells[r] = screen'[f.pane][r]
      BY <1>2, <2>1, <2>2 DEF Collect
    <2> QED
      BY <2>3 DEF BatchFresh
  <1>9. OutboxFresh(c)'
    <2> SUFFICES ASSUME NEW m \in outbox[c], NEW r \in Row, m.kind = "frame",
                        sess[c] = SessionOf[m.pane], ~Covers(damage'[c][m.pane], r),
                        ~InBatch(c, m.pane, r)'
                 PROVE  \/ m.cells[r] = screen'[m.pane][r]
                        \/ <<m.pane, r>> \in dropped[c]
                        \/ m.pane \in reordered[c]
      BY <1>5 DEF OutboxFresh, Covers
    <2>1. m.pane \in Pane
      BY FrameMessage
    <2> QED
      BY <1>4, <1>6, <2>1 DEF Kept, OutboxFresh
  <1> QED
    BY <1>7, <1>8, <1>9 DEF Kept

\* A frame of another pane, or of another client, stays where it is.
LEMMA OtherFrame ==
    ASSUME NEW f \in batch, batch' = batch \ {f},
           NEW c \in Client, NEW p \in Pane, NEW r \in Row,
           InBatch(c, p, r), UNCHANGED <<sess, screen>>,
           f.client # c \/ f.pane # p \/ f.session # sess[c] \/ r \notin f.lines
    PROVE  InBatch(c, p, r)'
  BY DEF InBatch

LEMMA SendOkKept ==
    ASSUME TypeOK, Structure, NEW f \in batch, TickSend(f), SendOk(f),
           Kept(f.client)
    PROVE  Kept(f.client)'
  <1> DEFINE c == f.client
  <1>1. /\ f \in Frame /\ c \in Client /\ f.pane \in Pane
        /\ f.lines \in SUBSET Row /\ f.cells \in Cells
    BY DEF TypeOK, Frame
  <1>2. /\ UNCHANGED <<sess, screen, outbox, damage>>
        /\ batch' = batch \ {f}
    BY DEF TickSend, SendOk, panes
  <1>3. sess[c] = f.session /\ f.session = SessionOf[f.pane]
    BY DEF SendOk, SameSession, Structure
  <1>4. \A q \in Pane : q # f.pane => sent'[c][q] = sent[c][q]
    BY <1>1 DEF SendOk, TypeOK
  <1>5. \A r \in Row : sent'[c][f.pane][r] =
                         IF r \in f.lines THEN f.cells[r] ELSE sent[c][f.pane][r]
    BY <1>1 DEF SendOk, TypeOK, Overlay
  <1>6. dropped'[c] = dropped[c] \ {pr \in dropped[c] : pr[1] = f.pane /\ pr[2] \in f.lines}
    BY <1>1 DEF SendOk, TypeOK
  <1>7. reordered'[c] = IF Overtakes(f) \/ f.stale THEN reordered[c] \cup {f.pane}
                        ELSE IF f.full THEN reordered[c] \ {f.pane} ELSE reordered[c]
    BY <1>1 DEF SendOk, TypeOK
  <1>8. ASSUME NEW p \in Pane, NEW r \in Row, p # f.pane \/ r \notin f.lines
        PROVE  /\ sent'[c][p][r] = sent[c][p][r]
               /\ InBatch(c, p, r) => InBatch(c, p, r)'
               /\ InOutbox(c, p, r) => InOutbox(c, p, r)'
               /\ <<p, r>> \in dropped[c] => <<p, r>> \in dropped'[c]
               /\ p \in reordered[c] => p \in reordered'[c]
    <2>1. sent'[c][p][r] = sent[c][p][r]
      BY <1>4, <1>5, <1>8
    <2>2. InBatch(c, p, r) => InBatch(c, p, r)'
      BY <1>1, <1>2, <1>8, OtherFrame
    <2>3. InOutbox(c, p, r) => InOutbox(c, p, r)'
      BY <1>2 DEF InOutbox
    <2>4. <<p, r>> \in dropped[c] => <<p, r>> \in dropped'[c]
      BY <1>6, <1>8
    <2>5. p \in reordered[c] => p \in reordered'[c]
      BY <1>7, <1>8 DEF Structure
    <2> QED
      BY <2>1, <2>2, <2>3, <2>4, <2>5
  <1>9. AccountedFor(c)'
    <2> SUFFICES ASSUME NEW p \in Pane, NEW r \in Row, sess[c] = SessionOf[p],
                        ~Covers(damage[c][p], r)
                 PROVE  \/ sent'[c][p][r] = screen[p][r]
                        \/ InBatch(c, p, r)' \/ InOutbox(c, p, r)'
                        \/ <<p, r>> \in dropped'[c] \/ p \in reordered'[c]
      BY <1>2 DEF AccountedFor, Covers
    <2>1. CASE p # f.pane \/ r \notin f.lines
      BY <1>8, <2>1 DEF Kept, AccountedFor
    <2>2. CASE p = f.pane /\ r \in f.lines /\ (Overtakes(f) \/ f.stale)
      BY <1>7, <2>2
    <2>3. CASE p = f.pane /\ r \in f.lines /\ ~f.stale
      <3>1. f.cells[r] = screen[p][r]
        BY <1>1, <1>3, <2>3 DEF Kept, BatchFresh
      <3> QED
        BY <1>5, <2>3, <3>1
    <2> QED
      BY <2>1, <2>2, <2>3
  <1>10. BatchFresh(c)'
    BY <1>2 DEF Kept, BatchFresh, Covers
  <1>11. OutboxFresh(c)'
    <2> SUFFICES ASSUME NEW m \in outbox[c], NEW r \in Row, m.kind = "frame",
                        sess[c] = SessionOf[m.pane], ~Covers(damage[c][m.pane], r)
                 PROVE  \/ m.cells[r] = screen[m.pane][r]
                        \/ InBatch(c, m.pane, r)'
                        \/ <<m.pane, r>> \in dropped'[c]
                        \/ m.pane \in reordered'[c]
      BY <1>2 DEF OutboxFresh, Covers
    <2>1. m.pane \in Pane
      BY <1>1, FrameMessage
    <2>2. CASE m.pane = f.pane
      BY <1>7, <2>2 DEF Overtakes
    <2>3. CASE m.pane # f.pane
      BY <1>8, <2>1, <2>3 DEF Kept, OutboxFresh
    <2> QED
      BY <2>2, <2>3
  <1> QED
    BY <1>9, <1>10, <1>11 DEF Kept

LEMMA SendFailKept ==
    ASSUME TypeOK, Structure, NEW f \in batch, TickSend(f), SendFail(f),
           Kept(f.client)
    PROVE  Kept(f.client)'
  <1> DEFINE c == f.client
  <1>1. /\ f \in Frame /\ c \in Client /\ f.pane \in Pane
        /\ f.lines \in SUBSET Row
    BY DEF TypeOK, Frame
  <1>2. /\ UNCHANGED <<sess, screen, outbox, sent, reordered>>
        /\ batch' = batch \ {f}
    BY DEF TickSend, SendFail, panes
  <1>3. ASSUME NEW p \in Pane, NEW r \in Row, ~Covers(damage'[c][p], r)
        PROVE  ~Covers(damage[c][p], r)
    <2>1. damage[c][p] \in Damage
      BY <1>1 DEF TypeOK
    <2>2. \/ damage' = damage
          \/ damage' = [damage EXCEPT ![c][f.pane] = Remark(damage[c][f.pane])]
      BY DEF SendFail
    <2>3. damage'[c][p] = damage[c][p] \/ damage'[c][p] = Remark(damage[c][p])
      <3>1. Remark(damage[c][f.pane]) \in Damage
        BY <1>1, DamageTypes DEF TypeOK
      <3>2. [damage EXCEPT ![c][f.pane] = Remark(damage[c][f.pane])][c][p] =
              IF p = f.pane THEN Remark(damage[c][f.pane]) ELSE damage[c][p]
        BY <1>1, <3>1, OneAccumulator DEF TypeOK
      <3> QED
        BY <2>2, <3>2
    <2> QED
      BY <1>3, <2>1, <2>3, CoversFacts
  <1>4. ASSUME NEW p \in Pane, NEW r \in Row, ~Covers(damage'[c][p], r)
        PROVE  /\ InBatch(c, p, r) => (InBatch(c, p, r)' \/ <<p, r>> \in dropped'[c])
               /\ <<p, r>> \in dropped[c] => <<p, r>> \in dropped'[c]
    <2>1. <<p, r>> \in dropped[c] => <<p, r>> \in dropped'[c]
      BY <1>1 DEF SendFail, TypeOK
    <2>2. CASE p # f.pane \/ r \notin f.lines
      BY <1>1, <1>2, <2>1, <2>2, OtherFrame
    <2>3. CASE p = f.pane /\ r \in f.lines /\ f.full
      <3>1. damage'[c][p] = Remark(damage[c][p]) /\ damage[c][p] \in Damage
        BY <1>1, <2>3 DEF SendFail, TypeOK
      <3> QED
        BY <1>4, <3>1, CoversFacts
    <2>4. CASE p = f.pane /\ r \in f.lines /\ ~f.full
      <3>1. <<p, r>> \in dropped'[c]
        BY <1>1, <2>4 DEF SendFail, TypeOK
      <3> QED
        BY <3>1
    <2> QED
      BY <2>1, <2>2, <2>3, <2>4
  <1>5. AccountedFor(c)'
    <2> SUFFICES ASSUME NEW p \in Pane, NEW r \in Row, sess[c] = SessionOf[p],
                        ~Covers(damage'[c][p], r)
                 PROVE  \/ sent[c][p][r] = screen[p][r]
                        \/ InBatch(c, p, r)' \/ InOutbox(c, p, r)
                        \/ <<p, r>> \in dropped'[c] \/ p \in reordered[c]
      BY <1>2 DEF AccountedFor, Covers, InOutbox
    <2> QED
      BY <1>3, <1>4 DEF Kept, AccountedFor
  <1>6. BatchFresh(c)'
    <2> SUFFICES ASSUME NEW g \in batch, g.client = c, ~g.stale, g.session = sess[c],
                        NEW r \in g.lines, ~Covers(damage'[c][g.pane], r)
                 PROVE  g.cells[r] = screen[g.pane][r]
      BY <1>2 DEF BatchFresh, Covers
    <2>1. g.pane \in Pane /\ r \in Row
      BY DEF TypeOK, Frame
    <2> QED
      BY <1>3, <2>1 DEF Kept, BatchFresh
  <1>7. OutboxFresh(c)'
    <2> SUFFICES ASSUME NEW m \in outbox[c], NEW r \in Row, m.kind = "frame",
                        sess[c] = SessionOf[m.pane], ~Covers(damage'[c][m.pane], r)
                 PROVE  \/ m.cells[r] = screen[m.pane][r]
                        \/ InBatch(c, m.pane, r)'
                        \/ <<m.pane, r>> \in dropped'[c]
                        \/ m.pane \in reordered[c]
      BY <1>2 DEF OutboxFresh, Covers
    <2>1. m.pane \in Pane
      BY <1>1, FrameMessage
    <2> QED
      BY <1>3, <1>4, <2>1 DEF Kept, OutboxFresh
  <1> QED
    BY <1>5, <1>6, <1>7 DEF Kept

LEMMA SendSkipKept ==
    ASSUME TypeOK, Structure, NEW f \in batch, TickSend(f), SendSkip(f),
           Kept(f.client)
    PROVE  Kept(f.client)'
  <1> DEFINE c == f.client
  <1>1. c \in Client
    BY DEF TypeOK, Frame
  <1>2. /\ UNCHANGED <<sess, screen, outbox, sent, damage, dropped, reordered>>
        /\ batch' = batch \ {f}
    BY DEF TickSend, SendSkip, panes
  <1>3. \A p \in Pane, r \in Row : InBatch(c, p, r) => InBatch(c, p, r)'
    BY <1>1, <1>2, OtherFrame DEF SendSkip, SameSession
  <1>4. AccountedFor(c)'
    BY <1>1, <1>2, <1>3 DEF Kept, AccountedFor, Covers, InOutbox
  <1>5. BatchFresh(c)'
    BY <1>2 DEF Kept, BatchFresh, Covers
  <1>6. OutboxFresh(c)'
    <2>1. \A m \in outbox[c] : m.kind = "frame" => m.pane \in Pane
      BY <1>1, FrameMessage
    <2> QED
      BY <1>1, <1>2, <1>3, <2>1 DEF Kept, OutboxFresh, Covers
  <1> QED
    BY <1>4, <1>5, <1>6 DEF Kept

LEMMA TickSendKept ==
    ASSUME TypeOK, Structure, NEW f \in batch, TickSend(f), NEW c \in Client, Kept(c)
    PROVE  Kept(c)'
  <1>1. CASE c = f.client
    BY <1>1, SendOkKept, SendFailKept, SendSkipKept DEF TickSend
  <1>2. CASE c # f.client
    <2>1. f.client \in Client
      BY DEF TypeOK, Frame
    <2>2. /\ UNCHANGED <<sess, outbox, screen>> /\ sent'[c] = sent[c]
          /\ dropped'[c] = dropped[c] /\ reordered'[c] = reordered[c]
          /\ damage'[c] = damage[c]
      BY <1>2, <2>1 DEF TickSend, SendOk, SendFail, SendSkip, panes, TypeOK
    <2>3. batch' = batch \ {f}
      BY DEF TickSend
    <2> QED
      BY <1>2, <2>2, <2>3, CarriedOver
  <1> QED
    BY <1>1, <1>2

LEMMA TickEndKept ==
    ASSUME TypeOK, Structure, TickEnd, NEW c \in Client, Kept(c)
    PROVE  Kept(c)'
  <1>1. CASE c \in evict
    <2>1. sess'[c] = NoSession /\ batch' = {}
      BY <1>1 DEF TickEnd, TypeOK
    <2>2. \A p \in Pane : SessionOf[p] # NoSession
      BY ConstantsAssumption
    <2>3. \A m \in outbox'[c] : m.kind = "frame" => m.pane \in Pane
      BY FrameMessage DEF TickEnd
    <2> QED
      BY <2>1, <2>2, <2>3 DEF Kept, AccountedFor, BatchFresh, OutboxFresh
  <1>2. CASE c \notin evict
    <2>1. sess'[c] = sess[c] /\ damage'[c] = damage[c]
      BY <1>2 DEF TickEnd, TypeOK
    <2> QED
      BY <2>1, CarriedOver DEF TickEnd, panes, history
  <1> QED
    BY <1>1, <1>2

\* A resize rewrites the rows of Z and marks them for the clients that see them.
LEMMA ResizedKept ==
    ASSUME TypeOK, Structure, NEW Z \in SUBSET Pane, ResizePanes(Z),
           NEW k \in Client, Kept(k),
           damage'[k] = [p \in Pane |-> Resized(damage[k][p], sess[k], p, Z)],
           sess'[k] = sess[k], outbox'[k] = outbox[k], sent'[k] = sent[k],
           dropped'[k] = dropped[k], reordered'[k] = reordered[k],
           \A f \in batch : f.client = k => f \in batch',
           \A f \in batch' : f.client = k => f \in batch
    PROVE  Kept(k)'
  <1>1. ASSUME NEW p \in Pane, NEW r \in Row, sess[k] = SessionOf[p]
        PROVE  /\ Covers(damage[k][p], r) => Covers(damage'[k][p], r)
               /\ screen'[p][r] = screen[p][r] \/ Covers(damage'[k][p], r)
    <2>1. damage[k][p] \in Damage /\ damage'[k][p] = Resized(damage[k][p], sess[k], p, Z)
      BY DEF TypeOK
    <2>2. CASE p \in Z
      BY <1>1, <2>1, <2>2, CoversFacts DEF Resized
    <2>3. CASE p \notin Z
      BY <2>1, <2>3, ResizeScreen, CoversFacts
    <2> QED
      BY <2>2, <2>3
  <1> QED
    BY <1>1, CarriedOver

\* A client whose responses are a fresh StateSync of its new session.
LEMMA FreshStart ==
    ASSUME TypeOK, screen' \in [Pane -> Cells], NEW c \in Client, NEW s \in Session,
           sess'[c] = s,
           StateSync(s, screen') \subseteq outbox'[c],
           \A m \in outbox'[c] : m.kind = "frame" => m \in StateSync(s, screen'),
           \A f \in batch' : f.client = c => f.stale
    PROVE  Kept(c)'
  <1>1. ASSUME NEW p \in Pane, NEW r \in Row, s = SessionOf[p]
        PROVE  InOutbox(c, p, r)'
    <2>1. FullMsg(p, screen'[p]) \in outbox'[c]
      BY <1>1 DEF StateSync, PanesOf
    <2> QED
      BY <2>1 DEF FullMsg, InOutbox
  <1>2. AccountedFor(c)'
    BY <1>1 DEF AccountedFor
  <1>3. BatchFresh(c)'
    BY DEF BatchFresh
  <1>4. \A m \in StateSync(s, screen') : \A r \in Row :
          m.kind = "frame" => m.cells[r] = screen'[m.pane][r]
    BY DEF StateSync, FullMsg
  <1>5. OutboxFresh(c)'
    BY <1>4 DEF OutboxFresh
  <1> QED
    BY <1>2, <1>3, <1>5 DEF Kept

LEMMA AttachKept ==
    ASSUME TypeOK, Structure, NEW c \in Client, NEW s \in Session,
           NEW Z \in SUBSET Pane, Attach(c, s, Z), NEW k \in Client, Kept(k)
    PROVE  Kept(k)'
  <1>1. CASE k = c
    <2>1. \A f \in batch' : f.client # c
      BY DEF Attach, tick, Structure
    <2>2. sess'[c] = s /\ outbox'[c] = StateSync(s, screen')
      BY DEF Attach, TypeOK
    <2> QED
      BY <1>1, <2>1, <2>2, ResizeType, FreshStart DEF Attach
  <1>2. CASE k # c
    <2>1. /\ sess'[k] = sess[k] /\ outbox'[k] = outbox[k]
          /\ damage'[k] = [p \in Pane |-> Resized(damage[k][p], sess[k], p, Z)]
      BY <1>2 DEF Attach, TypeOK
    <2>2. batch' = batch /\ UNCHANGED history /\ ResizePanes(Z)
      BY DEF Attach, tick
    <2> QED
      BY <2>1, <2>2, ResizedKept DEF history
  <1> QED
    BY <1>1, <1>2

LEMMA SwitchSessionKept ==
    ASSUME TypeOK, Structure, NEW c \in Client, NEW t \in Target,
           NEW Z \in SUBSET Pane, SwitchSession(c, t, Z), NEW k \in Client, Kept(k)
    PROVE  Kept(k)'
  <1>1. t \in Session /\ ResizePanes(Z)
    BY ConstantsAssumption DEF SwitchSession
  <1>2. \A f \in batch : /\ f \in Frame
                         /\ [f EXCEPT !.stale = TRUE].client = f.client
                         /\ [f EXCEPT !.stale = TRUE].stale
    BY MarkedStale DEF TypeOK
  <1>3. batch' = {f \in batch : f.client # c}
                   \cup {[f EXCEPT !.stale = TRUE] : f \in {g \in batch : g.client = c}}
    BY DEF SwitchSession
  <1>4. CASE k = c
    <2>1. \A f \in batch' : f.client = c => f.stale
      BY <1>2, <1>3
    <2>2. /\ sess'[c] = t
          /\ outbox'[c] = {[kind |-> "switched", session |-> t]} \cup StateSync(t, screen')
      BY DEF SwitchSession, TypeOK
    <2>3. \A m \in outbox'[c] : m.kind = "frame" => m \in StateSync(t, screen')
      BY <2>2
    <2> QED
      BY <1>1, <1>4, <2>1, <2>2, <2>3, ResizeType, FreshStart
  <1>5. CASE k # c
    <2>1. /\ \A f \in batch : f.client = k => f \in batch'
          /\ \A f \in batch' : f.client = k => f \in batch
      BY <1>2, <1>3, <1>5
    <2>2. /\ sess'[k] = sess[k] /\ outbox'[k] = outbox[k] /\ sent'[k] = sent[k]
          /\ dropped'[k] = dropped[k] /\ reordered'[k] = reordered[k]
          /\ damage'[k] = [p \in Pane |-> Resized(damage[k][p], sess[k], p, Z)]
      BY <1>5 DEF SwitchSession, TypeOK
    <2> QED
      BY <1>1, <2>1, <2>2, ResizedKept
  <1> QED
    BY <1>4, <1>5

\* A message leaves a handler's responses: it was pushed, or its rows are lost
\* to a full channel.
LEMMA MessageGone ==
    ASSUME TypeOK, Structure, NEW c \in Client, Kept(c), NEW m \in outbox[c],
           outbox'[c] = outbox[c] \ {m},
           UNCHANGED <<sess, screen, damage, batch, reordered>>,
           \/ /\ sent'[c] = IF m.kind = "frame"
                            THEN [sent[c] EXCEPT ![m.pane] = Overlay(@, m.lines, m.cells)]
                            ELSE sent[c]
              /\ dropped'[c] = dropped[c]
           \/ /\ dropped'[c] = dropped[c] \cup
                      (IF m.kind = "frame" THEN {m.pane} \X m.lines ELSE {})
              /\ sent'[c] = sent[c]
    PROVE  Kept(c)'
  <1>1. \A pr \in dropped[c] : pr \in dropped'[c]
    OBVIOUS
  <1>2. \A p \in Pane, r \in Row : InBatch(c, p, r) => InBatch(c, p, r)'
    BY DEF InBatch
  <1>3. AccountedFor(c)'
    <2> SUFFICES ASSUME NEW p \in Pane, NEW r \in Row, sess[c] = SessionOf[p],
                        ~Covers(damage[c][p], r)
                 PROVE  \/ sent'[c][p][r] = screen[p][r]
                        \/ InBatch(c, p, r)' \/ InOutbox(c, p, r)'
                        \/ <<p, r>> \in dropped'[c] \/ p \in reordered[c]
      BY DEF AccountedFor, Covers
    <2>1. CASE m.kind = "frame" /\ m.pane = p
      <3>1. m.lines = Row /\ m.cells \in Cells
        BY <2>1, FrameMessage DEF Structure
      <3>2. \/ m.cells[r] = screen[p][r] \/ InBatch(c, p, r)
            \/ <<p, r>> \in dropped[c] \/ p \in reordered[c]
        BY <2>1 DEF Kept, OutboxFresh
      <3>3. sent'[c][p][r] = m.cells[r] \/ <<p, r>> \in dropped'[c]
        BY <2>1, <3>1 DEF TypeOK, Overlay
      <3> QED
        BY <1>1, <1>2, <3>2, <3>3
    <2>2. CASE ~(m.kind = "frame" /\ m.pane = p)
      <3>1. sent'[c][p] = sent[c][p]
        BY <2>2, FrameMessage DEF TypeOK
      <3>2. InOutbox(c, p, r) => InOutbox(c, p, r)'
        BY <2>2 DEF InOutbox
      <3> QED
        BY <1>1, <1>2, <3>1, <3>2 DEF Kept, AccountedFor
    <2> QED
      BY <2>1, <2>2
  <1>4. BatchFresh(c)'
    BY DEF Kept, BatchFresh, Covers
  <1>5. OutboxFresh(c)'
    <2>1. \A n \in outbox[c] : n.kind = "frame" => n.pane \in Pane
      BY FrameMessage
    <2> QED
      BY <1>1, <1>2, <2>1 DEF Kept, OutboxFresh, Covers
  <1> QED
    BY <1>3, <1>4, <1>5 DEF Kept

LEMMA PushedKept ==
    ASSUME TypeOK, Structure, NEW c \in Client, NEW m \in outbox[c], Pushed(c, m),
           outbox' = [outbox EXCEPT ![c] = @ \ {m}],
           UNCHANGED <<sess, screen, damage, batch>>, NEW k \in Client, Kept(k)
    PROVE  Kept(k)'
  <1>1. CASE k = c
    <2>1. outbox'[c] = outbox[c] \ {m}
      BY DEF TypeOK
    <2>2. sent'[c] = IF m.kind = "frame"
                     THEN [sent[c] EXCEPT ![m.pane] = Overlay(@, m.lines, m.cells)]
                     ELSE sent[c]
      BY DEF Pushed, TypeOK
    <2>3. UNCHANGED <<dropped, reordered>>
      BY DEF Pushed
    <2> QED
      BY <1>1, <2>1, <2>2, <2>3, MessageGone
  <1>2. CASE k # c
    <2>1. /\ outbox'[k] = outbox[k] /\ sent'[k] = sent[k]
          /\ UNCHANGED <<dropped, reordered>>
      BY <1>2 DEF Pushed, TypeOK
    <2> QED
      BY <2>1, CarriedOver
  <1> QED
    BY <1>1, <1>2

LEMMA DispatchKept ==
    ASSUME TypeOK, Structure, NEW c \in Client, NEW m \in outbox[c], Dispatch(c, m),
           NEW k \in Client, Kept(k)
    PROVE  Kept(k)'
  <1>1. /\ outbox' = [outbox EXCEPT ![c] = @ \ {m}]
        /\ UNCHANGED <<sess, screen, damage, batch>>
    BY DEF Dispatch, panes, tick
  <1>2. CASE Pushed(c, m)
    BY <1>1, <1>2, PushedKept
  <1>3. CASE /\ dropped' = [dropped EXCEPT ![c] = @ \cup
                   (IF m.kind = "frame" THEN {m.pane} \X m.lines ELSE {})]
             /\ UNCHANGED <<queue, sent, reordered>>
    <2>1. CASE k = c
      <3>1. outbox'[c] = outbox[c] \ {m}
        BY <1>1 DEF TypeOK
      <3>2. dropped'[c] = dropped[c] \cup
                   (IF m.kind = "frame" THEN {m.pane} \X m.lines ELSE {})
        BY <1>3 DEF TypeOK
      <3> QED
        BY <1>1, <1>3, <2>1, <3>1, <3>2, MessageGone
    <2>2. CASE k # c
      <3>1. outbox'[k] = outbox[k] /\ dropped'[k] = dropped[k]
        BY <1>1, <1>3, <2>2 DEF TypeOK
      <3> QED
        BY <1>1, <1>3, <3>1, CarriedOver
    <2> QED
      BY <2>1, <2>2
  <1> QED
    BY <1>2, <1>3 DEF Dispatch

LEMMA ResizeKept ==
    ASSUME TypeOK, Structure, NEW c \in Client, NEW Z \in SUBSET Pane, Resize(c, Z),
           NEW k \in Client, Kept(k)
    PROVE  Kept(k)'
  <1>1. damage'[k] = [p \in Pane |-> Resized(damage[k][p], sess[k], p, Z)]
    BY DEF Resize
  <1> QED
    BY <1>1, ResizedKept DEF Resize, tick, history

LEMMA InputKept ==
    ASSUME TypeOK, Structure, NEW c \in Client, NEW p \in Pane, Input(c, p),
           NEW k \in Client, Kept(k)
    PROVE  Kept(k)'
  <1>1. ASSUME NEW q \in Pane, NEW r \in Row
        PROVE  Covers(damage[k][q], r) => Covers(damage'[k][q], r)
    <2>1. damage[k][q] \in Damage /\ MarkCursor(damage[c][p]) \in Damage
      BY DamageTypes DEF TypeOK
    <2>2. \/ damage' = damage
          \/ damage' = [damage EXCEPT ![c][p] = MarkCursor(damage[c][p])]
      BY DEF Input
    <2>3. damage'[k][q] = damage[k][q] \/ damage'[k][q] = MarkCursor(damage[k][q])
      <3>1. CASE k = c
        <4>1. [damage EXCEPT ![c][p] = MarkCursor(damage[c][p])][c][q] =
                IF q = p THEN MarkCursor(damage[c][p]) ELSE damage[c][q]
          BY <2>1, OneAccumulator DEF TypeOK
        <4> QED
          BY <2>2, <3>1, <4>1
      <3>2. CASE k # c
        BY <2>2, <3>2 DEF TypeOK
      <3> QED
        BY <3>1, <3>2
    <2> QED
      BY <2>1, <2>3, CoversFacts
  <1> QED
    BY <1>1, CarriedOver DEF Input, panes, history

LEMMA LeaveKept ==
    ASSUME TypeOK, Structure, NEW c \in Client, Leave(c), NEW k \in Client, Kept(k)
    PROVE  Kept(k)'
  <1>1. CASE k = c
    <2>1. sess'[c] = NoSession
      BY DEF Leave, TypeOK
    <2>2. \A p \in Pane : SessionOf[p] # NoSession
      BY ConstantsAssumption
    <2>3. /\ \A m \in outbox'[c] : m.kind = "frame" => m.pane \in Pane
          /\ \A f \in batch' : f.client # c
      BY FrameMessage DEF Leave
    <2> QED
      BY <1>1, <2>1, <2>2, <2>3 DEF Kept, AccountedFor, BatchFresh, OutboxFresh
  <1>2. CASE k # c
    <2>1. /\ sess'[k] = sess[k] /\ sent'[k] = sent[k] /\ dropped'[k] = dropped[k]
          /\ reordered'[k] = reordered[k] /\ damage'[k] = damage[k]
          /\ UNCHANGED <<outbox, screen>>
      BY <1>2 DEF Leave, TypeOK, panes
    <2>2. batch' = {f \in batch : f.client # c}
      BY DEF Leave
    <2> QED
      BY <1>2, <2>1, <2>2, CarriedOver
  <1> QED
    BY <1>1, <1>2

LEMMA NextKept ==
    ASSUME TypeOK, Structure, [Next]_vars, NEW k \in Client, Kept(k)
    PROVE  Kept(k)'
  <1>1. ASSUME NEW c \in Client, Handler(c)
        PROVE  Kept(k)'
    <2>1. ASSUME NEW s \in Session, NEW Z \in SUBSET Pane, Attach(c, s, Z)
          PROVE  Kept(k)'
      BY <2>1, AttachKept
    <2>2. ASSUME NEW m \in outbox[c], SendInitial(c, m)
          PROVE  Kept(k)'
      BY <2>2, PushedKept DEF SendInitial, panes, tick
    <2>3. ASSUME NEW t \in Target, NEW Z \in SUBSET Pane, SwitchSession(c, t, Z)
          PROVE  Kept(k)'
      BY <2>3, SwitchSessionKept
    <2>4. ASSUME NEW m \in outbox[c], Dispatch(c, m)
          PROVE  Kept(k)'
      BY <2>4, DispatchKept
    <2>5. CASE Receive(c)
      BY <2>5, CarriedOver DEF Receive, panes, tick, history
    <2> QED
      BY <1>1, <2>1, <2>2, <2>3, <2>4, <2>5, ResizeKept, InputKept, LeaveKept
         DEF Handler
  <1>2. CASE Tick
    BY <1>2, TickDrainKept, TickCollectKept, TickSendKept, TickEndKept DEF Tick
  <1>3. ASSUME NEW p \in Pane, NEW R \in SUBSET Row, NEW m \in BOOLEAN,
               PtyOutput(p, R, m)
        PROVE  Kept(k)'
    BY <1>3, CarriedOver DEF PtyOutput, table, history
  <1>4. CASE FrameDeadline
    BY <1>4, CarriedOver DEF FrameDeadline, panes, table, history
  <1>5. CASE UNCHANGED vars
    BY <1>5, CarriedOver DEF vars, panes, tick, table, history
  <1> QED
    BY <1>1, <1>2, <1>3, <1>4, <1>5 DEF Next

LEMMA NextStructure ==
    ASSUME TypeOK, Structure, [Next]_vars
    PROVE  Structure'
  <1>1. ASSUME NEW c \in Client, Handler(c)
        PROVE  Structure'
    <2>1. ASSUME NEW s \in Session, NEW Z \in SUBSET Pane, Attach(c, s, Z)
          PROVE  Structure'
      <3>1. \A m \in StateSync(s, screen') : m.kind = "frame" => m.lines = Row
        BY DEF StateSync, FullMsg
      <3>2. \A k \in Client : outbox'[k] = outbox[k] \/ outbox'[k] = StateSync(s, screen')
        BY <2>1 DEF Attach, TypeOK
      <3>3. \A k \in Client : \/ k # c /\ sess'[k] = sess[k] /\ conn'[k] = conn[k]
                              \/ k = c /\ conn'[k] = "joining"
        <4>1. /\ conn' = [conn EXCEPT ![c] = "joining"]
              /\ sess' = [sess EXCEPT ![c] = s]
          BY <2>1 DEF Attach
        <4>2. conn \in [Client -> {"off", "joining", "on"}]
              /\ sess \in [Client -> Session \cup {NoSession}]
          BY DEF TypeOK
        <4> QED
          BY <4>1, <4>2
      <3>4. \A f \in batch : f.client \in Client
        BY DEF TypeOK, Frame
      <3> QED
        BY <2>1, <3>1, <3>2, <3>3, <3>4 DEF Attach, tick, Structure
    <2>2. ASSUME NEW m \in outbox[c], SendInitial(c, m)
          PROVE  Structure'
      <3>1. \A k \in Client : outbox'[k] \subseteq outbox[k]
        BY <2>2 DEF SendInitial, TypeOK
      <3>2. \A k \in Client : conn'[k] = conn[k] \/ conn'[k] # "off"
        BY <2>2 DEF SendInitial, TypeOK
      <3>3. \A f \in batch : f.client \in Client
        BY DEF TypeOK, Frame
      <3> QED
        BY <2>2, <3>1, <3>2, <3>3 DEF SendInitial, tick, Structure
    <2>3. ASSUME NEW t \in Target, NEW Z \in SUBSET Pane, SwitchSession(c, t, Z)
          PROVE  Structure'
      <3>1. \A m \in StateSync(t, screen') : m.kind = "frame" => m.lines = Row
        BY DEF StateSync, FullMsg
      <3>2. \A k \in Client : \/ outbox'[k] = outbox[k]
                              \/ outbox'[k] = {[kind |-> "switched", session |-> t]}
                                                \cup StateSync(t, screen')
        BY <2>3 DEF SwitchSession, TypeOK
      <3>3. \A k \in Client : sess'[k] = sess[k] \/ conn[k] # "off"
        BY <2>3 DEF SwitchSession, TypeOK
      <3>4. \A f \in batch' : \E g \in batch :
              /\ f.client = g.client /\ f.session = g.session /\ f.pane = g.pane
              /\ f.lines = g.lines /\ f.full = g.full
        <4>1. \A g \in batch : LET f == [g EXCEPT !.stale = TRUE] IN
                /\ f.client = g.client /\ f.session = g.session /\ f.pane = g.pane
                /\ f.lines = g.lines /\ f.full = g.full
          BY MarkedStale DEF TypeOK
        <4>2. batch' = {f \in batch : f.client # c}
                \cup {[f EXCEPT !.stale = TRUE] : f \in {g \in batch : g.client = c}}
          BY <2>3 DEF SwitchSession
        <4>3. TAKE f \in batch'
        <4>4. CASE f \in batch
          BY <4>4
        <4>5. ASSUME NEW g \in batch, f = [g EXCEPT !.stale = TRUE]
              PROVE  /\ f.client = g.client /\ f.session = g.session /\ f.pane = g.pane
                     /\ f.lines = g.lines /\ f.full = g.full
          BY <4>1, <4>5
        <4> QED
          BY <4>2, <4>4, <4>5
      <3>5. batch = {} => batch' = {}
        BY <2>3 DEF SwitchSession
      <3>6. UNCHANGED <<pc, conn>>
        BY <2>3 DEF SwitchSession
      <3> QED
        BY <3>1, <3>2, <3>3, <3>4, <3>5, <3>6 DEF Structure
    <2>4. ASSUME NEW m \in outbox[c], Dispatch(c, m)
          PROVE  Structure'
      <3>1. \A k \in Client : outbox'[k] \subseteq outbox[k]
        BY <2>4 DEF Dispatch, TypeOK
      <3> QED
        BY <2>4, <3>1 DEF Dispatch, tick, Structure
    <2>5. CASE \E Z \in SUBSET Pane : Resize(c, Z)
      BY <2>5 DEF Resize, tick, Structure
    <2>6. CASE \E p \in Pane : Input(c, p)
      BY <2>6 DEF Input, Structure
    <2>7. CASE Leave(c)
      <3>1. \A k \in Client : \/ k # c /\ sess'[k] = sess[k] /\ conn'[k] = conn[k]
                              \/ k = c /\ sess'[k] = NoSession
        <4>1. /\ conn' = [conn EXCEPT ![c] = "off"]
              /\ sess' = [sess EXCEPT ![c] = NoSession]
          BY <2>7 DEF Leave
        <4>2. conn \in [Client -> {"off", "joining", "on"}]
              /\ sess \in [Client -> Session \cup {NoSession}]
          BY DEF TypeOK
        <4> QED
          BY <4>1, <4>2
      <3>2. \A f \in batch : f.client \in Client
        BY DEF TypeOK, Frame
      <3> QED
        BY <2>7, <3>1, <3>2 DEF Leave, Structure
    <2>8. CASE Receive(c)
      BY <2>8 DEF Receive, tick, Structure
    <2> QED
      BY <1>1, <2>1, <2>2, <2>3, <2>4, <2>5, <2>6, <2>7, <2>8 DEF Handler
  <1>2. CASE TickDrain
    BY <1>2 DEF TickDrain, Structure
  <1>3. CASE TickCollect
    <2>1. PICK G \in SUBSET Pane : \E H \in SUBSET Ready(G) : Collect(G, H)
      BY <1>3 DEF TickCollect
    <2>2. ASSUME NEW cp \in Ready(G)
          PROVE  LET f == Snapshot(cp[1], cp[2], Drained(cp[1], cp[2], G)) IN
                 /\ conn[f.client] # "off" /\ f.session = SessionOf[f.pane]
                 /\ f.full => f.lines = Row
      <3>1. /\ cp[1] \in Client /\ cp[2] \in Pane
            /\ sess[cp[1]] = SessionOf[cp[2]]
        BY DEF Ready, Sendable
      <3>2. conn[cp[1]] # "off"
        BY <3>1, ConstantsAssumption DEF Structure
      <3> QED
        BY <3>1, <3>2 DEF Snapshot
    <2>3. batch' = {Snapshot(cp[1], cp[2], Drained(cp[1], cp[2], G)) : cp \in Ready(G)}
      BY <2>1 DEF Collect
    <2> QED
      BY <1>3, <2>2, <2>3 DEF TickCollect, Structure
  <1>4. ASSUME NEW f \in batch, TickSend(f)
        PROVE  Structure'
    BY <1>4 DEF TickSend, Structure
  <1>5. CASE TickEnd
    <2>1. \A k \in Client : sess'[k] = sess[k] \/ sess'[k] = NoSession
      BY <1>5 DEF TickEnd
    <2> QED
      BY <1>5, <2>1 DEF TickEnd, Structure
  <1>6. ASSUME NEW p \in Pane, NEW R \in SUBSET Row, NEW m \in BOOLEAN,
               PtyOutput(p, R, m)
        PROVE  Structure'
    BY <1>6 DEF PtyOutput, table, Structure
  <1>7. CASE FrameDeadline
    BY <1>7 DEF FrameDeadline, table, Structure
  <1>8. CASE UNCHANGED vars
    BY <1>8 DEF vars, tick, table, Structure
  <1> QED
    BY <1>1, <1>2, <1>3, <1>4, <1>5, <1>6, <1>7, <1>8 DEF Next, Tick

LEMMA InitIInv == Init => IInv
  <1> SUFFICES ASSUME Init PROVE IInv
    OBVIOUS
  <1>1. Structure
    BY DEF Init, Structure
  <1>2. ASSUME NEW c \in Client
        PROVE  AccountedFor(c) /\ BatchFresh(c) /\ OutboxFresh(c)
    <2>1. \A p \in Pane : sess[c] # SessionOf[p]
      BY ConstantsAssumption DEF Init
    <2> QED
      BY <2>1 DEF Init, AccountedFor, BatchFresh, OutboxFresh
  <1> QED
    BY <1>1, <1>2, InitType DEF IInv

\* The inductive invariant holds: snapshots and responses still to be pushed
\* are up to date or marked again, frames come from clients in the table.
THEOREM Inductive == Spec => []IInv
  <1>1. ASSUME IInv, [Next]_vars
        PROVE  IInv'
    BY <1>1, NextType, NextStructure, NextKept DEF IInv, Kept
  <1> QED
    BY <1>1, InitIInv, PTL DEF Spec

\* For every number of clients, panes, rows and every channel capacity, a row
\* whose last pushed content is out of date is marked, snapshot or about to be
\* pushed, outside the two exceptions the code has.
THEOREM Accounting == Spec => []Accounted
  <1>1. IInv => Accounted
    BY DEF IInv, Accounted
  <1> QED
    BY <1>1, Inductive, PTL
-----------------------------------------------------------------------------
(* No frame of another session enters a channel.                           *)

\* What a client that is on still has to be sent belongs to a handler that holds the
\* lock, so the client's session cannot change before it is pushed.
Addressed ==
    \A c \in Client : conn[c] = "on" /\ outbox[c] # {} =>
        /\ holder = c
        /\ \A m \in outbox[c] : m.kind = "frame" => SessionOf[m.pane] = sess[c]

\* Steps that take nothing but the lock's waiters away from it.
LEMMA AddressedQuiet ==
    ASSUME Addressed, UNCHANGED <<conn, sess, holder, outbox>>
    PROVE  Addressed'
  BY DEF Addressed

\* Nobody holds the lock: then no client that is on has messages to come.
LEMMA NobodyAddressed ==
    ASSUME Addressed, holder = None, NEW c \in Client, conn[c] = "on"
    PROVE  outbox[c] = {}
  BY ConstantsAssumption DEF Addressed, None

LEMMA NextAddressed ==
    ASSUME TypeOK, Addressed, [Next]_vars
    PROVE  Addressed'
  <1>1. ASSUME NEW c \in Client, Handler(c)
        PROVE  Addressed'
    <2>1. ASSUME NEW s \in Session, NEW Z \in SUBSET Pane, Attach(c, s, Z)
          PROVE  Addressed'
      <3>1. /\ conn' = [conn EXCEPT ![c] = "joining"] /\ UNCHANGED holder
            /\ \A k \in Client \ {c} : sess'[k] = sess[k] /\ outbox'[k] = outbox[k]
        BY <2>1 DEF Attach, TypeOK
      <3> QED
        BY <3>1 DEF Addressed, TypeOK
    <2>2. ASSUME NEW m \in outbox[c], SendInitial(c, m)
          PROVE  Addressed'
      <3>1. /\ conn[c] = "joining" /\ UNCHANGED <<holder, sess>>
            /\ outbox' = [outbox EXCEPT ![c] = @ \ {m}]
            /\ conn' = [conn EXCEPT ![c] = IF outbox[c] = {m} THEN "on" ELSE @]
        BY <2>2 DEF SendInitial
      <3> QED
        BY <3>1 DEF Addressed, TypeOK
    <2>3. ASSUME NEW t \in Target, NEW Z \in SUBSET Pane, SwitchSession(c, t, Z)
          PROVE  Addressed'
      <3>1. /\ holder = None /\ holder' = c /\ UNCHANGED conn
            /\ sess' = [sess EXCEPT ![c] = t]
            /\ outbox' = [outbox EXCEPT ![c] =
                             {[kind |-> "switched", session |-> t]} \cup StateSync(t, screen')]
        BY <2>3 DEF SwitchSession, LockFree
      <3>2. \A m \in {[kind |-> "switched", session |-> t]} \cup StateSync(t, screen') :
              m.kind = "frame" => SessionOf[m.pane] = t
        BY DEF StateSync, FullMsg, PanesOf
      <3>3. \A k \in Client \ {c} : conn[k] = "on" => outbox'[k] = {}
        BY <3>1, NobodyAddressed DEF TypeOK
      <3>4. sess'[c] = t /\ outbox'[c] = {[kind |-> "switched", session |-> t]}
                                            \cup StateSync(t, screen')
        BY <3>1 DEF TypeOK
      <3> QED
        BY <3>1, <3>2, <3>3, <3>4 DEF Addressed
    <2>4. ASSUME NEW m \in outbox[c], Dispatch(c, m)
          PROVE  Addressed'
      <3>1. /\ holder = c /\ UNCHANGED <<conn, sess>>
            /\ outbox' = [outbox EXCEPT ![c] = @ \ {m}]
            /\ holder' = IF outbox[c] = {m} THEN None ELSE c
        BY <2>4 DEF Dispatch
      <3> QED
        BY <3>1 DEF Addressed, TypeOK
    <2>5. CASE \E Z \in SUBSET Pane : Resize(c, Z)
      BY <2>5, AddressedQuiet DEF Resize
    <2>6. CASE \E p \in Pane : Input(c, p)
      BY <2>6, AddressedQuiet DEF Input
    <2>7. CASE Leave(c)
      <3>1. /\ conn' = [conn EXCEPT ![c] = "off"] /\ UNCHANGED <<holder, outbox>>
            /\ \A k \in Client \ {c} : sess'[k] = sess[k]
        BY <2>7 DEF Leave, TypeOK
      <3> QED
        BY <3>1 DEF Addressed, TypeOK
    <2>8. CASE Receive(c)
      BY <2>8, AddressedQuiet DEF Receive
    <2> QED
      BY <1>1, <2>1, <2>2, <2>3, <2>4, <2>5, <2>6, <2>7, <2>8 DEF Handler
  <1>2. CASE TickDrain \/ TickCollect \/ \E f \in batch : TickSend(f)
    BY <1>2, AddressedQuiet DEF TickDrain, TickCollect, TickSend
  <1>3. CASE TickEnd
    BY <1>3, NobodyAddressed DEF TickEnd, Addressed
  <1>4. CASE UNCHANGED vars \/ FrameDeadline
             \/ \E p \in Pane, R \in SUBSET Row, m \in BOOLEAN : PtyOutput(p, R, m)
    BY <1>4, AddressedQuiet DEF vars, table, FrameDeadline, PtyOutput
  <1> QED
    BY <1>1, <1>2, <1>3, <1>4 DEF Next, Tick

\* The step that makes the channel of a client longer pushes a frame of its session.
LEMMA PushedFrame ==
    ASSUME TypeOK, Structure, Addressed, [Next]_vars,
           NEW k \in Client, conn[k] = "on", Len(queue'[k]) > Len(queue[k]),
           queue'[k][Len(queue'[k])].kind = "frame"
    PROVE  SessionOf[queue'[k][Len(queue'[k])].pane] = sess[k]
  <1>0. queue \in [Client -> Seq(Message)] /\ queue[k] \in Seq(Message)
    BY DEF TypeOK
  <1>. DEFINE Goal == SessionOf[queue'[k][Len(queue'[k])].pane] = sess[k]
  <1>1. queue' # queue
    BY <1>0
  <1>2. ASSUME NEW c \in Client, NEW m, queue' = [queue EXCEPT ![c] = Append(@, m)]
        PROVE  c = k /\ queue'[k][Len(queue'[k])] = m
    <2>1. c = k
      BY <1>0, <1>2
    <2>2. queue'[k] = Append(queue[k], m)
      BY <1>0, <1>2, <2>1
    <2> QED
      BY <1>0, <2>1, <2>2
  <1>3. ASSUME NEW f \in batch, TickSend(f) PROVE Goal
    <2>. DEFINE msg == [kind |-> "frame", pane |-> f.pane, lines |-> f.lines,
                        cells |-> f.cells]
    <2>1. SendOk(f)
      BY <1>1, <1>3 DEF TickSend, SendFail, SendSkip
    <2>2. f.client \in Client /\ queue' = [queue EXCEPT ![f.client] = Append(@, msg)]
      BY <2>1 DEF SendOk, TypeOK, Frame
    <2>3. f.client = k /\ queue'[k][Len(queue'[k])] = msg
      BY <2>2, <1>2
    <2>4. f.session = sess[k] /\ f.session = SessionOf[f.pane]
      BY <2>1, <2>3 DEF SendOk, SameSession, Structure
    <2> QED
      BY <2>3, <2>4
  <1>4. ASSUME NEW c \in Client, NEW m \in outbox[c], Dispatch(c, m) PROVE Goal
    <2>1. queue' = [queue EXCEPT ![c] = Append(@, m)]
      BY <1>1, <1>4 DEF Dispatch, Pushed
    <2>2. c = k /\ queue'[k][Len(queue'[k])] = m
      BY <2>1, <1>2
    <2> QED
      BY <2>2 DEF Addressed
  <1>5. ASSUME NEW c \in Client, NEW m \in outbox[c], SendInitial(c, m) PROVE Goal
    <2>1. queue' = [queue EXCEPT ![c] = Append(@, m)] /\ conn[c] = "joining"
      BY <1>5 DEF SendInitial, Pushed
    <2> QED
      BY <2>1, <1>2
  <1>6. ASSUME NEW c \in Client, Leave(c) \/ Receive(c) PROVE Goal
    <2>1. CASE Leave(c)
      <3>1. queue'[k] = queue[k] \/ queue'[k] = <<>>
        BY <1>0, <2>1 DEF Leave
      <3> QED
        BY <1>0, <3>1
    <2>2. CASE Receive(c)
      <3>1. queue'[k] = queue[k] \/ (queue[k] # <<>> /\ queue'[k] = Tail(queue[k]))
        BY <1>0, <2>2 DEF Receive
      <3> QED
        BY <1>0, <3>1
    <2> QED
      BY <1>6, <2>1, <2>2
  <1>7. ASSUME \/ UNCHANGED vars \/ FrameDeadline \/ TickDrain \/ TickCollect \/ TickEnd
               \/ \E p \in Pane, R \in SUBSET Row, m \in BOOLEAN : PtyOutput(p, R, m)
        PROVE  Goal
    BY <1>1, <1>7 DEF vars, table, FrameDeadline, TickDrain, TickCollect, TickEnd, PtyOutput
  <1>8. ASSUME NEW c \in Client,
               \/ \E s \in Session, Z \in SUBSET Pane : Attach(c, s, Z)
               \/ \E t \in Target, Z \in SUBSET Pane : SwitchSession(c, t, Z)
               \/ \E Z \in SUBSET Pane : Resize(c, Z)
               \/ \E p \in Pane : Input(c, p)
        PROVE  Goal
    <2>1. ASSUME NEW s \in Session, NEW Z \in SUBSET Pane, Attach(c, s, Z) PROVE UNCHANGED queue
      BY <2>1 DEF Attach
    <2>2. ASSUME NEW t \in Target, NEW Z \in SUBSET Pane, SwitchSession(c, t, Z)
          PROVE  UNCHANGED queue
      BY <2>2 DEF SwitchSession
    <2>3. ASSUME NEW Z \in SUBSET Pane, Resize(c, Z) PROVE UNCHANGED queue
      BY <2>3 DEF Resize
    <2>4. ASSUME NEW p \in Pane, Input(c, p) PROVE UNCHANGED queue
      BY <2>4 DEF Input
    <2> QED
      BY <1>1, <1>8, <2>1, <2>2, <2>3, <2>4
  <1>. HIDE DEF Goal
  <1>9. ASSUME NEW c \in Client, Handler(c) PROVE Goal
    <2>1. CASE \E m \in outbox[c] : Dispatch(c, m)
      BY <1>4, <2>1
    <2>2. CASE \E m \in outbox[c] : SendInitial(c, m)
      BY <1>5, <2>2
    <2>3. CASE Leave(c) \/ Receive(c)
      BY <1>6, <2>3
    <2>4. CASE \/ \E s \in Session, Z \in SUBSET Pane : Attach(c, s, Z)
               \/ \E t \in Target, Z \in SUBSET Pane : SwitchSession(c, t, Z)
               \/ \E Z \in SUBSET Pane : Resize(c, Z)
               \/ \E p \in Pane : Input(c, p)
      BY <1>8, <2>4
    <2> QED
      BY <1>9, <2>1, <2>2, <2>3, <2>4 DEF Handler
  <1>10. Goal
    BY <1>3, <1>7, <1>9 DEF Next, Tick
  <1> QED
    BY <1>10 DEF Goal

\* Whoever switches whatever client between the snapshot of a frame and its push: a
\* frame of another session never enters the channel of a client that is on.
THEOREM Affinity == Spec => PushedToCurrentSession
  <1>1. Init => Addressed
    BY DEF Init, Addressed
  <1>2. IInv /\ Addressed /\ [Next]_vars => Addressed'
    BY NextAddressed DEF IInv
  <1>3. IInv /\ Addressed /\ [Next]_vars =>
          [\A c \in Client :
             (conn[c] = "on" /\ Len(queue'[c]) > Len(queue[c])) =>
                LET m == queue'[c][Len(queue'[c])] IN
                m.kind = "frame" => SessionOf[m.pane] = sess[c]]_vars
    BY PushedFrame DEF IInv
  <1> QED
    BY <1>1, <1>2, <1>3, Inductive, PTL DEF Spec, PushedToCurrentSession
=============================================================================
