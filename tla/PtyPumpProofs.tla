--------------------------- MODULE PtyPumpProofs ---------------------------
(***************************************************************************)
(* PtyPump for any number of panes and any capacities: types and bounds,   *)
(* no lost wake-up, and the safety part of the refinement of PtyStream.    *)
(***************************************************************************)
EXTENDS PtyPump, TLAPS

Busy == pc \in {"pick", "drain", "reply"}

\* What the wake-ups rest on: a pass of the tick loop holds the lock and works
\* on open panes, a reader has a chunk in hand when it sends, and an end of
\* file or an exit means that the program is gone.
Sound ==
    /\ Busy <=> lock = "tick"
    /\ lock = "input" => job \in Pane
    /\ cur # NoPane <=> pc \in {"drain", "reply"}
    /\ ~Busy => todo = {} /\ exited = {}
    /\ todo \subseteq Open /\ exited \subseteq Open
    /\ cur # NoPane => cur \in Open
    /\ \A p \in Pane : rpc[p] = "send" => sent[p] < got[p]
    /\ \A p \in Open : rpc[p] \in {"eof", "eofnotify"} \/ done[p] => prog[p] # "running"
    /\ \A p \in exited : prog[p] # "running"

PumpInv == TypeOK /\ Sound /\ NoLostWakeup

\* The groups of variables are opened everywhere; they only abbreviate UNCHANGED.
USE PumpAssumption DEF PumpAssumption, program, reader, tick, server

\* The first state satisfies the inductive invariant.
LEMMA InitPump == Init => PumpInv
<1>. SUFFICES ASSUME Init PROVE PumpInv
  OBVIOUS
<1>1. TypeOK
  <2>1. ASSUME NEW p \in Pane PROVE Order(p) /\ sent[p] - taken[p] <= ChanCap
    <3>1. /\ written[p] = 0 /\ got[p] = 0 /\ sent[p] = 0
          /\ taken[p] = 0 /\ parsed[p] = 0
      BY DEF Init
    <3>. QED
      BY <3>1 DEF Order
  <2>2. 0 \in 0..InCap /\ 0 \in 0..MaxReply
    OBVIOUS
  <2>3. /\ inq \in [Pane -> 0..InCap]
        /\ done \in [Pane -> BOOLEAN] /\ code \in [Pane -> BOOLEAN]
    BY <2>2 DEF Init
  <2>. QED
    BY <2>1, <2>2, <2>3 DEF Init, TypeOK
<1>2. Sound
  BY DEF Init, Sound, Busy, Open
<1>3. ASSUME NEW p \in Pane PROVE ~(taken[p] < sent[p]) /\ ~done[p]
  <2>1. taken[p] = 0 /\ sent[p] = 0 /\ done[p] = FALSE
    BY DEF Init
  <2>. QED
    BY <2>1
<1>4. NoLostWakeup
  BY <1>3 DEF NoLostWakeup, OutputAwake, EofAwake
<1>. QED
  BY <1>1, <1>2, <1>4 DEF PumpInv

\* A step keeps every variable in its range: the channel within ChanCap, the
\* stages of the stream in order.
LEMMA TypeStep == TypeOK /\ Sound /\ [Next]_vars => TypeOK'
<1>. SUFFICES ASSUME TypeOK, Sound, [Next]_vars PROVE TypeOK'
  OBVIOUS
<1>. USE DEF TypeOK, Order, Sound, Busy, Open
<1>1. ASSUME NEW p \in Pane, ProgWrite(p) PROVE TypeOK'
  BY <1>1 DEF ProgWrite
<1>2. ASSUME NEW p \in Pane, ProgRead(p) PROVE TypeOK'
  BY <1>2 DEF ProgRead
<1>3. ASSUME NEW p \in Pane, HangUp(p) PROVE TypeOK'
  BY <1>3 DEF HangUp
<1>4. ASSUME NEW p \in Pane, Die(p) PROVE TypeOK'
  BY <1>4 DEF Die
<1>5. ASSUME NEW p \in Pane, Read(p) PROVE TypeOK'
  BY <1>5 DEF Read
<1>6. ASSUME NEW p \in Pane, ReadEof(p) PROVE TypeOK'
  BY <1>6 DEF ReadEof
<1>7. ASSUME NEW p \in Pane, Send(p) PROVE TypeOK'
  BY <1>7 DEF Send, ChannelFull
<1>8. ASSUME NEW p \in Pane, SendErr(p) PROVE TypeOK'
  BY <1>8 DEF SendErr
<1>9. ASSUME NEW p \in Pane, Notify(p) PROVE TypeOK'
  BY <1>9 DEF Notify
<1>10. ASSUME NEW p \in Pane, StoreDone(p) PROVE TypeOK'
  BY <1>10 DEF StoreDone
<1>11. ASSUME NEW p \in Pane, NotifyEof(p) PROVE TypeOK'
  BY <1>11 DEF NotifyEof
<1>12. ASSUME NEW p \in Pane, InputLock(p) PROVE TypeOK'
  BY <1>12 DEF InputLock
<1>13. ASSUME NEW p \in Pane, ClosePane(p) PROVE TypeOK'
  BY <1>13 DEF ClosePane
<1>14. ASSUME NEW p \in Pane, TickPick(p) PROVE TypeOK'
  BY <1>14 DEF TickPick
<1>15. ASSUME NEW p \in Pane, TickTake(p) PROVE TypeOK'
  BY <1>15 DEF TickTake
<1>16. ASSUME NEW p \in Pane, TickParse(p) PROVE TypeOK'
  BY <1>16 DEF TickParse
<1>17. ASSUME NEW p \in Pane, TickReply(p) PROVE TypeOK'
  BY <1>17 DEF TickReply, Accepts, Written
<1>18. ASSUME NEW p \in Pane, TickCheck(p) PROVE TypeOK'
  BY <1>18 DEF TickCheck, ExitSeen, Reapable
<1>19. CASE TickLock
  BY <1>19 DEF TickLock
<1>20. CASE TickWake
  BY <1>20 DEF TickWake
<1>21. CASE TickClean
  BY <1>21 DEF TickClean, Reapable
<1>22. CASE TickEnd
  BY <1>22 DEF TickEnd, PermitKept
<1>23. CASE InputWrite
  <2>1. job \in Pane
    BY <1>23 DEF InputWrite
  <2>2. inq' \in [Pane -> 0..InCap]
    BY <1>23, <2>1 DEF InputWrite, Accepts, Written
  <2>3. permit' \in BOOLEAN
    BY <1>23, Zenon DEF InputWrite
  <2>. QED
    BY <1>23, <2>2, <2>3 DEF InputWrite
<1>24. CASE UNCHANGED vars
  BY <1>24 DEF vars
<1>. QED
  BY <1>1, <1>2, <1>3, <1>4, <1>5, <1>6, <1>7, <1>8, <1>9, <1>10, <1>11,
     <1>12, <1>13, <1>14, <1>15, <1>16, <1>17, <1>18, <1>19, <1>20, <1>21,
     <1>22, <1>23, <1>24
     DEF Next, Program, Reader, TickPass, TickOn

\* A step keeps the facts about the pass of the tick loop and the readers.
LEMMA SoundStep == TypeOK /\ Sound /\ [Next]_vars => Sound'
<1>. SUFFICES ASSUME TypeOK, Sound, [Next]_vars PROVE Sound'
  OBVIOUS
<1>. USE DEF TypeOK, Order, Sound, Busy, Open
<1>1. ASSUME NEW p \in Pane, ProgWrite(p) PROVE Sound'
  BY <1>1 DEF ProgWrite
<1>2. ASSUME NEW p \in Pane, ProgRead(p) PROVE Sound'
  BY <1>2 DEF ProgRead
<1>3. ASSUME NEW p \in Pane, HangUp(p) PROVE Sound'
  BY <1>3 DEF HangUp
<1>4. ASSUME NEW p \in Pane, Die(p) PROVE Sound'
  BY <1>4 DEF Die
<1>5. ASSUME NEW p \in Pane, Read(p) PROVE Sound'
  BY <1>5 DEF Read
<1>6. ASSUME NEW p \in Pane, ReadEof(p) PROVE Sound'
  BY <1>6 DEF ReadEof
<1>7. ASSUME NEW p \in Pane, Send(p) PROVE Sound'
  BY <1>7 DEF Send, ChannelFull
<1>8. ASSUME NEW p \in Pane, SendErr(p) PROVE Sound'
  BY <1>8 DEF SendErr
<1>9. ASSUME NEW p \in Pane, Notify(p) PROVE Sound'
  BY <1>9 DEF Notify
<1>10. ASSUME NEW p \in Pane, StoreDone(p) PROVE Sound'
  BY <1>10 DEF StoreDone
<1>11. ASSUME NEW p \in Pane, NotifyEof(p) PROVE Sound'
  BY <1>11 DEF NotifyEof
<1>12. ASSUME NEW p \in Pane, InputLock(p) PROVE Sound'
  BY <1>12 DEF InputLock
<1>13. ASSUME NEW p \in Pane, ClosePane(p) PROVE Sound'
  BY <1>13 DEF ClosePane
<1>14. ASSUME NEW p \in Pane, TickPick(p) PROVE Sound'
  BY <1>14 DEF TickPick
<1>15. ASSUME NEW p \in Pane, TickTake(p) PROVE Sound'
  BY <1>15 DEF TickTake
<1>16. ASSUME NEW p \in Pane, TickParse(p) PROVE Sound'
  BY <1>16 DEF TickParse
<1>17. ASSUME NEW p \in Pane, TickReply(p) PROVE Sound'
  BY <1>17 DEF TickReply, Accepts, Written
<1>18. ASSUME NEW p \in Pane, TickCheck(p) PROVE Sound'
  BY <1>18 DEF TickCheck, ExitSeen, Reapable
<1>19. CASE TickLock
  BY <1>19 DEF TickLock
<1>20. CASE TickWake
  BY <1>20 DEF TickWake
<1>21. CASE TickClean
  BY <1>21 DEF TickClean, Reapable
<1>22. CASE TickEnd
  BY <1>22 DEF TickEnd, PermitKept
<1>23. CASE InputWrite
  BY <1>23 DEF InputWrite, Accepts, Written
<1>24. CASE UNCHANGED vars
  BY <1>24 DEF vars
<1>. QED
  BY <1>1, <1>2, <1>3, <1>4, <1>5, <1>6, <1>7, <1>8, <1>9, <1>10, <1>11,
     <1>12, <1>13, <1>14, <1>15, <1>16, <1>17, <1>18, <1>19, <1>20, <1>21,
     <1>22, <1>23, <1>24
     DEF Next, Program, Reader, TickPass, TickOn

\* A step loses no wake-up.
LEMMA WakeStep == TypeOK /\ Sound /\ NoLostWakeup /\ [Next]_vars => NoLostWakeup'
<1>. SUFFICES ASSUME TypeOK, Sound, NoLostWakeup, [Next]_vars PROVE NoLostWakeup'
  OBVIOUS
<1>. USE DEF TypeOK, Order, Sound, Busy, Open, NoLostWakeup, OutputAwake, EofAwake
<1>1. ASSUME NEW p \in Pane, ProgWrite(p) PROVE NoLostWakeup'
  BY <1>1 DEF ProgWrite
<1>2. ASSUME NEW p \in Pane, ProgRead(p) PROVE NoLostWakeup'
  BY <1>2 DEF ProgRead
<1>3. ASSUME NEW p \in Pane, HangUp(p) PROVE NoLostWakeup'
  BY <1>3 DEF HangUp
<1>4. ASSUME NEW p \in Pane, Die(p) PROVE NoLostWakeup'
  BY <1>4 DEF Die
<1>5. ASSUME NEW p \in Pane, Read(p) PROVE NoLostWakeup'
  BY <1>5 DEF Read
<1>6. ASSUME NEW p \in Pane, ReadEof(p) PROVE NoLostWakeup'
  BY <1>6 DEF ReadEof
<1>7. ASSUME NEW p \in Pane, Send(p) PROVE NoLostWakeup'
  BY <1>7 DEF Send, ChannelFull
<1>8. ASSUME NEW p \in Pane, SendErr(p) PROVE NoLostWakeup'
  BY <1>8 DEF SendErr
<1>9. ASSUME NEW p \in Pane, Notify(p) PROVE NoLostWakeup'
  BY <1>9 DEF Notify
<1>10. ASSUME NEW p \in Pane, StoreDone(p) PROVE NoLostWakeup'
  BY <1>10 DEF StoreDone
<1>11. ASSUME NEW p \in Pane, NotifyEof(p) PROVE NoLostWakeup'
  BY <1>11 DEF NotifyEof
<1>12. ASSUME NEW p \in Pane, InputLock(p) PROVE NoLostWakeup'
  BY <1>12 DEF InputLock
<1>13. ASSUME NEW p \in Pane, ClosePane(p) PROVE NoLostWakeup'
  BY <1>13 DEF ClosePane
<1>14. ASSUME NEW p \in Pane, TickPick(p) PROVE NoLostWakeup'
  BY <1>14 DEF TickPick
<1>15. ASSUME NEW p \in Pane, TickTake(p) PROVE NoLostWakeup'
  BY <1>15 DEF TickTake
<1>16. ASSUME NEW p \in Pane, TickParse(p) PROVE NoLostWakeup'
  BY <1>16 DEF TickParse
<1>17. ASSUME NEW p \in Pane, TickReply(p) PROVE NoLostWakeup'
  BY <1>17 DEF TickReply, Accepts, Written
<1>18. ASSUME NEW p \in Pane, TickCheck(p) PROVE NoLostWakeup'
  BY <1>18 DEF TickCheck, ExitSeen, Reapable
<1>19. CASE TickLock
  BY <1>19 DEF TickLock
<1>20. CASE TickWake
  BY <1>20 DEF TickWake
<1>21. CASE TickClean
  BY <1>21 DEF TickClean, Reapable
<1>22. CASE TickEnd
  BY <1>22 DEF TickEnd, PermitKept
<1>23. CASE InputWrite
  BY <1>23 DEF InputWrite, Accepts, Written
<1>24. CASE UNCHANGED vars
  BY <1>24 DEF vars
<1>. QED
  BY <1>1, <1>2, <1>3, <1>4, <1>5, <1>6, <1>7, <1>8, <1>9, <1>10, <1>11,
     <1>12, <1>13, <1>14, <1>15, <1>16, <1>17, <1>18, <1>19, <1>20, <1>21,
     <1>22, <1>23, <1>24
     DEF Next, Program, Reader, TickPass, TickOn

\* The invariant holds in every reachable state.
LEMMA PumpInvariant == Spec => []PumpInv
<1>1. PumpInv /\ [Next]_vars => PumpInv'
  BY TypeStep, SoundStep, WakeStep DEF PumpInv
<1>. QED
  BY InitPump, <1>1, PTL DEF Spec

\* For any number of panes and any capacities, every variable stays in its
\* range: in particular a channel never holds more than ChanCap chunks and a
\* chunk is parsed only after it was drained, sent, read and written.
THEOREM PumpTypes == Spec => []TypeOK
<1>1. PumpInv => TypeOK
  BY DEF PumpInv
<1>. QED
  BY PumpInvariant, <1>1, PTL

\* Output waiting in a channel, or a reader's end of file, always has a wake-up
\* of the tick loop on its way.
THEOREM Wakeup == Spec => []NoLostWakeup
<1>1. PumpInv => NoLostWakeup
  BY DEF PumpInv
<1>. QED
  BY PumpInvariant, <1>1, PTL

-----------------------------------------------------------------------------
(* Refinement.                                                             *)

StreamState ==
    [p \in Pane |-> IF fate[p] # "open" THEN fate[p]
                    ELSE IF prog[p] = "running" THEN "running"
                    ELSE "ended"]

\* A step of the pump is a step of the stream, or none: a program's write,
\* exit and close are the stream's, a parse shows the output, a cleanup reaps
\* exactly the panes marked as exited, whose programs have ended.
LEMMA PumpStep == PumpInv /\ [Next]_vars => [Stream!StreamNext]_(Stream!streamVars)
<1>. SUFFICES ASSUME PumpInv, [Next]_vars
              PROVE  Stream!StreamNext \/ UNCHANGED <<written, parsed, StreamState>>
  BY DEF Stream!streamVars, StreamState
<1>. USE DEF PumpInv, TypeOK, Order, Sound, Busy, Open, StreamState
<1>1. ASSUME NEW p \in Pane, ProgWrite(p) PROVE Stream!Emit(p)
  BY <1>1 DEF ProgWrite, Stream!Emit
<1>2. ASSUME NEW p \in Pane, ProgRead(p)
     PROVE  UNCHANGED <<written, parsed, StreamState>>
  BY <1>2 DEF ProgRead
<1>3. ASSUME NEW p \in Pane, HangUp(p) PROVE Stream!End(p)
  BY <1>3 DEF HangUp, Stream!End
<1>4. ASSUME NEW p \in Pane, Die(p)
     PROVE  UNCHANGED <<written, parsed, StreamState>>
  BY <1>4 DEF Die
<1>5. ASSUME NEW p \in Pane, Read(p)
     PROVE  UNCHANGED <<written, parsed, StreamState>>
  BY <1>5 DEF Read
<1>6. ASSUME NEW p \in Pane, ReadEof(p)
     PROVE  UNCHANGED <<written, parsed, StreamState>>
  BY <1>6 DEF ReadEof
<1>7. ASSUME NEW p \in Pane, Send(p)
     PROVE  UNCHANGED <<written, parsed, StreamState>>
  BY <1>7 DEF Send, ChannelFull
<1>8. ASSUME NEW p \in Pane, SendErr(p)
     PROVE  UNCHANGED <<written, parsed, StreamState>>
  BY <1>8 DEF SendErr
<1>9. ASSUME NEW p \in Pane, Notify(p)
     PROVE  UNCHANGED <<written, parsed, StreamState>>
  BY <1>9 DEF Notify
<1>10. ASSUME NEW p \in Pane, StoreDone(p)
     PROVE  UNCHANGED <<written, parsed, StreamState>>
  BY <1>10 DEF StoreDone
<1>11. ASSUME NEW p \in Pane, NotifyEof(p)
     PROVE  UNCHANGED <<written, parsed, StreamState>>
  BY <1>11 DEF NotifyEof
<1>12. ASSUME NEW p \in Pane, InputLock(p)
     PROVE  UNCHANGED <<written, parsed, StreamState>>
  BY <1>12 DEF InputLock
<1>13. ASSUME NEW p \in Pane, ClosePane(p) PROVE Stream!Close(p)
  BY <1>13 DEF ClosePane, Stream!Close, Stream!Live
<1>14. ASSUME NEW p \in Pane, TickPick(p)
     PROVE  UNCHANGED <<written, parsed, StreamState>>
  BY <1>14 DEF TickPick
<1>15. ASSUME NEW p \in Pane, TickTake(p)
     PROVE  UNCHANGED <<written, parsed, StreamState>>
  BY <1>15 DEF TickTake
<1>16. ASSUME NEW p \in Pane, TickParse(p)
     PROVE  Stream!Show(p) \/ UNCHANGED <<written, parsed, StreamState>>
  <2>1. UNCHANGED <<written, StreamState>>
    BY <1>16 DEF TickParse
  <2>2. CASE parsed[p] = taken[p]
    BY <1>16, <2>1, <2>2 DEF TickParse
  <2>3. CASE parsed[p] < taken[p]
    <3>1. p \in Open
      BY <1>16 DEF TickParse
    <3>2. taken[p] \in (parsed[p] + 1)..written[p]
      BY <1>16, <2>3
    <3>3. parsed' = [parsed EXCEPT ![p] = taken[p]]
      BY <1>16 DEF TickParse
    <3>. QED
      BY <2>1, <3>1, <3>2, <3>3 DEF Stream!Show, Stream!Live
  <2>. QED
    BY <2>2, <2>3
<1>17. ASSUME NEW p \in Pane, TickReply(p)
     PROVE  UNCHANGED <<written, parsed, StreamState>>
  BY <1>17 DEF TickReply, Accepts, Written
<1>18. ASSUME NEW p \in Pane, TickCheck(p)
     PROVE  UNCHANGED <<written, parsed, StreamState>>
  BY <1>18 DEF TickCheck, ExitSeen, Reapable
<1>19. ASSUME TickLock PROVE UNCHANGED <<written, parsed, StreamState>>
  BY <1>19 DEF TickLock
<1>20. ASSUME TickWake PROVE UNCHANGED <<written, parsed, StreamState>>
  BY <1>20 DEF TickWake
<1>21. CASE TickClean
  <2>1. UNCHANGED <<prog, written, parsed>>
    BY <1>21 DEF TickClean
  <2>2. fate' = [p \in Pane |-> IF p \in exited THEN "reaped" ELSE fate[p]]
    BY <1>21 DEF TickClean
  <2>3. \A p \in exited : StreamState[p] = "ended"
    OBVIOUS
  <2>4. StreamState' =
          [p \in Pane |-> IF p \in exited THEN "reaped" ELSE StreamState[p]]
    BY <2>1, <2>2
  <2>5. CASE exited = {}
    BY <2>1, <2>4, <2>5
  <2>6. CASE exited # {}
    <3>1. Stream!Reap(exited)
      BY <2>1, <2>3, <2>4, <2>6 DEF Stream!Reap
    <3>2. exited \in SUBSET Pane
      OBVIOUS
    <3>. QED
      BY <3>1, <3>2 DEF Stream!StreamNext, Stream!Reap
  <2>. QED
    BY <2>5, <2>6
<1>22. ASSUME TickEnd PROVE UNCHANGED <<written, parsed, StreamState>>
  BY <1>22 DEF TickEnd, PermitKept
<1>23. ASSUME InputWrite PROVE UNCHANGED <<written, parsed, StreamState>>
  BY <1>23 DEF InputWrite, Accepts, Written
<1>24. CASE UNCHANGED vars
  BY <1>24 DEF vars
<1>. QED
  BY <1>1, <1>2, <1>3, <1>4, <1>5, <1>6, <1>7, <1>8, <1>9, <1>10, <1>11,
     <1>12, <1>13, <1>14, <1>15, <1>16, <1>17, <1>18, <1>19, <1>20, <1>21,
     <1>22, <1>23, <1>24
     DEF Next, Program, Reader, TickPass, TickOn, Stream!StreamNext

\* The pump implements the safety part of the stream: output is shown in order,
\* only what was written, and the daemon reaps only panes whose program ended.
THEOREM StreamSafety == Spec => Stream!StreamSafe
<1>1. Init => Stream!StreamInit
  BY DEF Init, Stream!StreamInit
<1>. QED
  BY PumpInvariant, PumpStep, <1>1, PTL DEF Spec, Stream!StreamSafe
=============================================================================
