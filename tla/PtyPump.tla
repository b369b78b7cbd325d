------------------------------ MODULE PtyPump ------------------------------
(***************************************************************************)
(* How a program's output reaches the pane's terminal, and how the daemon  *)
(* notices that the program has ended.                                     *)
(*                                                                         *)
(* Each pane has a reader thread (pty.rs) that reads the PTY, hands each   *)
(* chunk to a bounded channel and then wakes the tick loop through a       *)
(* coalescing permit.  The tick loop (tick.rs), under the server lock,     *)
(* drains the channel of every pane, parses what it took, writes the       *)
(* terminal's replies back to the PTY, and checks whether the pane has     *)
(* ended.  Connection handlers write input under the same lock.            *)
(*                                                                         *)
(* Chunks are numbered in the order they are written; a channel is first   *)
(* in, first out, so each stage is the number of chunks that passed it.    *)
(***************************************************************************)
EXTENDS Naturals

CONSTANTS
    Pane,      \* panes of a session
    NoPane,    \* no pane
    TtyCap,    \* chunks the kernel holds for the daemon to read
    ChanCap,   \* slots of the channel to the tick loop (64 in the code)
    InCap,     \* writes the kernel holds for the program to read
    MaxReply,  \* bound of the model: replies to one batch of output
    MaxOut     \* bound of the model: chunks a program writes

ASSUME PumpAssumption ==
    /\ NoPane \notin Pane
    /\ TtyCap \in Nat \ {0} /\ ChanCap \in Nat \ {0} /\ InCap \in Nat \ {0}
    /\ MaxReply \in Nat /\ MaxOut \in Nat

VARIABLES
    \* --- the program and the kernel's two buffers
    prog,      \* "running", "hungup" (terminal gone, not yet reapable), "dead"
    written,   \* chunks written to the PTY
    inq,       \* writes the program has not read yet
    \* --- the reader thread
    rpc,       \* "read", "send", "notify", "eof", "eofnotify", "gone"
    got,       \* chunks read
    sent,      \* chunks handed to the channel
    done,      \* reader_done
    \* --- the tick loop
    permit,    \* the Notify permit
    pc,        \* "wait", "lock", "pick", "drain", "reply", "end"
    todo,      \* panes of this pass not yet processed
    cur,       \* the pane being processed
    taken,     \* chunks taken out of the channel
    parsed,    \* chunks parsed
    owed,      \* terminal replies to write
    hadData,   \* last_tick_had_pty_data
    exited,    \* Pane.exited
    \* --- the server
    lock,      \* "free", "tick" or "input"
    job,       \* the pane an input handler writes to
    fate,      \* "open", "reaped" (cleanup_exited_panes), "closed" (ClosePane)
    code       \* process_exit_code is known

program == <<prog, written, inq>>
reader  == <<rpc, got, sent, done>>
tick    == <<pc, todo, cur, taken, parsed, owed, hadData, exited>>
server  == <<lock, job, fate, code>>
vars    == <<program, reader, permit, tick, server>>

Open == {p \in Pane : fate[p] = "open"}

-----------------------------------------------------------------------------
Init ==
    /\ prog    = [p \in Pane |-> "running"]
    /\ written = [p \in Pane |-> 0]
    /\ inq     = [p \in Pane |-> 0]
    /\ rpc     = [p \in Pane |-> "read"]
    /\ got     = [p \in Pane |-> 0]
    /\ sent    = [p \in Pane |-> 0]
    /\ done    = [p \in Pane |-> FALSE]
    /\ permit  = FALSE
    /\ pc      = "wait"
    /\ todo    = {}
    /\ cur     = NoPane
    /\ taken   = [p \in Pane |-> 0]
    /\ parsed  = [p \in Pane |-> 0]
    /\ owed    = 0
    /\ hadData = FALSE
    /\ exited  = {}
    /\ lock    = "free"
    /\ job     = NoPane
    /\ fate    = [p \in Pane |-> "open"]
    /\ code    = [p \in Pane |-> FALSE]

-----------------------------------------------------------------------------
(* The program.  It blocks while the kernel's buffer is full.              *)

ProgWrite(p) ==
    /\ prog[p] = "running" /\ p \in Open
    /\ written[p] < MaxOut
    /\ written[p] - got[p] < TtyCap
    /\ written' = [written EXCEPT ![p] = @ + 1]
    /\ UNCHANGED <<prog, inq, reader, permit, tick, server>>

ProgRead(p) ==
    /\ prog[p] = "running"
    /\ inq[p] > 0
    /\ inq' = [inq EXCEPT ![p] = @ - 1]
    /\ UNCHANGED <<prog, written, reader, permit, tick, server>>

\* The process exits: its terminal is hung up, which also discards what it
\* had not read, and a moment later it can be reaped.
HangUp(p) ==
    /\ prog[p] = "running" /\ p \in Open
    /\ prog' = [prog EXCEPT ![p] = "hungup"]
    /\ inq' = [inq EXCEPT ![p] = 0]
    /\ UNCHANGED <<written, reader, permit, tick, server>>

Die(p) ==
    /\ prog[p] = "hungup"
    /\ prog' = [prog EXCEPT ![p] = "dead"]
    /\ UNCHANGED <<written, inq, reader, permit, tick, server>>

-----------------------------------------------------------------------------
(* The reader thread.                                                      *)

Read(p) ==
    /\ rpc[p] = "read"
    /\ got[p] < written[p]
    /\ got' = [got EXCEPT ![p] = @ + 1]
    /\ rpc' = [rpc EXCEPT ![p] = "send"]
    /\ UNCHANGED <<program, sent, done, permit, tick, server>>

\* read returns 0 or an error once nothing is left and the terminal is gone,
\* or once the daemon has dropped the pane and killed its program.
ReadEof(p) ==
    /\ rpc[p] = "read"
    /\ got[p] = written[p]
    /\ prog[p] # "running" \/ p \notin Open
    /\ rpc' = [rpc EXCEPT ![p] = "eof"]
    /\ UNCHANGED <<program, got, sent, done, permit, tick, server>>

\* send blocks on a full channel.
ChannelOver(p) == sent[p] - taken[p] > ChanCap
ChannelFull(p) == sent[p] - taken[p] >= ChanCap

Send(p) ==
    /\ rpc[p] = "send" /\ p \in Open
    /\ ~ChannelFull(p)
    /\ sent' = [sent EXCEPT ![p] = @ + 1]
    /\ rpc' = [rpc EXCEPT ![p] = "notify"]
    /\ UNCHANGED <<program, got, done, permit, tick, server>>

\* The receiver is dropped: the thread leaves without a notification.
SendErr(p) ==
    /\ rpc[p] = "send" /\ p \notin Open
    /\ rpc' = [rpc EXCEPT ![p] = "gone"]
    /\ UNCHANGED <<program, got, sent, done, permit, tick, server>>

Notify(p) ==
    /\ rpc[p] = "notify"
    /\ permit' = TRUE
    /\ rpc' = [rpc EXCEPT ![p] = "read"]
    /\ UNCHANGED <<program, got, sent, done, tick, server>>

StoreDone(p) ==
    /\ rpc[p] = "eof"
    /\ done' = [done EXCEPT ![p] = TRUE]
    /\ rpc' = [rpc EXCEPT ![p] = "eofnotify"]
    /\ UNCHANGED <<program, got, sent, permit, tick, server>>

NotifyEof(p) ==
    /\ rpc[p] = "eofnotify"
    /\ permit' = TRUE
    /\ rpc' = [rpc EXCEPT ![p] = "gone"]
    /\ UNCHANGED <<program, got, sent, done, tick, server>>

Reader(p) ==
    \/ Read(p) \/ ReadEof(p) \/ Send(p) \/ SendErr(p) \/ Notify(p)
    \/ StoreDone(p) \/ NotifyEof(p)

-----------------------------------------------------------------------------
(* The tick loop.                                                          *)

\* wait_for_tick consumes the permit ...
TickWake ==
    /\ pc = "wait"
    /\ permit
    /\ permit' = FALSE
    /\ pc' = "lock"
    /\ UNCHANGED <<program, reader, todo, cur, taken, parsed, owed, hadData,
                   exited, server>>

\* ... and then waits for the server lock.
TickLock ==
    /\ pc = "lock"
    /\ lock = "free"
    /\ lock' = "tick"
    /\ todo' = Open
    /\ hadData' = FALSE
    /\ pc' = "pick"
    /\ UNCHANGED <<program, reader, permit, cur, taken, parsed, owed, exited,
                   job, fate, code>>

TickPick(p) ==
    /\ pc = "pick"
    /\ p \in todo
    /\ cur' = p
    /\ todo' = todo \ {p}
    /\ pc' = "drain"
    /\ UNCHANGED <<program, reader, permit, taken, parsed, owed, hadData,
                   exited, server>>

\* drain_output: one try_recv, while the reader may refill the channel.
TickTake(p) ==
    /\ pc = "drain" /\ cur = p
    /\ taken[p] < sent[p]
    /\ taken' = [taken EXCEPT ![p] = @ + 1]
    /\ UNCHANGED <<program, reader, permit, pc, todo, cur, parsed, owed,
                   hadData, exited, server>>

\* try_recv finds the channel empty: what was taken is parsed, and may make
\* the terminal answer.
TickParse(p) ==
    /\ pc = "drain" /\ cur = p
    /\ taken[p] = sent[p]
    /\ parsed' = [parsed EXCEPT ![p] = taken[p]]
    /\ hadData' = (hadData \/ parsed[p] < taken[p])
    /\ owed' \in IF parsed[p] < taken[p] THEN 0..MaxReply ELSE {0}
    /\ pc' = "reply"
    /\ UNCHANGED <<program, reader, permit, todo, cur, taken, exited, server>>

\* A write to the PTY blocks while the program leaves its input unread; a
\* terminal that was hung up takes the bytes or refuses them, and they are gone.
Accepts(p) == inq[p] < InCap \/ prog[p] # "running"
Written(p) == IF prog[p] = "running" THEN [inq EXCEPT ![p] = @ + 1] ELSE inq

TickReply(p) ==
    /\ pc = "reply" /\ cur = p
    /\ owed > 0
    /\ Accepts(p)
    /\ inq' = Written(p)
    /\ owed' = owed - 1
    /\ UNCHANGED <<prog, written, reader, permit, pc, todo, cur, taken, parsed,
                   hadData, exited, server>>

\* check_pty_exit: the process can be reaped, or its reader met end of file.
Reapable(p) == prog[p] = "dead"
ExitSeen(p) == Reapable(p) \/ done[p]

TickCheck(p) ==
    /\ pc = "reply" /\ cur = p
    /\ owed = 0
    /\ exited' = IF ExitSeen(p) THEN exited \cup {p} ELSE exited
    /\ code' = [code EXCEPT ![p] = Reapable(p)]
    /\ cur' = NoPane
    /\ pc' = "pick"
    /\ UNCHANGED <<program, reader, permit, todo, taken, parsed, owed, hadData,
                   lock, job, fate>>

\* cleanup_exited_panes: the exit code is asked for once more, the pane and
\* its PTY are dropped, and phase 1 ends.
TickClean ==
    /\ pc = "pick" /\ todo = {}
    /\ fate' = [p \in Pane |-> IF p \in exited THEN "reaped" ELSE fate[p]]
    /\ code' = [p \in Pane |-> code[p] \/ (p \in exited /\ Reapable(p))]
    /\ exited' = {}
    /\ lock' = "free"
    /\ pc' = "end"
    /\ UNCHANGED <<program, reader, permit, todo, cur, taken, parsed, owed,
                   hadData, job>>

\* The end of the iteration leaves the permit alone and asks for another turn
\* when there was data.
PermitConsumed == hadData
PermitKept == permit \/ hadData

TickEnd ==
    /\ pc = "end"
    /\ permit' = PermitKept
    /\ pc' = "wait"
    /\ UNCHANGED <<program, reader, todo, cur, taken, parsed, owed, hadData,
                   exited, server>>

TickOn(p) == TickPick(p) \/ TickTake(p) \/ TickParse(p) \/ TickReply(p) \/ TickCheck(p)
TickPass == TickWake \/ (\E p \in Pane : TickOn(p)) \/ TickClean \/ TickEnd

-----------------------------------------------------------------------------
(* Connection handlers.                                                    *)

\* Input, SendKeys or a mouse event takes the lock ...
InputLock(p) ==
    /\ lock = "free"
    /\ p \in Open
    /\ lock' = "input"
    /\ job' = p
    /\ UNCHANGED <<program, reader, permit, tick, fate, code>>

\* ... and writes to the PTY with the lock held; Input wakes the tick loop.
InputWrite ==
    /\ lock = "input"
    /\ Accepts(job)
    /\ inq' = Written(job)
    /\ permit' = TRUE \/ UNCHANGED permit
    /\ lock' = "free"
    /\ job' = NoPane
    /\ UNCHANGED <<prog, written, reader, tick, fate, code>>

\* ClosePane drops the pane, which kills its program.
ClosePane(p) ==
    /\ lock = "free"
    /\ p \in Open
    /\ fate' = [fate EXCEPT ![p] = "closed"]
    /\ UNCHANGED <<program, reader, permit, tick, lock, job, code>>

-----------------------------------------------------------------------------
Program(p) == ProgWrite(p) \/ ProgRead(p) \/ HangUp(p) \/ Die(p)

Next ==
    \/ \E p \in Pane : Program(p) \/ Reader(p) \/ InputLock(p) \/ ClosePane(p)
    \/ TickLock \/ TickPass
    \/ InputWrite

Spec == Init /\ [][Next]_vars

\* Threads and tasks are scheduled, and the tokio Mutex serves its waiters in
\* order.  The program reads its input and, having exited, becomes reapable; it
\* need not write or exit.  A program that stops reading while the daemon
\* writes to it stops the daemon: the write is made with the server lock held.
Fairness ==
    /\ \A p \in Pane : WF_vars(Reader(p)) /\ WF_vars(ProgRead(p)) /\ WF_vars(Die(p))
    /\ SF_vars(TickLock)
    /\ WF_vars(TickPass)
    /\ WF_vars(InputWrite)

FairSpec == Spec /\ Fairness
-----------------------------------------------------------------------------
(* Properties.                                                             *)

Order(p) == /\ parsed[p] <= taken[p] /\ taken[p] <= sent[p]
            /\ sent[p] <= got[p] /\ got[p] <= written[p]

TypeOK ==
    /\ prog \in [Pane -> {"running", "hungup", "dead"}]
    /\ written \in [Pane -> Nat] /\ got \in [Pane -> Nat] /\ sent \in [Pane -> Nat]
    /\ taken \in [Pane -> Nat] /\ parsed \in [Pane -> Nat]
    /\ inq \in [Pane -> 0..InCap]
    /\ rpc \in [Pane -> {"read", "send", "notify", "eof", "eofnotify", "gone"}]
    /\ done \in [Pane -> BOOLEAN]
    /\ permit \in BOOLEAN
    /\ pc \in {"wait", "lock", "pick", "drain", "reply", "end"}
    /\ todo \subseteq Pane
    /\ cur \in Pane \cup {NoPane}
    /\ owed \in 0..MaxReply
    /\ hadData \in BOOLEAN
    /\ exited \subseteq Pane
    /\ lock \in {"free", "tick", "input"}
    /\ job \in Pane \cup {NoPane}
    /\ fate \in [Pane -> {"open", "reaped", "closed"}]
    /\ code \in [Pane -> BOOLEAN]
    /\ \A p \in Pane : Order(p) /\ sent[p] - taken[p] <= ChanCap

\* A chunk handed to the tick loop but not drained ...
OutputAwake(p) ==
    p \in Open /\ taken[p] < sent[p] =>
      \/ permit \/ rpc[p] = "notify" \/ pc = "lock"
      \/ p \in todo \/ (cur = p /\ pc = "drain")
      \/ p \in exited

\* ... or an end of file not acted upon.
EofAwake(p) ==
    p \in Open /\ done[p] =>
      \/ permit \/ rpc[p] = "eofnotify" \/ pc = "lock"
      \/ p \in todo \/ cur = p
      \/ p \in exited

\* "Wait once per iteration so a PTY notification is never consumed without
\* processing its output": output in a channel, or a reader's end of file,
\* always has a wake-up on its way: a permit, a reader about to notify, or a
\* pass of the tick loop that has not reached the pane yet.  Otherwise the
\* reader could block on a full channel with the loop asleep.
NoLostWakeup == \A p \in Pane : OutputAwake(p) /\ EofAwake(p)

\* What the pump implements: chunks are shown when they are parsed.
Stream == INSTANCE PtyStream WITH
    shown <- parsed,
    state <- [p \in Pane |-> IF fate[p] # "open" THEN fate[p]
                             ELSE IF prog[p] = "running" THEN "running"
                             ELSE "ended"]

\* The pane is a stream: output appears in order, only what was written, the
\* daemon reaps a pane only after its program has ended, all output of a live
\* pane is shown and a pane whose program has ended is reaped, in the end.
StreamImplemented == Stream!StreamSpec

\* "The exit code comes from the process itself": a pane the daemon removed
\* because its process exited has the exit code for run-command --wait.
ExitCodeCaptured == \A p \in Pane : fate[p] = "reaped" => code[p]
=============================================================================
