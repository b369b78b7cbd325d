-------------------------- MODULE SessionRegistry --------------------------
(***************************************************************************)
(* The daemon's table of sessions, panes, clients and waiters, and when    *)
(* the daemon ends.                                                        *)
(*                                                                         *)
(* Connection handlers attach, switch, kill and close under the server     *)
(* lock, one message at a time (connection.rs, server/).  The tick loop    *)
(* (tick.rs) wakes only when it is notified; under the same lock it reaps  *)
(* panes whose program has ended, removes sessions without panes, moves or *)
(* drops their clients, and counts down to an idle shutdown.  A command    *)
(* line client may wait for a pane's exit (run-command --wait).            *)
(*                                                                         *)
(* The reader threads appear only as the notification each of them makes   *)
(* when its pane's PTY ends.  A reader that leaves without one, because it *)
(* was blocked on a full channel, left output in the channel, so a wake-up *)
(* was already on its way (PtyPump!NoLostWakeup).                          *)
(***************************************************************************)
EXTENDS Naturals, FiniteSets

CONSTANTS
    Gui,         \* connections that attach to a session
    Cli,         \* connections of the command line, on "__control__"
    Session,     \* valid session names
    Control,     \* "__control__"
    NoSession,   \* not in the client table
    NoPane,      \* no pane
    NoClient,    \* nobody waits
    Linger,      \* idle_timeout_secs is not zero
    Template,    \* sessions that templates are applied to
    MayQuit,     \* somebody may ask the daemon to quit
    MaxRestore,  \* bound of the model: panes tried for a session that is opened
    MaxPane      \* bound of the model: panes ever tried

Client == Gui \cup Cli
PaneId == 1..MaxPane

ASSUME RegistryAssumption ==
    /\ Gui \cap Cli = {} /\ NoClient \notin Client
    /\ Control \notin Session /\ NoSession \notin Session \cup {Control}
    /\ Linger \in BOOLEAN /\ MayQuit \in BOOLEAN
    /\ Template \subseteq Session
    /\ MaxRestore \in Nat \ {0} /\ MaxPane \in Nat
    /\ NoPane \notin Nat

VARIABLES
    \* --- the server
    live,        \* names in Server.sessions
    newer,       \* pairs <<s, t>> of live sessions: s was attached to after t
    panes,       \* Session.panes
    next,        \* next_pane_id
    home,        \* ClientState.session_name, NoSession when not in the table
    waits,       \* pending_pane_waits
    hadSession,  \* had_session
    idle,        \* idle_deadline: "none", "armed", "due" once it has passed
    shutDown,    \* shut_down
    \* --- programs and reader threads
    dead,        \* panes whose program has ended
    eof,         \* readers that will still notify
    \* --- the tick loop
    permit,      \* the Notify permit
    pc,          \* "wait", "lock", "pass" (lock held), "send", "grace" (the 50 ms), "gone"
    todo,        \* sessions of this pass not yet processed
    \* --- the process
    quitting,    \* somebody is about to call graceful_shutdown
    stop,        \* the shutdown Notify permit
    stopped,     \* the accept loop has returned
    \* --- the clients
    link,        \* "off", "on", "closing" (end of file read, cleanup to come)
    seen,        \* the session a client displays
    waiting,     \* the pane a run-command --wait blocks on
    \* --- history
    told,        \* clients told that their session is gone
    deaf,        \* clients whose channel had no room for it
    lost,        \* panes dropped by ApplyTemplate
    unstarted    \* sessions opened without a pane

server  == <<live, newer, panes, next, home, waits, hadSession, idle, shutDown>>
pty     == <<dead, eof>>
tick    == <<permit, pc, todo>>
process == <<quitting, stop, stopped>>
user    == <<link, seen, waiting>>
news    == <<told, deaf>>
history == <<news, lost, unstarted>>
vars    == <<server, pty, tick, process, user, history>>

Registered == {c \in Client : home[c] # NoSession}
AllPanes   == UNION {panes[s] : s \in Session}
LockFree   == pc # "pass" /\ ~stopped
Connected(c) == LockFree /\ link[c] = "on" /\ home[c] # NoSession

-----------------------------------------------------------------------------
Init ==
    /\ live = {} /\ newer = {}
    /\ panes = [s \in Session |-> {}]
    /\ next = 1
    /\ home = [c \in Client |-> NoSession]
    /\ waits = [p \in PaneId |-> NoClient]
    /\ hadSession = FALSE
    /\ idle = "none"
    /\ shutDown = FALSE
    /\ dead = {} /\ eof = {}
    /\ permit = FALSE
    /\ pc = "wait"
    /\ todo = {}
    /\ quitting = FALSE /\ stop = FALSE /\ stopped = FALSE
    /\ link = [c \in Client |-> "off"]
    /\ seen = [c \in Client |-> NoSession]
    /\ waiting = [c \in Client |-> NoPane]
    /\ told = {} /\ deaf = {}
    /\ lost = {}
    /\ unstarted = {}

-----------------------------------------------------------------------------
(* Sessions, panes and waiters.                                            *)

\* last_attached of s becomes now, among the sessions L.
Touched(L, N, s) == {e \in N : e[2] # s} \cup ({s} \X (L \ {s}))
Forgotten(N, s)  == {e \in N : s \notin {e[1], e[2]}}

\* most_recently_attached_session(x).
Fallback(L, N, x) == CHOOSE s \in L \ {x} : \A t \in L \ {x} : <<t, s>> \notin N

\* next_pane_id after the panes P were tried.
NextPaneKept(P) == next
NextPane(P) == next + Cardinality(P)

\* get_or_create_session, then last_attached: a new session restores the panes
\* of its file or starts with one, an empty one gets a pane.  Of the panes tried,
\* those whose program cannot be started are only logged.
OpenSession(s) ==
    /\ \E k \in 1..MaxRestore :
         LET tried == IF panes[s] = {} THEN next..(next + k - 1) ELSE {} IN
         /\ (s \in live => k = 1) /\ tried \subseteq PaneId
         /\ next' = NextPane(tried)
         /\ \E new \in SUBSET tried :
              /\ panes' = [panes EXCEPT ![s] = @ \cup new]
              /\ unstarted' = IF new # {} THEN unstarted \ {s}
                              ELSE unstarted \cup ({s} \ live)
    /\ live' = live \cup {s}
    /\ newer' = Touched(live \cup {s}, newer, s)
    /\ hadSession' = TRUE

\* Panes P are dropped: their programs are killed and their readers notify.
Dropped(P) ==
    /\ eof' = eof \cup (P \ dead)
    /\ dead' = dead \ P

\* PaneClosed goes to whoever waits for a pane of P.
Fulfil(P) ==
    /\ waits' = [p \in PaneId |-> IF p \in P THEN NoClient ELSE waits[p]]
    /\ waiting' = [c \in Client |->
                     IF \E p \in P : waits[p] = c /\ waiting[c] = p THEN NoPane
                     ELSE waiting[c]]

\* The clients attached to s.
Displaying(s) == {c \in Client : seen[c] = s}
AttachedTo(s) == {c \in Client : home[c] = s}

\* finalize_session_removal of s, already out of the table: its clients move to
\* the session attached to last, or are told that theirs is gone, as far as
\* their channels have room.
Finalize(s, L, N) ==
    LET affected == AttachedTo(s) IN
    IF L = {}
    THEN /\ \E heard \in SUBSET affected :
              /\ told' = (told \ affected) \cup heard
              /\ deaf' = (deaf \ heard) \cup (affected \ heard)
         /\ newer' = N
         /\ UNCHANGED home
    ELSE LET fb == Fallback(L, N, s) IN
         /\ home' = [c \in Client |-> IF c \in affected THEN fb ELSE home[c]]
         /\ newer' = IF affected = {} THEN N ELSE Touched(L, N, fb)
         /\ UNCHANGED news

\* c goes elsewhere: what it was told is of the past.
MovesOn(c) == told' = told \ {c} /\ deaf' = deaf \ {c}

-----------------------------------------------------------------------------
(* Connections.                                                            *)

\* A client attaches to a session by name, or by "__auto__" to the session
\* attached to last or a fresh one.
Attach(c, s) ==
    /\ LockFree
    /\ c \in Gui /\ link[c] = "off"
    /\ OpenSession(s)
    /\ home' = [home EXCEPT ![c] = s]
    /\ link' = [link EXCEPT ![c] = "on"]
    /\ seen' = [seen EXCEPT ![c] = s]
    /\ idle' = "none"
    /\ MovesOn(c)
    /\ UNCHANGED <<waits, shutDown, pty, tick, process, waiting, lost>>

AttachControl(c) ==
    /\ LockFree
    /\ c \in Cli /\ link[c] = "off"
    /\ home' = [home EXCEPT ![c] = Control]
    /\ link' = [link EXCEPT ![c] = "on"]
    /\ MovesOn(c)
    /\ UNCHANGED <<live, newer, panes, next, waits, hadSession, idle, shutDown,
                   pty, tick, process, seen, waiting, lost, unstarted>>

\* Detach: RemoveClient, and the handler leaves its loop.
Detach(c) ==
    /\ Connected(c)
    /\ home' = [home EXCEPT ![c] = NoSession]
    /\ link' = [link EXCEPT ![c] = "closing"]
    /\ UNCHANGED <<live, newer, panes, next, waits, hadSession, idle, shutDown,
                   pty, tick, process, seen, waiting, history>>

\* The connection ends on the client's side.
HangUp(c) ==
    /\ ~stopped
    /\ link[c] = "on"
    /\ link' = [link EXCEPT ![c] = "closing"]
    /\ UNCHANGED <<server, pty, tick, process, seen, waiting, history>>

\* cleanup_client: nobody wakes the tick loop.
KeptWaits(c) == waits
CleanWaits(c) == [p \in PaneId |-> IF waits[p] = c THEN NoClient ELSE waits[p]]

Cleanup(c) ==
    /\ LockFree
    /\ link[c] = "closing"
    /\ home' = [home EXCEPT ![c] = NoSession]
    /\ waits' = CleanWaits(c)
    /\ link' = [link EXCEPT ![c] = "off"]
    /\ waiting' = [waiting EXCEPT ![c] = NoPane]
    /\ seen' = [seen EXCEPT ![c] = NoSession]
    /\ MovesOn(c)
    /\ UNCHANGED <<live, newer, panes, next, hadSession, idle, shutDown, pty,
                   tick, process, lost, unstarted>>

\* The tick loop's phase 2 drops a client that does not read.
Evict(c) ==
    /\ LockFree
    /\ pc = "send"
    /\ c \in Gui /\ home[c] # NoSession
    /\ home' = [home EXCEPT ![c] = NoSession]
    /\ UNCHANGED <<live, newer, panes, next, waits, hadSession, idle, shutDown,
                   pty, tick, process, user, history>>

\* A client displays the session it was switched to.
Learn(c) ==
    /\ link[c] = "on" /\ home[c] \in Session
    /\ seen[c] # home[c]
    /\ seen' = [seen EXCEPT ![c] = home[c]]
    /\ UNCHANGED <<server, pty, tick, process, link, waiting, history>>

-----------------------------------------------------------------------------
(* Messages.                                                               *)

\* Input wakes the tick loop.
Input(c) ==
    /\ Connected(c) /\ c \in Gui
    /\ permit' = TRUE
    /\ UNCHANGED <<server, pty, pc, todo, process, user, history>>

\* SwitchSession, from the client or from the tray.
SwitchSession(c, t) ==
    /\ LockFree
    /\ c \in Gui /\ home[c] # NoSession
    /\ OpenSession(t)
    /\ home' = [home EXCEPT ![c] = t]
    /\ MovesOn(c)
    /\ UNCHANGED <<waits, idle, shutDown, pty, tick, process, user, lost>>

KillSession(c, t) ==
    /\ Connected(c)
    /\ t \in live
    /\ live' = live \ {t}
    /\ Finalize(t, live \ {t}, Forgotten(newer, t))
    /\ Fulfil(panes[t])
    /\ Dropped(panes[t])
    /\ panes' = [panes EXCEPT ![t] = {}]
    /\ unstarted' = unstarted \ {t}
    /\ UNCHANGED <<next, hadSession, idle, shutDown, tick, process, link, seen,
                   lost>>

\* ClosePane names a pane of the session the client displays, and is looked up
\* in the session it is on; whoever waits for the pane is answered.
ClosePane(c, p) ==
    LET s == home[c]
        gone == IF s \in live THEN panes[s] \cap {p} ELSE {} IN
    /\ Connected(c) /\ c \in Gui
    /\ p \in panes[seen[c]]
    /\ panes' = IF s \in live THEN [panes EXCEPT ![s] = @ \ gone] ELSE panes
    /\ Dropped(gone)
    /\ Fulfil({p})
    /\ UNCHANGED <<live, newer, next, home, hadSession, idle, shutDown,
                   tick, process, link, seen, history>>

ClosePaneById(c, s, p) ==
    /\ Connected(c)
    /\ s \in live /\ p \in panes[s]
    /\ panes' = [panes EXCEPT ![s] = @ \ {p}]
    /\ Dropped({p})
    /\ Fulfil({p})
    /\ UNCHANGED <<live, newer, next, home, hadSession, idle, shutDown,
                   tick, process, link, seen, history>>

\* CreatePane, CreatePaneIn and RunCommand, the last with or without --wait.
CreatePane(c, s, wait) ==
    /\ Connected(c)
    /\ s \in live /\ next \in PaneId
    /\ wait => c \in Cli /\ waiting[c] = NoPane
    /\ panes' = [panes EXCEPT ![s] = @ \cup {next}]
    /\ next' = next + 1
    /\ waits' = IF wait THEN [waits EXCEPT ![next] = c] ELSE waits
    /\ waiting' = IF wait THEN [waiting EXCEPT ![c] = next] ELSE waiting
    /\ unstarted' = unstarted \ {s}
    /\ UNCHANGED <<live, newer, home, hadSession, idle, shutDown, pty, tick,
                   process, link, seen, news, lost>>

\* ApplyTemplate replaces the session t with one new pane, or with none if its
\* program cannot be started, and moves the requester there; the waiters of the
\* old panes are left as they are.
ApplyTemplate(c, t) ==
    /\ Connected(c)
    /\ next \in PaneId
    /\ next' = NextPane({next})
    /\ Dropped(panes[t])
    /\ lost' = lost \cup panes[t]
    /\ \E new \in {{}, {next}} :
         /\ panes' = [panes EXCEPT ![t] = new]
         /\ unstarted' = IF new = {} THEN unstarted \cup {t} ELSE unstarted \ {t}
    /\ live' = live \cup {t}
    /\ newer' = Touched(live \cup {t}, newer, t)
    /\ home' = [home EXCEPT ![c] = t]
    /\ MovesOn(c)
    /\ hadSession' = TRUE
    /\ UNCHANGED <<waits, idle, shutDown, tick, process, user>>

-----------------------------------------------------------------------------
(* Programs and reader threads.                                            *)

ProgramOutput ==
    /\ ~stopped
    /\ AllPanes # {}
    /\ permit' = TRUE
    /\ UNCHANGED <<server, pty, pc, todo, process, user, history>>

ProgramExit(p) ==
    /\ ~stopped
    /\ p \in AllPanes \ dead
    /\ dead' = dead \cup {p}
    /\ eof' = eof \cup {p}
    /\ UNCHANGED <<server, tick, process, user, history>>

ReaderSilent == UNCHANGED permit
ReaderNotify == permit' = TRUE

ReaderEof(p) ==
    /\ ~stopped
    /\ p \in eof
    /\ eof' = eof \ {p}
    /\ ReaderNotify
    /\ UNCHANGED <<server, dead, pc, todo, process, user, history>>

-----------------------------------------------------------------------------
(* The tick loop.                                                          *)

TickWake ==
    /\ ~stopped
    /\ pc = "wait"
    /\ permit
    /\ permit' = FALSE
    /\ pc' = "lock"
    /\ UNCHANGED <<server, pty, todo, process, user, history>>

TickLock ==
    /\ LockFree
    /\ pc = "lock"
    /\ pc' = "pass"
    /\ todo' = live
    /\ UNCHANGED <<server, pty, permit, process, user, history>>

\* The clients of the last session to end leave the table.
LastWithUnvisited(s) == todo \subseteq {s}
LastSession(s) == live \subseteq {s}

\* One session of the pass: dead panes are reaped and their waiters answered;
\* a session without panes goes, and its clients move or are dropped.  A session
\* that had output asks for another turn.
TickSession(s) ==
    LET D == panes[s] \cap dead IN
    /\ pc = "pass" /\ s \in todo
    /\ todo' = todo \ {s}
    /\ permit' \in IF panes[s] = {} THEN {permit} ELSE {permit, TRUE}
    /\ panes' = [panes EXCEPT ![s] = @ \ D]
    /\ dead' = dead \ D
    /\ Fulfil(D)
    /\ IF panes[s] \subseteq dead
       THEN /\ live' = live \ {s}
            /\ unstarted' = unstarted \ {s}
            /\ IF LastSession(s)
               THEN /\ home' = [c \in Client |->
                                  IF home[c] = s THEN NoSession ELSE home[c]]
                    /\ newer' = Forgotten(newer, s)
                    /\ UNCHANGED news
               ELSE Finalize(s, live \ {s}, Forgotten(newer, s))
       ELSE UNCHANGED <<live, newer, home, news, unstarted>>
    /\ UNCHANGED <<next, hadSession, idle, shutDown, eof, pc, process, link, seen, lost>>

Idle == hadSession /\ live = {} /\ Registered = {}
Deadline == IF idle = "none" THEN (IF Linger THEN "armed" ELSE "due") ELSE idle

\* The idle countdown, and the end of phase 1.
TickIdle ==
    /\ pc = "pass" /\ todo = {}
    /\ idle' = IF Idle THEN Deadline ELSE "none"
    /\ IF idle' = "due"
       THEN pc' = "grace"
       ELSE pc' = "send"
    /\ UNCHANGED <<live, newer, panes, next, home, waits, hadSession, shutDown,
                   pty, permit, todo, process, user, history>>

\* Phase 2, of which only Evict matters here, is over.
TickEnd ==
    /\ pc = "send" /\ ~stopped
    /\ pc' = "wait"
    /\ UNCHANGED <<server, pty, permit, todo, process, user, history>>

\* The deadline passes: no timer of the tick loop is set to it.
Timeout ==
    /\ idle = "armed" /\ ~stopped
    /\ idle' = "due"
    /\ UNCHANGED <<live, newer, panes, next, home, waits, hadSession, shutDown,
                   pty, tick, process, user, history>>

-----------------------------------------------------------------------------
(* The end of the daemon.                                                  *)

\* KillServer, a signal, or the tray.
Quit ==
    /\ MayQuit /\ ~quitting /\ ~shutDown /\ ~stopped
    /\ quitting' = TRUE
    /\ UNCHANGED <<server, pty, tick, stop, stopped, user, history>>

NotifyLost == UNCHANGED stop
NotifyAccept == stop' = TRUE

\* graceful_shutdown saves the sessions and tells the clients, once, and the
\* caller notifies the accept loop.
GracefulShutdown ==
    /\ LockFree
    /\ quitting
    /\ quitting' = FALSE
    /\ shutDown' = TRUE
    /\ NotifyAccept
    /\ UNCHANGED <<live, newer, panes, next, home, waits, hadSession, idle, pty,
                   tick, stopped, user, history>>

\* The tick loop after its 50 ms, without looking again.
IdleShutdown ==
    /\ LockFree
    /\ pc = "grace"
    /\ shutDown' = TRUE
    /\ stop' = TRUE
    /\ pc' = "gone"
    /\ UNCHANGED <<live, newer, panes, next, home, waits, hadSession, idle, pty,
                   permit, todo, quitting, stopped, user, history>>

\* The accept loop runs graceful_shutdown once more and returns.
Stop ==
    /\ LockFree
    /\ stop
    /\ shutDown' = TRUE
    /\ stop' = FALSE
    /\ stopped' = TRUE
    /\ UNCHANGED <<live, newer, panes, next, home, waits, hadSession, idle, pty,
                   tick, quitting, user, history>>

-----------------------------------------------------------------------------
Tick ==
    \/ TickWake \/ TickLock \/ TickIdle \/ TickEnd
    \/ \E s \in todo : TickSession(s)

Handler(c) ==
    \/ \E s \in Session : Attach(c, s) \/ SwitchSession(c, s) \/ KillSession(c, s)
    \/ AttachControl(c) \/ Detach(c) \/ HangUp(c) \/ Cleanup(c) \/ Evict(c)
    \/ Learn(c) \/ Input(c)
    \/ \E p \in PaneId : ClosePane(c, p)
    \/ \E s \in Session, p \in PaneId : ClosePaneById(c, s, p)
    \/ \E s \in Session, wait \in BOOLEAN : CreatePane(c, s, wait)
    \/ \E t \in Template : ApplyTemplate(c, t)

Next ==
    \/ \E c \in Client : Handler(c)
    \/ \E p \in PaneId : ProgramExit(p) \/ ReaderEof(p)
    \/ ProgramOutput
    \/ Tick \/ Timeout
    \/ Quit \/ GracefulShutdown \/ IdleShutdown \/ Stop

Spec == Init /\ [][Next]_vars

\* Threads and tasks are scheduled, the Mutex serves its waiters in order, time
\* passes.  Clients and programs may do nothing.
Fairness ==
    /\ \A p \in PaneId : WF_vars(ReaderEof(p))
    /\ SF_vars(Tick)
    /\ WF_vars(Timeout)
    /\ SF_vars(GracefulShutdown) /\ SF_vars(IdleShutdown) /\ SF_vars(Stop)
    /\ \A c \in Client : SF_vars(Cleanup(c))

FairSpec == Spec /\ Fairness
-----------------------------------------------------------------------------
(* Properties.                                                             *)

TypeOK ==
    /\ live \subseteq Session
    /\ newer \subseteq live \X live
    /\ \A s, t \in live : s # t => ~(<<s, t>> \in newer <=> <<t, s>> \in newer)
    /\ panes \in [Session -> SUBSET PaneId]
    /\ next \in 1..(MaxPane + 1)
    /\ \A p \in AllPanes : p < next
    /\ \A s, t \in Session : s # t => panes[s] \cap panes[t] = {}
    /\ \A s \in Session \ live : panes[s] = {}
    /\ home \in [Client -> Session \cup {Control, NoSession}]
    /\ waits \in [PaneId -> Client \cup {NoClient}]
    /\ hadSession \in BOOLEAN
    /\ idle \in {"none", "armed", "due"}
    /\ shutDown \in BOOLEAN
    /\ dead \subseteq PaneId /\ eof \subseteq PaneId
    /\ permit \in BOOLEAN
    /\ pc \in {"wait", "lock", "pass", "send", "grace", "gone"}
    /\ todo \subseteq Session
    /\ quitting \in BOOLEAN /\ stop \in BOOLEAN /\ stopped \in BOOLEAN
    /\ link \in [Client -> {"off", "on", "closing"}]
    /\ seen \in [Client -> Session \cup {NoSession}]
    /\ waiting \in [Client -> PaneId \cup {NoPane}]
    /\ told \subseteq Client /\ deaf \subseteq Client
    /\ lost \subseteq PaneId /\ unstarted \subseteq live

\* "Clients attached to the killed session need to go somewhere": whatever is
\* killed, exits, is switched or replaced, in whatever order, a client in the
\* table is on a session that exists, or was told that its session is gone, or
\* its channel was full when it should have been told (server/mod.rs:91).
LiveHome ==
    \A c \in Client : home[c] \in Session => home[c] \in live \/ c \in told \cup deaf

\* The waiters and the command lines that block agree: a run-command --wait is
\* registered for a pane that exists, and "a never-exiting command doesn't leak
\* a pending entry": a registration belongs to a connection that blocks on it.
\* The exception is a pane that ApplyTemplate dropped.
WaitsAgree ==
    /\ \A c \in Client : waiting[c] \in PaneId \ lost =>
         waits[waiting[c]] = c /\ waiting[c] \in AllPanes
    /\ \A p \in PaneId : waits[p] # NoClient =>
         waiting[waits[p]] = p /\ link[waits[p]] # "off"

\* "Any other session we can fall back to?  If yes, ... clients stay attached":
\* a pass of the tick loop drops a client only if it leaves no session at all,
\* in whatever order it visits the sessions that end together.
LastSessionOnly ==
    [][\A c \in Client :
         (pc = "pass" /\ home[c] # NoSession /\ home'[c] = NoSession) => live' = {}]_vars

\* "The tick loop only reaps empty sessions when something wakes it": a session
\* left without panes, by whatever closed the last one, is reaped or gets a new
\* pane; it does not stay until somebody types.  A session that no program could be
\* started for stays until something else wakes the loop.
EmptySessionGone ==
    \A s \in Session :
      (s \in live /\ panes[s] = {} /\ (s \in unstarted => permit)) ~>
        (s \notin live \/ panes[s] # {} \/ shutDown)

\* A request to quit ends the daemon, whatever clients do meanwhile.
QuitEnds == quitting ~> stopped

\* "With no sessions and no clients, the server shuts down after
\* server.idle_timeout_secs".
IdleEnds ==
    (hadSession /\ live = {} /\ Registered = {}) ~>
      (shutDown \/ live # {} \/ Registered # {})

\* "Otherwise the CLI would block forever": the pane a run-command --wait
\* blocks on exists.
WaitedPaneExists == \A c \in Client : waiting[c] # NoPane => waiting[c] \in AllPanes
=============================================================================
