----------------------------- MODULE LocalServer -----------------------------
(***************************************************************************)
(* How clients find the daemon of their user, start one when there is      *)
(* none, and come back after it has gone; and how daemons share one socket *)
(* path and one lock file.                                                 *)
(*                                                                         *)
(* Clients and daemons are processes that interleave at every system call  *)
(* on the path and on the lock.  Daemons end, or crash and leave their     *)
(* socket file behind.  A daemon of an older version holds no lock, and    *)
(* one that two requests shut down lets go of it early.                    *)
(***************************************************************************)
EXTENDS Naturals

CONSTANTS
    Client,        \* desktop clients; one that is opened again is another
    Server,        \* daemon processes; a name is used again after its end
    Legacy,        \* a daemon of an older version
    Nobody,        \* no process
    MaxAttempts,   \* max_attempts
    MaxEvents      \* bound: daemons started by hand, shutdowns, crashes
                   \* and failures to connect

ASSUME ServerAssumption ==
    /\ Legacy \notin Server /\ Nobody \notin Server \cup {Legacy}
    /\ MaxAttempts \in Nat \ {0} /\ MaxEvents \in Nat

VARIABLES
    path,      \* whose socket is at the socket path, live or stale
    owner,     \* who holds the lock file
    st,        \* where each daemon is
    events,    \* daemons started by hand, shutdowns, crashes and
               \* failures to connect so far
    client,    \* each client: where it is, the daemon it is connected to,
               \* SPAWNED_SERVER and ReconnectState.attempt
    unlinked   \* history: daemons whose socket was removed, while it was bound,
               \* by a process that did not hold the lock

vars == <<path, owner, st, events, client, unlinked>>

Process == Server \cup {Legacy}

Runs(d) == d # Nobody /\ st[d] # "off"
Accepts(d) == st[d] \in {"serving", "closing", "removed"}
Listens(d) == st[d] = "listening" \/ Accepts(d)

\* The daemon whose socket is removed with the file at the path.
Bereft == {d \in Process : path = d /\ (st[d] = "bound" \/ Listens(d))}

\* A connection to the path is accepted, or waits to be.
Answers == Runs(path) /\ Listens(path)

Closed == [at |-> "closed", link |-> Nobody, child |-> Nobody, served |-> FALSE, tries |-> 0]

\* Names for a new process, of client c if there is one: no trace is left of an older
\* process of that name.  Any of them will do.
Free(c) ==
    {d \in Server : /\ ~Runs(d) /\ path # d
                    /\ \A e \in Client : client[e].link # d
                                         /\ (e # c => client[e].child # d)}

\* Between a disconnection, or the start of the client, and its outcome.
Trying == {"retry", "probing", "unlink", "mistaken", "launch", "waiting", "refused",
           "shaking"}

TypeOK ==
    /\ path \in Process \cup {Nobody}
    /\ owner \in Server \cup {Nobody}
    /\ st \in [Process -> {"off", "starting", "locked", "probe", "check", "remove",
                           "rebind", "bound", "listening", "serving", "closing",
                           "removed", "late", "released"}]
    /\ events \in 0..MaxEvents
    /\ unlinked \subseteq Process
    /\ \A d \in Server : owner = d <=> st[d] \notin {"off", "starting", "late", "released"}
    /\ client \in [Client -> [at : Trying \cup {"new", "closed", "online", "halted"},
                              link : Process \cup {Nobody}, child : Server \cup {Nobody},
                              served : BOOLEAN, tries : 0..MaxAttempts]]
    /\ \A c \in Client : client[c].link # Nobody <=> client[c].at \in {"shaking", "online"}

\* Nothing at the path, an old daemon, or what one has left.
Init ==
    /\ path \in {Nobody, Legacy}
    /\ owner = Nobody
    /\ st \in {[d \in Process |-> "off"],
               [d \in Process |-> IF d = path THEN "serving" ELSE "off"]}
    /\ events = 0
    /\ client = [c \in Client |-> [Closed EXCEPT !.at = "new"]]
    /\ unlinked = {}

-----------------------------------------------------------------------------
(* The daemon: unix_socket::bind, one system call after the other.         *)

\* A step of daemon d to s that changes only the daemon, or the path as well.
Goes(d, s) == st' = [st EXCEPT ![d] = s] /\ UNCHANGED <<owner, events, client, unlinked>>

\* The process ends; what it holds is released.
Ends(d) ==
    /\ st' = [st EXCEPT ![d] = "off"]
    /\ owner' = IF owner = d THEN Nobody ELSE owner
    /\ unlinked' = unlinked \ {d}
    /\ UNCHANGED client

\* Started at login, or by hand.
Start ==
    /\ Free(Nobody) # {} /\ events < MaxEvents
    /\ st' = [st EXCEPT ![CHOOSE d \in Free(Nobody) : TRUE] = "starting"]
    /\ events' = events + 1
    /\ UNCHANGED <<path, owner, client, unlinked>>

\* The configuration cannot be read, say.
StartFails(d) ==
    /\ st[d] = "starting"
    /\ Ends(d)
    /\ UNCHANGED <<path, events>>

\* Mutant: the lock is taken by nobody.
LockNothing(d) ==
    /\ st[d] = "starting"
    /\ Goes(d, "locked")
    /\ UNCHANGED path

Lock(d) ==
    /\ st[d] = "starting"
    /\ \/ /\ owner = Nobody
          /\ owner' = d
          /\ st' = [st EXCEPT ![d] = "locked"]
          /\ UNCHANGED <<client, unlinked>>
       \/ owner # Nobody /\ Ends(d)
    /\ UNCHANGED <<path, events>>

Bind(d) ==
    /\ st[d] = "locked"
    /\ \/ path = Nobody /\ path' = d /\ Goes(d, "bound")
       \/ path # Nobody /\ UNCHANGED path /\ Goes(d, "probe")

\* Mutant: a socket that is in the way is taken for stale.
ProbeNothing(d) ==
    /\ st[d] = "probe"
    /\ Goes(d, "check")
    /\ UNCHANGED path

\* Somebody answers at the path: leave it to them.
Probe(d) ==
    /\ st[d] = "probe"
    /\ \/ Answers /\ Ends(d) /\ UNCHANGED events
       \/ ~Answers /\ Goes(d, "check")
    /\ UNCHANGED path

\* symlink_metadata, then remove_file, which fails if the file has gone since.
Check(d) ==
    /\ st[d] = "check"
    /\ Goes(d, IF path = Nobody THEN "rebind" ELSE "remove")
    /\ UNCHANGED path

Remove(d) ==
    /\ st[d] = "remove"
    /\ \/ path # Nobody /\ path' = Nobody /\ Goes(d, "rebind")
       \/ path = Nobody /\ Ends(d) /\ UNCHANGED <<path, events>>

Rebind(d) ==
    /\ st[d] = "rebind"
    /\ IF path = Nobody THEN path' = d /\ Goes(d, "bound")
                        ELSE Ends(d) /\ UNCHANGED <<path, events>>

\* From here on a connection is accepted.
Listen(d) ==
    /\ st[d] = "bound"
    /\ Goes(d, "listening")
    /\ UNCHANGED path

\* set_permissions fails if the file has gone since.
Permit(d) ==
    /\ st[d] = "listening"
    /\ IF path # Nobody THEN Goes(d, "serving") ELSE Ends(d) /\ UNCHANGED events
    /\ UNCHANGED path

\* The clients of K read ServerShutdown and exit; for the others there was no room.
Told(d) ==
    \E K \in SUBSET {c \in Client : client[c].at = "online" /\ client[c].link = d} :
        client' = [c \in Client |-> IF c \in K THEN Closed ELSE client[c]]

\* graceful_shutdown, whatever has asked for it, up to the unlocking of the state.
ShutDown(d) ==
    /\ st[d] = "serving" /\ events < MaxEvents
    /\ st' = [st EXCEPT ![d] = "closing"]
    /\ events' = events + 1
    /\ Told(d)
    /\ UNCHANGED <<path, owner, unlinked>>

\* The socket file goes, whoever's it is by now.
RemoveSocket(d) ==
    /\ st[d] \in {"closing", "late"}
    /\ path' = Nobody
    /\ st' = [st EXCEPT ![d] = IF @ = "late" THEN "released" ELSE "removed"]
    /\ unlinked' = IF st[d] = "late" THEN unlinked \cup Bereft ELSE unlinked
    /\ UNCHANGED <<owner, events, client>>

\* The accept loop ends, and the lock goes with it.  A second request for the shutdown
\* finds it under way, and ends the loop before the first one has removed the socket.
Release(d) ==
    /\ st[d] \in {"closing", "removed"}
    /\ st' = [st EXCEPT ![d] = IF @ = "closing" THEN "late" ELSE "released"]
    /\ owner' = Nobody
    /\ UNCHANGED <<path, events, client, unlinked>>

\* The runtime has waited for its tasks.
Exit(d) ==
    /\ st[d] = "released"
    /\ Ends(d)
    /\ UNCHANGED <<path, events>>

Crash(d) ==
    /\ Runs(d) /\ events < MaxEvents
    /\ Ends(d)
    /\ events' = events + 1
    /\ UNCHANGED path

\* An old daemon is told to quit, and removes the socket at the path.
LegacyEnds ==
    /\ Runs(Legacy)
    /\ st' = [st EXCEPT ![Legacy] = "off"]
    /\ path' = Nobody
    /\ unlinked' = (unlinked \cup Bereft) \ {Legacy}
    /\ UNCHANGED <<owner, events, client>>

-----------------------------------------------------------------------------
(* The client.  A failure that may pass starts the attempts anew, and so    *)
(* does every attempt that got as far as its thread.                        *)

Moves(c, r) == client' = [client EXCEPT ![c] = r] /\ UNCHANGED owner

Quiet == UNCHANGED <<path, st, events, unlinked>>

Waiting(r) == [r EXCEPT !.at = "waiting", !.tries = 0]
Disconnected(r) == [r EXCEPT !.at = "retry", !.link = Nobody, !.tries = 0]
Halted(r) == [r EXCEPT !.at = "halted", !.link = Nobody, !.tries = 0]

Open(c) ==
    /\ client[c].at = "new"
    /\ Moves(c, [Closed EXCEPT !.at = "probing"]) /\ Quiet

\* prepare_reconnect_plan, once the back-off time is over.
Retry(c) ==
    LET r == client[c]
    IN  /\ r.at = "retry"
        /\ Moves(c, IF r.tries >= MaxAttempts THEN Closed
                    ELSE [r EXCEPT !.at = "probing", !.tries = @ + 1])
        /\ Quiet

\* server_is_running: what does not answer is stale, and is removed.
ProbeServer(c) ==
    LET r == client[c]
    IN  /\ r.at = "probing"
        /\ Moves(c, IF Answers THEN Waiting(r)
                    ELSE [r EXCEPT !.at = IF path = Nobody THEN "launch" ELSE "unlink"])
        /\ Quiet

\* Any error counts as no answer: also no descriptor left, or an interrupted call.
ProbeFails(c) ==
    /\ client[c].at = "probing" /\ path # Nobody /\ events < MaxEvents
    /\ Moves(c, [client[c] EXCEPT !.at = "mistaken"])
    /\ events' = events + 1
    /\ UNCHANGED <<path, st, unlinked>>

\* Of an old daemon the history notes only what such an error has done.
Unlink(c) ==
    LET r == client[c]
    IN  /\ r.at \in {"unlink", "mistaken"}
        /\ path' = Nobody
        /\ unlinked' = unlinked \cup (IF r.at = "mistaken" THEN Bereft ELSE Bereft \cap Server)
        /\ Moves(c, [r EXCEPT !.at = "launch"])
        /\ UNCHANGED <<st, events>>

\* Not a second copy while the first one runs.  Without one, the error ends a client
\* that has just been opened, and is one of the attempts of another.
Launch(c) ==
    LET r == client[c]
        alone == [r EXCEPT !.child = Nobody, !.served = FALSE]
    IN  /\ r.at = "launch"
        /\ \/ /\ Runs(r.child)
              /\ Moves(c, Waiting(r)) /\ Quiet
           \/ /\ ~Runs(r.child)
              /\ Free(c) # {}
              /\ LET d == CHOOSE x \in Free(c) : TRUE
                 IN  /\ st' = [st EXCEPT ![d] = "starting"]
                     /\ Moves(c, Waiting([alone EXCEPT !.child = d]))
              /\ UNCHANGED <<path, events, unlinked>>
           \/ /\ ~Runs(r.child)
              /\ Moves(c, IF r.tries = 0 THEN Closed ELSE [alone EXCEPT !.at = "retry"])
              /\ Quiet

\* wait_for_local_server: one attempt, every 20 ms.  Whoever answers, the client's
\* own daemon counts as one that has served.
Connect(c) ==
    LET r == client[c]
    IN  /\ r.at = "waiting"
        /\ Moves(c, IF Answers
                    THEN [r EXCEPT !.at = "shaking", !.link = path,
                                   !.served = r.child # Nobody]
                    ELSE [r EXCEPT !.at = "refused"])
        /\ Quiet

\* spawned_server_state, having taken note of a daemon that has ended.
Noted(r) == IF Runs(r.child) THEN r ELSE [r EXCEPT !.child = Nobody, !.served = FALSE]

StartFailed(r) == r.child # Nobody /\ ~Runs(r.child) /\ ~r.served

\* Mutant: another copy is launched.
JudgeAgain(c) ==
    LET r == client[c]
    IN  /\ r.at = "refused"
        /\ Moves(c, IF StartFailed(r) THEN Disconnected(Noted(r))
                    ELSE [Noted(r) EXCEPT !.at = "waiting"])
        /\ Quiet

\* A daemon of ours that has ended without serving us is no use trying again.
Judge(c) ==
    LET r == client[c]
    IN  /\ r.at = "refused"
        /\ Moves(c, IF StartFailed(r) THEN Halted(Noted(r))
                    ELSE [Noted(r) EXCEPT !.at = "waiting"])
        /\ Quiet

\* After 15 s for a daemon of ours that runs, after 1 s for any other.
TimeOut(c) ==
    LET r == client[c]
    IN  /\ r.at = "refused" /\ ~StartFailed(r)
        /\ Moves(c, IF Noted(r).child # Nobody THEN Halted(r) ELSE Disconnected(Noted(r)))
        /\ Quiet

\* The server's hello.
Welcome(c) ==
    /\ client[c].at = "shaking" /\ Accepts(client[c].link)
    /\ Moves(c, [client[c] EXCEPT !.at = "online"]) /\ Quiet

\* The connection ends: before the hello for good, later to be made again.
Lost(c) ==
    LET r == client[c]
    IN  /\ r.link # Nobody /\ st[r.link] \in {"late", "released", "off"}
        /\ Moves(c, IF r.at = "shaking" THEN Halted(r) ELSE Disconnected(r))
        /\ Quiet

\* Esc.  Between two attempts nothing is left to show, and the client exits.
Cancel(c) ==
    LET r == client[c]
    IN  /\ \/ r.at \in {"waiting", "refused", "shaking"} /\ Moves(c, Halted(r))
           \/ r.at = "retry" /\ Moves(c, Closed)
        /\ Quiet

\* The banner is dismissed, or the window closed.
Leave(c) ==
    /\ client[c].at \in {"halted", "online"}
    /\ Moves(c, Closed) /\ Quiet

-----------------------------------------------------------------------------

ServerStep(d) ==
    \/ Lock(d) \/ Bind(d) \/ Probe(d) \/ Check(d) \/ Remove(d) \/ Rebind(d)
    \/ Listen(d) \/ Permit(d) \/ RemoveSocket(d) \/ Release(d) \/ Exit(d)

ClientStep(c) ==
    \/ Retry(c) \/ ProbeServer(c) \/ Unlink(c) \/ Launch(c)
    \/ Connect(c) \/ Judge(c) \/ Welcome(c) \/ Lost(c)

UserStep(c) == Open(c) \/ Cancel(c) \/ Leave(c)

Next ==
    \/ \E d \in Server : ServerStep(d) \/ StartFails(d) \/ ShutDown(d) \/ Crash(d)
    \/ Start \/ Crash(Legacy) \/ LegacyEnds
    \/ \E c \in Client : ClientStep(c) \/ TimeOut(c) \/ ProbeFails(c) \/ UserStep(c)

Spec == Init /\ [][Next]_vars

\* Processes run and time passes, also for a client that tries over and over.
FairSpec ==
    /\ Spec
    /\ \A d \in Server : WF_vars(ServerStep(d))
    /\ \A c \in Client : WF_vars(ClientStep(c)) /\ SF_vars(TimeOut(c))

-----------------------------------------------------------------------------
(* Properties.                                                             *)

\* A daemon that serves is the one at the path, so clients can reach it, whatever other
\* daemons start or end meanwhile: whoever holds the lock leaves it there.  Its socket
\* is lost only to a process without the lock: a client whose probe failed, a daemon
\* shut down twice (connection.rs:27, 50), an old daemon.
OneServer == \A d \in Server : st[d] = "serving" /\ d \notin unlinked => path = d

\* "A successful probe must preserve their socket and all their existing client
\* sessions" (unix_socket.rs:34): an old daemon keeps the path while it runs, unless a
\* client could not connect to it for another reason than that nobody answers.
LegacyKept == Runs(Legacy) /\ Legacy \notin unlinked => path = Legacy

\* Every client that tries ends up online, with a reason on the screen, or closed:
\* it does not launch copy after copy of a daemon that cannot start.  That it does not
\* give up too early is not said: a reason on the screen counts as an end.
Settles == \A c \in Client : client[c].at \in Trying ~> client[c].at \notin Trying

\* "so neither spawns a duplicate daemon over a live one (which would corrupt the
\* per-user socket)" (connection.rs:667): the socket of a live daemon stays.
LiveSocketKept == \A d \in Server : st[d] = "serving" => path = d
=============================================================================
