------------------------- MODULE LocalServerProofs -------------------------
(***************************************************************************)
(* LocalServer for any clients and daemons, and any number of attempts,    *)
(* starts, shutdowns and crashes: types with the ownership of the lock, one daemon *)
(* at the path, and the path of an old daemon, as far as the lock goes.    *)
(***************************************************************************)
EXTENDS LocalServer, TLAPS

States == {"off", "starting", "locked", "probe", "check", "remove",
           "rebind", "bound", "listening", "serving", "closing", "removed",
           "late", "released"}

\* Where a daemon holds the lock.
Owning == States \ {"off", "starting", "late", "released"}

Places == Trying \cup {"new", "closed", "online", "halted"}

Records == [at : Places, link : Process \cup {Nobody}, child : Server \cup {Nobody},
            served : BOOLEAN, tries : 0..MaxAttempts]

Linked(r) == r.link # Nobody <=> r.at \in {"shaking", "online"}

\* The two halves of TypeOK.
ClientTypes ==
    /\ client \in [Client -> Records]
    /\ \A c \in Client : Linked(client[c])

DaemonTypes ==
    /\ path \in Process \cup {Nobody}
    /\ owner \in Server \cup {Nobody}
    /\ st \in [Process -> States]
    /\ events \in 0..MaxEvents
    /\ unlinked \subseteq Process
    /\ \A d \in Server : owner = d <=> st[d] \notin {"off", "starting", "late", "released"}

\* Why an old daemon keeps the path: while it runs it answers, so nobody who has
\* found that nobody answers there can be about to take the path from it.
OldAnswers == st[Legacy] \in {"off", "serving"}

OldGone == Runs(Legacy) => Legacy \in unlinked

\* A daemon that is about to take the path, or may remove what is there later.
Cleared == {"check", "remove", "bound", "listening", "serving", "closing", "late"}

ServersCleared == \A d \in Server : st[d] \in Cleared => OldGone

ClientsCleared == \A c \in Client : client[c].at = "unlink" => OldGone

\* From bind on, the socket of a daemon is at the path.
Seated == {"bound", "listening", "serving"}

OwnPath == \A d \in Server : st[d] \in Seated /\ d \notin unlinked => path = d

DaemonInv == DaemonTypes /\ OwnPath /\ LegacyKept /\ OldAnswers /\ ServersCleared

ServerInv == ClientTypes /\ DaemonInv /\ ClientsCleared

\* A step that may count as one of the events that are bounded.
EventCounted == events' = events \/ (events < MaxEvents /\ events' = events + 1)

USE ServerAssumption DEF ServerAssumption, Process

LEMMA Halves == TypeOK <=> ClientTypes /\ DaemonTypes
  BY DEF TypeOK, ClientTypes, DaemonTypes, States, Records, Places, Linked

-----------------------------------------------------------------------------
(* What the client's record becomes.                                       *)

LEMMA AllPlaces ==
  /\ \A s \in {"retry", "probing", "unlink", "mistaken", "launch", "waiting", "refused",
               "shaking", "new", "closed", "online", "halted"} : s \in Places
  /\ 0 \in 0..MaxAttempts
BY DEF Places, Trying

\* A step of client c.
AnyClientStep(c) == ClientStep(c) \/ TimeOut(c) \/ ProbeFails(c) \/ UserStep(c)

LEMMA NewRecord ==
  LET r == [Closed EXCEPT !.at = "new"] IN r \in Records /\ Linked(r) /\ r.at = "new"
BY AllPlaces DEF Closed, Records, Linked

LEMMA ClosedRecord ==
  Closed \in Records /\ Linked(Closed) /\ Closed.at = "closed" /\ Closed.link = Nobody
BY AllPlaces DEF Closed, Records, Linked

\* A client without a connection goes to a place without one.
LEMMA AtRecord ==
  ASSUME NEW r \in Records, NEW s \in Places \ {"shaking", "online"}, r.link = Nobody
  PROVE  LET q == [r EXCEPT !.at = s] IN q \in Records /\ Linked(q) /\ q.at = s
BY DEF Records, Linked

LEMMA RetryRecord ==
  ASSUME NEW r \in Records, r.link = Nobody, NEW t \in 0..MaxAttempts
  PROVE  LET q == [r EXCEPT !.at = "probing", !.tries = t]
         IN  q \in Records /\ Linked(q) /\ q.at = "probing"
BY AllPlaces DEF Records, Linked

LEMMA WaitingRecord ==
  ASSUME NEW r \in Records, r.link = Nobody
  PROVE  Waiting(r) \in Records /\ Linked(Waiting(r)) /\ Waiting(r).at = "waiting"
BY AllPlaces DEF Records, Linked, Waiting

LEMMA DisconnectedRecord ==
  ASSUME NEW r \in Records
  PROVE  Disconnected(r) \in Records /\ Linked(Disconnected(r)) /\ Disconnected(r).at = "retry"
BY AllPlaces DEF Records, Linked, Disconnected

LEMMA HaltedRecord ==
  ASSUME NEW r \in Records
  PROVE  Halted(r) \in Records /\ Linked(Halted(r)) /\ Halted(r).at = "halted"
BY AllPlaces DEF Records, Linked, Halted

\* Forgetting the daemon that was launched, or noting a new one.
LEMMA AloneRecord ==
  ASSUME NEW r \in Records
  PROVE  LET q == [r EXCEPT !.child = Nobody, !.served = FALSE]
         IN  q \in Records /\ q.at = r.at /\ q.link = r.link
BY DEF Records

LEMMA ChildRecord ==
  ASSUME NEW r \in Records, NEW d \in Server
  PROVE  LET q == [r EXCEPT !.child = d]
         IN  q \in Records /\ q.at = r.at /\ q.link = r.link
BY DEF Records

LEMMA NotedRecord ==
  ASSUME NEW r \in Records
  PROVE  Noted(r) \in Records /\ Noted(r).at = r.at /\ Noted(r).link = r.link
BY DEF Records, Noted

\* Every step of a client moves it to a well-formed record, and it decides to remove
\* the socket only when nobody answers there.
LEMMA ClientMoves ==
  ASSUME ClientTypes, path \in Process \cup {Nobody}, NEW c \in Client,
         AnyClientStep(c)
  PROVE  \E q \in Records : Moves(c, q) /\ Linked(q) /\ (q.at = "unlink" => ~Answers)
<1>. DEFINE r == client[c]
            Good(q) == q \in Records /\ Linked(q) /\ (q.at = "unlink" => ~Answers)
<1>1. r \in Records /\ Linked(r)
  BY DEF ClientTypes
<1>. SUFFICES \E q : Moves(c, q) /\ Good(q)
  OBVIOUS
<1>. HIDE DEF r, Good
<1>2. r.at \in (Trying \ {"shaking"}) \cup {"new", "closed", "halted"} => r.link = Nobody
  BY <1>1 DEF Linked, Trying
<1>3. Good(Closed)
  BY ClosedRecord DEF Good
<1>4. ASSUME r.link = Nobody, NEW s \in Places \ {"shaking", "online", "unlink"}
      PROVE  Good([r EXCEPT !.at = s])
  BY <1>1, <1>4, AtRecord DEF Good
<1>5. r.link = Nobody => Good(Waiting(r))
  BY <1>1, WaitingRecord DEF Good
<1>6. Good(Disconnected(r)) /\ Good(Halted(r))
  BY <1>1, DisconnectedRecord, HaltedRecord DEF Good
<1>7. Good(Disconnected(Noted(r))) /\ Good(Halted(Noted(r)))
  BY <1>1, NotedRecord, DisconnectedRecord, HaltedRecord DEF Good
<1>10. CASE Open(c)
  <2>1. Good([Closed EXCEPT !.at = "probing"])
    BY ClosedRecord, AtRecord, AllPlaces DEF Good
  <2>. QED
    BY <1>10, <2>1 DEF Open
<1>11. CASE Retry(c)
  <2>. DEFINE q == [r EXCEPT !.at = "probing", !.tries = @ + 1]
  <2>1. r.at = "retry" /\ r.link = Nobody
    BY <1>11, <1>2 DEF Retry, Trying, r
  <2>2. r.tries \in 0..MaxAttempts
    BY <1>1 DEF Records
  <2>3. ~(r.tries >= MaxAttempts) => Good(q)
    <3>1. SUFFICES ASSUME ~(r.tries >= MaxAttempts) PROVE Good(q)
      OBVIOUS
    <3>2. r.tries + 1 \in 0..MaxAttempts
      BY <2>2, <3>1
    <3>. QED
      BY <1>1, <2>1, <3>2, RetryRecord DEF Good
  <2>4. Moves(c, IF r.tries >= MaxAttempts THEN Closed ELSE q)
    BY <1>11 DEF Retry, r
  <2>. HIDE DEF q
  <2>5. CASE r.tries >= MaxAttempts
    BY <1>3, <2>4, <2>5
  <2>6. CASE ~(r.tries >= MaxAttempts)
    BY <2>3, <2>4, <2>6
  <2>. QED
    BY <2>5, <2>6
<1>12. CASE ProbeServer(c)
  <2>. DEFINE s == IF path = Nobody THEN "launch" ELSE "unlink"
  <2>1. r.link = Nobody
    BY <1>12, <1>2 DEF ProbeServer, Trying, r
  <2>2. ~Answers => Good([r EXCEPT !.at = s])
    BY <1>1, <2>1, AtRecord, AllPlaces DEF Good
  <2>. QED
    BY <1>12, <1>5, <2>1, <2>2 DEF ProbeServer, r
<1>13. CASE Unlink(c)
  <2>1. r.link = Nobody
    BY <1>13, <1>2 DEF Unlink, Trying, r
  <2>2. Good([r EXCEPT !.at = "launch"])
    BY <1>4, <2>1, AllPlaces
  <2>. QED
    BY <1>13, <2>2 DEF Unlink, r
<1>14. CASE Launch(c)
  <2>. DEFINE alone == [r EXCEPT !.child = Nobody, !.served = FALSE]
  <2>1. r.link = Nobody
    BY <1>14, <1>2 DEF Launch, Trying, r
  <2>2. alone \in Records /\ alone.link = Nobody
    BY <1>1, <2>1, AloneRecord
  <2>3. Moves(c, Waiting(r)) \/ (\E d \in Server : Moves(c, Waiting([alone EXCEPT !.child = d])))
        \/ Moves(c, Closed) \/ Moves(c, [alone EXCEPT !.at = "retry"])
    BY <1>14 DEF Launch, r, Free
  <2>. HIDE DEF alone
  <2>4. ASSUME NEW d \in Server PROVE Good(Waiting([alone EXCEPT !.child = d]))
    BY <2>2, ChildRecord, WaitingRecord DEF Good
  <2>5. Good([alone EXCEPT !.at = "retry"])
    BY <2>2, AtRecord, AllPlaces DEF Good
  <2>. QED
    BY <1>3, <1>5, <2>1, <2>3, <2>4, <2>5
<1>15. CASE Connect(c)
  <2>1. r.link = Nobody
    BY <1>15, <1>2 DEF Connect, Trying, r
  <2>2. Good([r EXCEPT !.at = "refused"])
    BY <1>4, <2>1, AllPlaces
  <2>3. Answers => Good([r EXCEPT !.at = "shaking", !.link = path,
                                  !.served = r.child # Nobody])
    BY <1>1, AllPlaces DEF Good, Records, Linked, Answers, Runs
  <2>. QED
    BY <1>15, <2>2, <2>3 DEF Connect, r
<1>16. CASE Judge(c)
  <2>1. r.link = Nobody
    BY <1>16, <1>2 DEF Judge, Trying, r
  <2>2. Good([Noted(r) EXCEPT !.at = "waiting"])
    BY <1>1, <2>1, NotedRecord, AtRecord, AllPlaces DEF Good
  <2>. QED
    BY <1>16, <1>7, <2>2 DEF Judge, r
<1>17. CASE TimeOut(c)
  BY <1>17, <1>6, <1>7 DEF TimeOut, r
<1>18. CASE Welcome(c)
  <2>1. Good([r EXCEPT !.at = "online"])
    BY <1>1, <1>18, AllPlaces DEF Good, Records, Linked, Welcome, r
  <2>. QED
    BY <1>18, <2>1 DEF Welcome, r
<1>19. CASE Lost(c)
  BY <1>19, <1>6 DEF Lost, r
<1>20. CASE Cancel(c)
  BY <1>20, <1>3, <1>6 DEF Cancel, r
<1>21. CASE Leave(c)
  BY <1>21, <1>3 DEF Leave
<1>22. CASE ProbeFails(c)
  <2>1. r.link = Nobody
    BY <1>2, <1>22 DEF ProbeFails, Trying, r
  <2>2. Good([r EXCEPT !.at = "mistaken"])
    BY <1>4, <2>1, AllPlaces
  <2>. QED
    BY <1>22, <2>2 DEF ProbeFails, r
<1>. QED
  BY <1>10, <1>11, <1>12, <1>13, <1>14, <1>15, <1>16, <1>17, <1>18, <1>19, <1>20,
     <1>21, <1>22 DEF AnyClientStep, ClientStep, UserStep

\* What a client's step does to the daemons: nothing, or it counts as an event, or it
\* removes the socket, or a process starts.
LEMMA ClientTouches ==
  ASSUME NEW c \in Client, AnyClientStep(c)
  PROVE  /\ UNCHANGED owner
         /\ \/ Quiet
            \/ UNCHANGED <<path, st, unlinked>> /\ events < MaxEvents /\ events' = events + 1
            \/ Unlink(c)
            \/ /\ UNCHANGED <<path, events, unlinked>>
               /\ \E d \in Server : ~Runs(d) /\ st' = [st EXCEPT ![d] = "starting"]
<1>1. CASE Launch(c)
  BY <1>1 DEF Launch, Moves, Free, Quiet
<1>2. CASE Unlink(c)
  BY <1>2 DEF Unlink, Moves
<1>3. CASE ProbeFails(c)
  BY <1>3 DEF ProbeFails, Moves
<1>. QED
  BY <1>1, <1>2, <1>3 DEF AnyClientStep, ClientStep, UserStep, TimeOut, Open, Retry,
     ProbeServer, Connect, Judge, Welcome, Lost, Cancel, Leave, Moves
-----------------------------------------------------------------------------
(* The invariant is kept.                                                  *)

\* A well-formed record for one client, when old daemons do not start.
LEMMA ClientsMoved ==
  ASSUME ClientTypes, ClientsCleared, NEW c \in Client, NEW q \in Records, Linked(q),
         Moves(c, q), q.at = "unlink" => OldGone, OldGone => OldGone'
  PROVE  ClientTypes' /\ ClientsCleared'
BY DEF ClientTypes, ClientsCleared, Moves, Linked

\* The steps of the daemons leave the clients alone, or end some of them.
LEMMA ClientsTold ==
  ASSUME ClientTypes, ClientsCleared, OldGone => OldGone',
         UNCHANGED client \/ \E d \in Server : Told(d)
  PROVE  ClientTypes' /\ ClientsCleared'
<1>1. CASE UNCHANGED client
  BY <1>1 DEF ClientTypes, ClientsCleared, Linked
<1>2. ASSUME NEW K, client' = [c \in Client |-> IF c \in K THEN Closed ELSE client[c]]
      PROVE  ClientTypes' /\ ClientsCleared'
  BY <1>2, ClosedRecord DEF ClientTypes, ClientsCleared, Linked
<1>. QED
  BY <1>1, <1>2 DEF Told

\* While an old daemon runs it is at the path and answers.
LEMMA OldAtPath ==
  ASSUME DaemonInv, ~OldGone
  PROVE  path = Legacy /\ Answers
BY DEF OldGone, DaemonInv, LegacyKept, OldAnswers, Answers, Listens, Accepts, Runs

\* A process starts.
LEMMA Started ==
  ASSUME DaemonInv, NEW d \in Server, ~Runs(d), st' = [st EXCEPT ![d] = "starting"],
         UNCHANGED <<path, owner, unlinked>>, EventCounted
  PROVE  DaemonInv' /\ (OldGone => OldGone')
<1>1. st[d] = "off"
  BY DEF Runs
<1>2. DaemonTypes'
  BY <1>1 DEF DaemonInv, DaemonTypes, States, EventCounted
<1>3. OwnPath'
  BY DEF DaemonInv, DaemonTypes, OwnPath, Seated
<1>4. Runs(Legacy)' <=> Runs(Legacy)
  BY DEF DaemonInv, DaemonTypes, Runs
<1>5. LegacyKept' /\ OldAnswers' /\ ServersCleared' /\ (OldGone => OldGone')
  BY <1>4 DEF DaemonInv, DaemonTypes, LegacyKept, OldAnswers, ServersCleared, OldGone, Cleared
<1>. QED
  BY <1>2, <1>3, <1>5 DEF DaemonInv

\* A daemon that holds the lock takes a step that changes nothing but itself and perhaps
\* the path, and keeps the lock.
LEMMA Gone ==
  ASSUME DaemonInv, NEW d \in Server, NEW s \in Owning,
         owner = d, st' = [st EXCEPT ![d] = s], UNCHANGED <<owner, unlinked>>, EventCounted,
         path' \in {path, d, Nobody},
         path' # path => OldGone,
         s \in Cleared => OldGone,
         s \in Seated => path' = d \/ d \in unlinked
  PROVE  DaemonInv' /\ (OldGone => OldGone')
<1>1. DaemonTypes'
  BY DEF DaemonInv, DaemonTypes, Owning, EventCounted
<1>2. OwnPath'
  BY DEF DaemonInv, DaemonTypes, OwnPath, Seated, Owning
<1>3. Runs(Legacy)' <=> Runs(Legacy)
  BY DEF DaemonInv, DaemonTypes, Runs
<1>4. LegacyKept' /\ OldAnswers' /\ ServersCleared' /\ (OldGone => OldGone')
  BY <1>3 DEF DaemonInv, DaemonTypes, LegacyKept, OldAnswers, ServersCleared, OldGone
<1>. QED
  BY <1>1, <1>2, <1>4 DEF DaemonInv

\* A daemon ends.
LEMMA Ended ==
  ASSUME DaemonInv, NEW d \in Process, Ends(d), UNCHANGED path, EventCounted
  PROVE  DaemonInv' /\ (OldGone => OldGone')
<1>1. DaemonTypes'
  BY DEF DaemonInv, DaemonTypes, Ends, States, EventCounted
<1>2. OwnPath'
  BY DEF DaemonInv, DaemonTypes, OwnPath, Ends, Seated
<1>3. Runs(Legacy)' => Runs(Legacy) /\ d # Legacy
  BY DEF DaemonInv, DaemonTypes, Runs, Ends
<1>4. OldGone => OldGone'
  BY <1>3 DEF OldGone, Ends
<1>5. LegacyKept' /\ OldAnswers'
  BY <1>3 DEF DaemonInv, DaemonTypes, LegacyKept, OldAnswers, Ends
<1>6. ServersCleared'
  BY <1>4 DEF DaemonInv, DaemonTypes, ServersCleared, Ends, Cleared
<1>. QED
  BY <1>1, <1>2, <1>4, <1>5, <1>6 DEF DaemonInv

\* The file at the path goes, and with it the socket of a daemon, which is noted.
LEMMA Emptied ==
  ASSUME DaemonInv, path' = Nobody, Bereft \cap Server \subseteq unlinked',
         \A d \in Server : d \in unlinked => d \in unlinked',
         \A d \in Server : st'[d] \in Seated => st'[d] = st[d]
  PROVE  OwnPath'
BY DEF DaemonInv, DaemonTypes, OwnPath, Bereft, Seated, Listens, Accepts

LEMMA ClientStepInv ==
  ASSUME ServerInv, NEW c \in Client, AnyClientStep(c)
  PROVE  ServerInv'
<1>1. ClientTypes /\ DaemonInv /\ ClientsCleared /\ path \in Process \cup {Nobody}
  BY DEF ServerInv, DaemonInv, DaemonTypes
<1>2. PICK q \in Records : Moves(c, q) /\ Linked(q) /\ (q.at = "unlink" => ~Answers)
  BY <1>1, ClientMoves
<1>3. q.at = "unlink" => OldGone
  BY <1>1, <1>2, OldAtPath
<1>4. CASE UNCHANGED <<path, st, unlinked, owner>> /\ EventCounted
  <2>1. DaemonTypes'
    BY <1>1, <1>4 DEF DaemonInv, DaemonTypes, EventCounted
  <2>2. DaemonInv' /\ (OldGone => OldGone')
    BY <1>1, <1>4, <2>1 DEF DaemonInv, OwnPath, LegacyKept, OldAnswers, ServersCleared,
       OldGone, Runs
  <2>. QED
    BY <1>1, <1>2, <1>3, <2>2, ClientsMoved DEF ServerInv
<1>5. CASE Unlink(c)
  <2>1. path' = Nobody /\ UNCHANGED <<st, owner, events>>
    BY <1>2, <1>5 DEF Unlink, Moves
  <2>2. /\ unlinked \subseteq unlinked' /\ unlinked' \subseteq unlinked \cup Bereft
        /\ Bereft \cap Server \subseteq unlinked'
    BY <1>5 DEF Unlink
  <2>3. Legacy \in Bereft => Legacy \in unlinked' \/ OldGone
    BY <1>1, <1>5 DEF Unlink, ClientsCleared
  <2>4. DaemonTypes'
    BY <1>1, <2>1, <2>2 DEF DaemonInv, DaemonTypes, Bereft
  <2>5. OwnPath'
    BY <1>1, <2>1, <2>2, Emptied
  <2>6. OldGone'
    <3>1. CASE OldGone
      BY <2>1, <2>2, <3>1 DEF OldGone, Runs
    <3>2. CASE ~OldGone
      <4>1. Legacy \in Bereft
        BY <1>1, <3>2, OldAtPath DEF Bereft, Answers
      <4>. QED
        BY <2>3, <3>2, <4>1 DEF OldGone
    <3>. QED
      BY <3>1, <3>2
  <2>7. LegacyKept' /\ OldAnswers' /\ ServersCleared'
    BY <1>1, <2>1, <2>6 DEF DaemonInv, OldGone, LegacyKept, OldAnswers, ServersCleared
  <2>. QED
    BY <1>1, <1>2, <1>3, <2>4, <2>5, <2>6, <2>7, ClientsMoved DEF ServerInv, DaemonInv
<1>6. ASSUME UNCHANGED <<path, unlinked, owner, events>>, NEW d \in Server, ~Runs(d),
             st' = [st EXCEPT ![d] = "starting"]
      PROVE  ServerInv'
  <2>1. DaemonInv' /\ (OldGone => OldGone')
    BY <1>1, <1>6, Started DEF EventCounted
  <2>. QED
    BY <1>1, <1>2, <1>3, <2>1, ClientsMoved DEF ServerInv
<1>. QED
  BY <1>4, <1>5, <1>6, ClientTouches DEF Quiet, EventCounted

LEMMA ServerStepInv ==
  ASSUME ServerInv,
         NEW d \in Server, ServerStep(d) \/ StartFails(d) \/ ShutDown(d) \/ Crash(d)
  PROVE  ServerInv'
<1>1. ClientTypes /\ DaemonInv /\ ClientsCleared /\ DaemonTypes /\ d \in Process
  BY DEF ServerInv, DaemonInv
<1>. DEFINE Kept == DaemonInv' /\ (OldGone => OldGone')
<1>2. SUFFICES Kept /\ (UNCHANGED client \/ Told(d))
  BY <1>1, ClientsTold DEF ServerInv
<1>3. ASSUME Ends(d), UNCHANGED path, EventCounted
      PROVE  Kept /\ UNCHANGED client
  BY <1>1, <1>3, Ended DEF Ends
<1>4. ASSUME NEW s \in Owning, owner = d, Goes(d, s),
             path' \in {path, d, Nobody}, path' # path => OldGone,
             s \in Cleared => OldGone,
             s \in Seated => path' = d \/ d \in unlinked
      PROVE  Kept /\ UNCHANGED client
  BY <1>1, <1>4, Gone DEF Goes, EventCounted
<1>5. path = Nobody => OldGone
  BY <1>1 DEF DaemonInv, LegacyKept, OldGone
<1>6. st[d] \in Cleared => OldGone
  BY <1>1 DEF DaemonInv, ServersCleared
<1>7. st[d] \notin {"off", "starting", "late", "released"} => owner = d
  BY <1>1 DEF DaemonTypes
<1>8. \A s \in {"locked", "probe", "check", "remove", "rebind", "bound", "listening",
                "serving", "closing", "removed"} : s \in Owning
  BY DEF States, Owning
<1>9. st[d] \in Seated => path = d \/ d \in unlinked
  BY <1>1 DEF DaemonInv, OwnPath
<1>10. CASE StartFails(d)
  BY <1>3, <1>10 DEF StartFails, EventCounted
<1>11. CASE Lock(d)
  <2>1. CASE Ends(d) /\ UNCHANGED <<path, events>>
    BY <1>3, <2>1 DEF EventCounted
  <2>2. CASE /\ owner = Nobody /\ owner' = d /\ st' = [st EXCEPT ![d] = "locked"]
             /\ UNCHANGED <<client, unlinked, path, events>>
    <3>1. DaemonTypes'
      BY <1>1, <2>2 DEF DaemonTypes, States
    <3>2. Runs(Legacy)' <=> Runs(Legacy)
      BY <1>1, <2>2 DEF DaemonTypes, Runs
    <3>3. OwnPath' /\ LegacyKept' /\ OldAnswers' /\ ServersCleared' /\ (OldGone => OldGone')
      BY <1>1, <2>2, <3>2 DEF DaemonTypes, DaemonInv, OwnPath, LegacyKept, OldAnswers,
         ServersCleared, OldGone, Seated, Cleared
    <3>. QED
      BY <2>2, <3>1, <3>3 DEF DaemonInv
  <2>. QED
    BY <1>11, <2>1, <2>2 DEF Lock
<1>12. CASE Bind(d)
  BY <1>4, <1>5, <1>7, <1>8, <1>12 DEF Bind, Seated, Cleared
<1>13. CASE Probe(d)
  <2>1. CASE Ends(d) /\ UNCHANGED <<path, events>>
    BY <1>3, <2>1 DEF EventCounted
  <2>2. CASE st[d] = "probe" /\ ~Answers /\ Goes(d, "check") /\ UNCHANGED path
    BY <1>1, <1>4, <1>7, <1>8, <2>2, OldAtPath DEF Seated
  <2>. QED
    BY <1>13, <2>1, <2>2 DEF Probe
<1>14. CASE Check(d)
  BY <1>4, <1>6, <1>7, <1>8, <1>14 DEF Check, Seated, Cleared
<1>15. CASE Remove(d)
  BY <1>3, <1>4, <1>6, <1>7, <1>8, <1>15 DEF Remove, Seated, Cleared, EventCounted
<1>16. CASE Rebind(d)
  BY <1>3, <1>4, <1>5, <1>7, <1>8, <1>16 DEF Rebind, Seated, Cleared, EventCounted
<1>17. CASE Listen(d)
  BY <1>4, <1>6, <1>7, <1>8, <1>9, <1>17 DEF Listen, Seated, Cleared
<1>18. CASE Permit(d)
  BY <1>3, <1>4, <1>6, <1>7, <1>8, <1>9, <1>18 DEF Permit, Seated, Cleared, EventCounted
<1>19. CASE RemoveSocket(d)
  <2>1. CASE st[d] = "closing"
    <3>1. Goes(d, "removed") /\ path' = Nobody
      BY <1>19, <2>1 DEF RemoveSocket, Goes
    <3>. QED
      BY <1>4, <1>6, <1>7, <1>8, <2>1, <3>1 DEF Seated, Cleared
  <2>2. CASE st[d] = "late"
    <3>1. /\ st' = [st EXCEPT ![d] = "released"] /\ path' = Nobody
          /\ unlinked' = unlinked \cup Bereft /\ UNCHANGED <<owner, events, client>>
      BY <1>19, <2>2 DEF RemoveSocket
    <3>2. DaemonTypes'
      BY <1>1, <2>2, <3>1 DEF DaemonTypes, States, Bereft
    <3>3. OwnPath'
      BY <1>1, <3>1, Emptied DEF DaemonTypes, Seated
    <3>4. Runs(Legacy)' <=> Runs(Legacy)
      BY <1>1, <3>1 DEF DaemonTypes, Runs
    <3>5. OldGone'
      BY <1>6, <2>2, <3>1, <3>4 DEF OldGone, Cleared
    <3>6. LegacyKept' /\ OldAnswers' /\ ServersCleared'
      BY <1>1, <3>1, <3>5 DEF DaemonTypes, DaemonInv, LegacyKept, OldAnswers, ServersCleared,
         OldGone
    <3>. QED
      BY <3>1, <3>2, <3>3, <3>5, <3>6 DEF DaemonInv
  <2>. QED
    BY <1>19, <2>1, <2>2 DEF RemoveSocket
<1>20. CASE Release(d)
  <2>. DEFINE s == IF st[d] = "closing" THEN "late" ELSE "released"
  <2>1. st' = [st EXCEPT ![d] = s] /\ owner' = Nobody /\ owner = d
        /\ UNCHANGED <<path, events, client, unlinked>>
    BY <1>7, <1>20 DEF Release
  <2>2. s \in {"late", "released"} /\ (s = "late" => OldGone)
    BY <1>6 DEF Cleared
  <2>. HIDE DEF s
  <2>3. DaemonTypes'
    BY <1>1, <2>1, <2>2 DEF DaemonTypes, States
  <2>4. Runs(Legacy)' <=> Runs(Legacy)
    BY <1>1, <2>1 DEF DaemonTypes, Runs
  <2>5. OwnPath' /\ LegacyKept' /\ OldAnswers' /\ ServersCleared' /\ (OldGone => OldGone')
    BY <1>1, <2>1, <2>2, <2>4 DEF DaemonTypes, DaemonInv, OwnPath, LegacyKept, OldAnswers,
       ServersCleared, OldGone, Seated, Cleared
  <2>. QED
    BY <2>1, <2>3, <2>5 DEF DaemonInv
<1>21. CASE Exit(d)
  BY <1>3, <1>21 DEF Exit, EventCounted
<1>22. CASE ShutDown(d)
  <2>1. DaemonInv' /\ (OldGone => OldGone')
    BY <1>1, <1>6, <1>7, <1>8, <1>22, Gone DEF ShutDown, EventCounted, Seated, Cleared
  <2>. QED
    BY <1>22, <2>1 DEF ShutDown
<1>23. CASE Crash(d)
  BY <1>3, <1>23 DEF Crash, EventCounted
<1>. QED
  BY <1>10, <1>11, <1>12, <1>13, <1>14, <1>15, <1>16, <1>17, <1>18, <1>19, <1>20, <1>21,
     <1>22, <1>23 DEF ServerStep

\* The end of the old daemon.
LEMMA LegacyStepInv ==
  ASSUME ServerInv, Crash(Legacy) \/ LegacyEnds
  PROVE  ServerInv'
<1>1. ClientTypes /\ DaemonInv /\ ClientsCleared /\ DaemonTypes
  BY DEF ServerInv, DaemonInv
<1>2. CASE Crash(Legacy)
  <2>1. DaemonInv' /\ (OldGone => OldGone') /\ UNCHANGED client
    BY <1>1, <1>2, Ended DEF Crash, Ends, EventCounted
  <2>. QED
    BY <1>1, <2>1, ClientsTold DEF ServerInv
<1>3. CASE LegacyEnds
  <2>1. ~Runs(Legacy)' /\ UNCHANGED client
    BY <1>1, <1>3 DEF LegacyEnds, DaemonTypes, Runs
  <2>2. DaemonTypes'
    BY <1>1, <1>3 DEF LegacyEnds, DaemonTypes, States, Bereft
  <2>3. OwnPath'
    BY <1>1, <1>3, Emptied DEF LegacyEnds, DaemonTypes
  <2>4. OldGone' /\ LegacyKept' /\ OldAnswers' /\ ServersCleared'
    BY <1>1, <1>3, <2>1 DEF LegacyEnds, DaemonTypes, OldGone, LegacyKept, OldAnswers,
       ServersCleared
  <2>. QED
    BY <1>1, <2>1, <2>2, <2>3, <2>4, ClientsTold DEF ServerInv, DaemonInv
<1>. QED
  BY <1>2, <1>3

\* The first state satisfies the inductive invariant.
LEMMA InitServer == Init => ServerInv
<1>. SUFFICES ASSUME Init PROVE ServerInv
  OBVIOUS
<1>1. ClientTypes /\ ClientsCleared
  BY NewRecord DEF Init, ClientTypes, ClientsCleared
<1>2. DaemonTypes
  BY DEF Init, DaemonTypes, States
<1>3. OwnPath /\ LegacyKept /\ OldAnswers /\ ServersCleared
  BY DEF Init, OwnPath, LegacyKept, OldAnswers, ServersCleared, Runs, Seated, Cleared
<1>. QED
  BY <1>1, <1>2, <1>3 DEF ServerInv, DaemonInv

LEMMA StutterServer ==
  ASSUME ServerInv, UNCHANGED vars
  PROVE  ServerInv'
<1>1. ClientTypes' /\ ClientsCleared'
  BY DEF ServerInv, vars, ClientTypes, ClientsCleared, OldGone, Runs, Linked
<1>2. DaemonInv'
  BY DEF ServerInv, vars, DaemonInv, DaemonTypes, OwnPath, LegacyKept, OldAnswers,
     ServersCleared, OldGone, Runs
<1>. QED
  BY <1>1, <1>2 DEF ServerInv

\* A process that is started by hand.
LEMMA StartInv ==
  ASSUME ServerInv, Start
  PROVE  ServerInv'
<1>1. ClientTypes /\ DaemonInv /\ ClientsCleared
  BY DEF ServerInv
<1>2. PICK d \in Server : ~Runs(d) /\ st' = [st EXCEPT ![d] = "starting"]
  BY DEF Start, Free
<1>3. UNCHANGED <<path, owner, client, unlinked>> /\ EventCounted
  BY DEF Start, EventCounted
<1>4. DaemonInv' /\ (OldGone => OldGone')
  BY <1>1, <1>2, <1>3, Started
<1>. QED
  BY <1>1, <1>3, <1>4, ClientsTold DEF ServerInv

LEMMA ServerInvariant == Spec => []ServerInv
<1>1. ServerInv /\ [Next]_vars => ServerInv'
  BY ServerStepInv, ClientStepInv, LegacyStepInv, StartInv, StutterServer
     DEF Next, AnyClientStep
<1>. QED
  BY InitServer, <1>1, PTL DEF Spec

-----------------------------------------------------------------------------
(* The theorems.                                                           *)

\* Every variable keeps its type, and the daemon between the lock and its release is
\* the one owner of the lock file.
THEOREM ServerTypes == Spec => []TypeOK
  BY ServerInvariant, Halves, PTL DEF ServerInv, DaemonInv

\* Whatever daemons start, end and crash: the daemon that serves is the one at the path,
\* or its socket was removed by a process that did not hold the lock, a client, a daemon
\* that let go of it early, or an old one.
THEOREM OneOwner == Spec => []OneServer
<1>1. ServerInv => OneServer
  BY DEF ServerInv, DaemonInv, OwnPath, OneServer, Seated
<1>. QED
  BY <1>1, ServerInvariant, PTL

\* No new daemon takes the path from an old daemon that runs, and no client that could
\* connect to it or found that nobody answers.
THEOREM OldKept == Spec => []LegacyKept
  BY ServerInvariant, PTL DEF ServerInv, DaemonInv
=============================================================================
