----------------------- MODULE SessionRegistryProofs -----------------------
(***************************************************************************)
(* SessionRegistry for any connections, sessions and number of panes: the  *)
(* types with the order of the sessions, where clients are, who is dropped *)
(* by the tick loop, and the waiters.                                      *)
(***************************************************************************)
EXTENDS SessionRegistry, TLAPS, FiniteSetTheorems, WellFoundedInduction

(* The order in which sessions were attached to.                           *)

\* N orders L strictly and totally.
Ordered(L, N) ==
    /\ N \subseteq L \X L
    /\ \A s \in L : <<s, s>> \notin N
    /\ \A s, t \in L : s # t => <<s, t>> \in N \/ <<t, s>> \in N
    /\ \A s, t, u \in L : <<s, t>> \in N /\ <<t, u>> \in N => <<s, u>> \in N

LEMMA TouchedOrdered ==
  ASSUME NEW L, NEW N, Ordered(L, N), NEW s
  PROVE  Ordered(L \cup {s}, Touched(L \cup {s}, N, s))
<1>. DEFINE M == Touched(L \cup {s}, N, s)
<1>1. \A t, u : <<t, u>> \in M <=> \/ <<t, u>> \in N /\ u # s
                                   \/ t = s /\ u \in L \ {s}
  BY DEF Touched
<1>2. M \subseteq (L \cup {s}) \X (L \cup {s})
  BY DEF Touched, Ordered
<1>. HIDE DEF M
<1>3. \A t, u : <<t, u>> \in N => t \in L /\ u \in L
  BY DEF Ordered
<1>4. \A t \in L \cup {s} : <<t, t>> \notin M
  BY <1>1 DEF Ordered
<1>5. \A t, u \in L \cup {s} : t # u => <<t, u>> \in M \/ <<u, t>> \in M
  BY <1>1 DEF Ordered
<1>6. \A t, u, v \in L \cup {s} : <<t, u>> \in M /\ <<u, v>> \in M => <<t, v>> \in M
  BY <1>1, <1>3 DEF Ordered
<1>. QED
  BY <1>2, <1>4, <1>5, <1>6 DEF Ordered, M

LEMMA ForgottenOrdered ==
  ASSUME NEW L, NEW N, Ordered(L, N), NEW s
  PROVE  Ordered(L \ {s}, Forgotten(N, s))
<1>1. \A t, u : <<t, u>> \in Forgotten(N, s) <=> <<t, u>> \in N /\ t # s /\ u # s
  BY DEF Forgotten
<1>2. Forgotten(N, s) \subseteq (L \ {s}) \X (L \ {s})
  BY DEF Forgotten, Ordered
<1>. QED
  BY <1>1, <1>2 DEF Ordered

\* A finite set of numbers has a least one.
LEMMA LeastNumber ==
  ASSUME NEW T \in SUBSET Nat, T # {}
  PROVE  \E m \in T : \A n \in T : m <= n
<1>. DEFINE R == OpToRel(<, Nat)
<1>1. PICK m \in T : \A n \in T : <<n, m>> \notin R
  BY NatLessThanWellFounded, WFMin
<1>2. \A n \in T : ~(n < m)
  BY <1>1 DEF OpToRel
<1>. QED
  BY <1>2

\* A finite set of sessions has one that was attached to last.
LEMMA LastAttached ==
  ASSUME NEW L, NEW N, Ordered(L, N), IsFiniteSet(L), L # {}
  PROVE  \E s \in L : \A t \in L : <<t, s>> \notin N
<1>. DEFINE Newer(s) == {t \in L : <<t, s>> \in N}
            Count == {Cardinality(Newer(s)) : s \in L}
<1>1. \A s \in L : Newer(s) \in SUBSET L /\ IsFiniteSet(Newer(s)) /\ Cardinality(Newer(s)) \in Nat
  BY FS_Subset, FS_CardinalityType
<1>2. PICK s \in L : \A t \in L : Cardinality(Newer(s)) <= Cardinality(Newer(t))
  <2>1. Count \in SUBSET Nat /\ Count # {}
    BY <1>1
  <2>2. PICK m \in Count : \A n \in Count : m <= n
    BY <2>1, LeastNumber
  <2>. QED
    BY <2>2
<1>3. ASSUME NEW t \in L, <<t, s>> \in N PROVE FALSE
  <2>1. Newer(t) \subseteq Newer(s)
    BY <1>3 DEF Ordered
  <2>2. t \in Newer(s) /\ t \notin Newer(t)
    BY <1>3 DEF Ordered
  <2>. HIDE DEF Newer
  <2>3. Cardinality(Newer(t)) <= Cardinality(Newer(s))
        /\ Cardinality(Newer(t)) # Cardinality(Newer(s))
    BY <1>1, <2>1, <2>2, FS_Subset
  <2>. QED
    BY <1>1, <1>2, <2>3
<1>. QED
  BY <1>3

LEMMA FallbackLives ==
  ASSUME NEW L, NEW N, Ordered(L, N), IsFiniteSet(L), L # {}, NEW x, x \notin L
  PROVE  Fallback(L, N, x) \in L
<1>1. L \ {x} = L
  OBVIOUS
<1>. QED
  BY <1>1, LastAttached DEF Fallback

-----------------------------------------------------------------------------
(* The inductive invariant, in parts.                                      *)

Sessions ==
    /\ live \subseteq Session /\ IsFiniteSet(live)
    /\ Ordered(live, newer)
    /\ unstarted \subseteq live

PaneTable ==
    /\ panes \in [Session -> SUBSET PaneId]
    /\ next \in 1..(MaxPane + 1)
    /\ \A s \in Session : \A p \in panes[s] : p < next
    /\ \A s, t \in Session : s # t => panes[s] \cap panes[t] = {}
    /\ \A s \in Session \ live : panes[s] = {}

ClientTypes ==
    /\ home \in [Client -> Session \cup {Control, NoSession}]
    /\ waits \in [PaneId -> Client \cup {NoClient}]
    /\ link \in [Client -> {"off", "on", "closing"}]
    /\ seen \in [Client -> Session \cup {NoSession}]
    /\ waiting \in [Client -> PaneId \cup {NoPane}]
    /\ told \subseteq Client /\ deaf \subseteq Client /\ lost \subseteq PaneId

OtherTypes ==
    /\ hadSession \in BOOLEAN /\ idle \in {"none", "armed", "due"} /\ shutDown \in BOOLEAN
    /\ dead \subseteq PaneId /\ eof \subseteq PaneId
    /\ permit \in BOOLEAN
    /\ pc \in {"wait", "lock", "pass", "send", "grace", "gone"}
    /\ todo \subseteq Session
    /\ quitting \in BOOLEAN /\ stop \in BOOLEAN /\ stopped \in BOOLEAN

Table == Sessions /\ PaneTable

\* Each part is needed for itself or for another: LiveHome for the sessions that
\* clients are sent to, the parts of the table for the waiters' panes.
Inv == Table /\ ClientTypes /\ OtherTypes /\ LiveHome /\ WaitsAgree

LEMMA TypesFromParts ==
  ASSUME Table, ClientTypes, OtherTypes
  PROVE  TypeOK
<1>1. \A s, t \in live : s # t => ~(<<s, t>> \in newer <=> <<t, s>> \in newer)
  BY DEF Table, Sessions, Ordered
<1>2. \A p \in AllPanes : p < next
  BY DEF Table, PaneTable, AllPanes
<1>3. newer \subseteq live \X live
  BY DEF Table, Sessions, Ordered
<1>. QED
  BY <1>1, <1>2, <1>3 DEF Table, Sessions, PaneTable, ClientTypes, OtherTypes, TypeOK

\* The steps that leave the table of sessions and panes alone.
CalmHandler(c) ==
    \/ AttachControl(c) \/ Detach(c) \/ HangUp(c) \/ Cleanup(c) \/ Evict(c)
    \/ Learn(c) \/ Input(c)

CalmTick == TickWake \/ TickLock \/ TickIdle \/ TickEnd \/ Timeout

CalmDaemon ==
    \/ \E p \in PaneId : ProgramExit(p) \/ ReaderEof(p)
    \/ ProgramOutput
    \/ Quit \/ GracefulShutdown \/ IdleShutdown \/ Stop

Calm == (\E c \in Client : CalmHandler(c)) \/ CalmTick \/ CalmDaemon \/ UNCHANGED vars

LEMMA CalmTable ==
  ASSUME Calm
  PROVE  UNCHANGED <<live, newer, panes, next, unstarted>>
<1>1. ASSUME NEW c \in Client, CalmHandler(c) PROVE UNCHANGED <<live, newer, panes, next, unstarted>>
  BY <1>1 DEF CalmHandler, AttachControl, Detach, HangUp, Cleanup, Evict, Learn, Input, server,
     history
<1>2. CASE CalmTick
  BY <1>2 DEF CalmTick, TickWake, TickLock, TickIdle, TickEnd, Timeout, server, history
<1>3. CASE CalmDaemon
  BY <1>3 DEF CalmDaemon, ProgramExit, ReaderEof, ProgramOutput, Quit, GracefulShutdown,
     IdleShutdown, Stop, server, history
<1>. QED
  BY <1>1, <1>2, <1>3 DEF Calm, vars, server, history

-----------------------------------------------------------------------------
(* Sessions and panes.                                                     *)

\* The panes that OpenSession tries, and those of them that it keeps.
Tried(k, s) == IF panes[s] = {} THEN next..(next + k - 1) ELSE {}

Started(tried, s) ==
    \E new \in SUBSET tried :
      /\ panes' = [panes EXCEPT ![s] = @ \cup new]
      /\ unstarted' = IF new # {} THEN unstarted \ {s} ELSE unstarted \cup ({s} \ live)

LEMMA OpenedTable ==
  ASSUME Table, NEW s \in Session, OpenSession(s)
  PROVE  Table' /\ hadSession' /\ live' = live \cup {s} /\ next' >= next
         /\ \A t \in Session : panes[t] \subseteq panes'[t]
<1>1. PICK k \in 1..MaxRestore :
        Tried(k, s) \subseteq PaneId /\ next' = NextPane(Tried(k, s)) /\ Started(Tried(k, s), s)
  BY DEF OpenSession, Tried, Started
<1>. DEFINE tried == Tried(k, s)
<1>2. k \in Nat /\ k >= 1 /\ next \in Nat /\ next >= 1 /\ MaxPane \in Nat
  BY RegistryAssumption DEF Table, PaneTable
<1>3. tried \subseteq PaneId /\ next' = next + Cardinality(tried) /\ Started(tried, s)
  BY <1>1 DEF NextPane
<1>4. Cardinality(tried) = IF panes[s] = {} THEN k ELSE 0
  <2>1. Cardinality(next..(next + k - 1)) = k
    <3>1. next \in Int /\ next + k - 1 \in Int /\ ~(next > next + k - 1)
      BY <1>2
    <3>2. Cardinality(next..(next + k - 1)) = (next + k - 1) - next + 1
      BY <3>1, FS_Interval
    <3>. QED
      BY <1>2, <3>2
  <2>. QED
    BY <2>1, FS_EmptySet DEF Tried
<1>5. next' \in 1..(MaxPane + 1) /\ next' >= next /\ \A p \in tried : next <= p /\ p < next'
  <2>1. CASE panes[s] = {}
    <3>. tried = next..(next + k - 1)
      BY <2>1 DEF Tried
    <3>1. next + k - 1 \in tried
      BY <1>2
    <3>2. next + k - 1 \in 1..MaxPane
      BY <1>3, <3>1 DEF PaneId
    <3>. QED
      BY <1>2, <1>3, <1>4, <2>1, <3>2
  <2>2. CASE panes[s] # {}
    BY <1>2, <1>3, <1>4, <2>2 DEF Table, PaneTable, Tried
  <2>. QED
    BY <2>1, <2>2
<1>. HIDE DEF tried
<1>. PICK new \in SUBSET tried :
       /\ panes' = [panes EXCEPT ![s] = @ \cup new]
       /\ unstarted' = IF new # {} THEN unstarted \ {s} ELSE unstarted \cup ({s} \ live)
  BY <1>3 DEF Started
<1>6. live' = live \cup {s} /\ newer' = Touched(live \cup {s}, newer, s) /\ hadSession'
  BY DEF OpenSession
<1>7. Sessions'
  BY <1>6, TouchedOrdered, FS_AddElement DEF Table, Sessions
<1>8. /\ panes' \in [Session -> SUBSET PaneId]
      /\ panes'[s] = panes[s] \cup new /\ \A t \in Session \ {s} : panes'[t] = panes[t]
  BY <1>3 DEF Table, PaneTable
<1>9. \A t \in Session : \A p \in panes[t] : p < next /\ p \in Nat
  BY DEF Table, PaneTable, PaneId
<1>10. \A t \in Session : \A p \in panes'[t] : p < next'
  BY <1>2, <1>5, <1>8, <1>9
<1>11. \A t \in Session \ {s} : new \cap panes[t] = {}
  BY <1>2, <1>5, <1>9
<1>12. PaneTable'
  BY <1>5, <1>6, <1>8, <1>10, <1>11 DEF Table, PaneTable
<1>. QED
  BY <1>5, <1>6, <1>7, <1>8, <1>12 DEF Table

\* Panes go, and with them perhaps their session.
LEMMA FewerPanes ==
  ASSUME PaneTable, panes' \in [Session -> SUBSET PaneId], next' = next,
         \A s \in Session : panes'[s] \subseteq panes[s],
         \A s \in Session \ live' : panes'[s] = {}
  PROVE  PaneTable'
BY DEF PaneTable

\* One pane more.
LEMMA MorePanes ==
  ASSUME PaneTable, NEW t \in Session, next \in PaneId, next' = next + 1,
         panes' \in [Session -> SUBSET PaneId],
         \A s \in Session \ {t} : panes'[s] \subseteq panes[s],
         panes'[t] \subseteq panes[t] \cup {next},
         \A s \in Session \ live' : panes'[s] = {}
  PROVE  PaneTable'
<1>1. next \in 1..MaxPane /\ MaxPane \in Nat
  BY RegistryAssumption DEF PaneId
<1>2. \A s \in Session : \A p \in panes[s] : p < next /\ p \in Nat
  BY DEF PaneTable, PaneId
<1>3. \A s \in Session : \A p \in panes'[s] : p < next'
  BY <1>1, <1>2
<1>4. \A s \in Session : next \notin panes[s]
  BY <1>1, <1>2
<1>5. \A s, u \in Session : s # u => panes'[s] \cap panes'[u] = {}
  BY <1>4 DEF PaneTable
<1>6. next' \in 1..(MaxPane + 1)
  BY <1>1
<1>. QED
  BY <1>3, <1>5, <1>6 DEF PaneTable

\* A session is removed; its clients go to another that lives, or are told,
\* or their channel is full.
LEMMA FinalizedTable ==
  ASSUME Table, ClientTypes, LiveHome, NEW s \in Session, live' = live \ {s},
         unstarted' = unstarted \ {s}, Finalize(s, live \ {s}, Forgotten(newer, s))
  PROVE  Sessions' /\ LiveHome' /\ told' \subseteq Client /\ deaf' \subseteq Client
         /\ home' \in [Client -> Session \cup {Control, NoSession}]
<1>. DEFINE L == live \ {s}
            N == Forgotten(newer, s)
            fb == Fallback(L, N, s)
<1>1. Ordered(L, N) /\ IsFiniteSet(L) /\ L \subseteq Session /\ s \notin L
  BY ForgottenOrdered, FS_RemoveElement DEF Table, Sessions
<1>2. \A c \in Client : home[c] \in Session => home[c] \in L \/ home[c] = s \/ c \in told \cup deaf
  BY DEF LiveHome
<1>3. CASE L = {}
  <2>1. PICK heard \in SUBSET AttachedTo(s) :
          /\ told' = (told \ AttachedTo(s)) \cup heard
          /\ deaf' = (deaf \ heard) \cup (AttachedTo(s) \ heard)
          /\ newer' = N /\ home' = home
    BY <1>3 DEF Finalize
  <2>2. \A c \in Client : home[c] = s \/ c \in told \cup deaf => c \in told' \cup deaf'
    BY <2>1 DEF AttachedTo
  <2>3. LiveHome'
    BY <1>2, <1>3, <2>1, <2>2 DEF LiveHome
  <2>4. told' \subseteq Client /\ deaf' \subseteq Client
    BY <2>1 DEF AttachedTo, ClientTypes
  <2>. QED
    BY <1>1, <2>1, <2>3, <2>4 DEF Sessions, ClientTypes, Table
<1>4. CASE L # {}
  <2>1. fb \in L
    BY <1>1, <1>4, FallbackLives
  <2>2. /\ home' = [c \in Client |-> IF c \in AttachedTo(s) THEN fb ELSE home[c]]
        /\ newer' = IF AttachedTo(s) = {} THEN N ELSE Touched(L, N, fb)
        /\ told' = told /\ deaf' = deaf
    BY <1>4 DEF Finalize, news
  <2>. HIDE DEF fb, L, N
  <2>3. Ordered(L, newer')
    <3>1. L \cup {fb} = L
      BY <2>1
    <3>. QED
      BY <1>1, <2>2, <3>1, TouchedOrdered
  <2>4. \A c \in Client : home'[c] = fb \/ (home[c] # s /\ home'[c] = home[c])
    BY <2>2 DEF AttachedTo
  <2>5. live' = L
    BY DEF L
  <2>6. LiveHome'
    BY <1>2, <2>1, <2>2, <2>4, <2>5 DEF LiveHome
  <2>7. home' \in [Client -> Session \cup {Control, NoSession}]
    BY <1>1, <2>1, <2>2 DEF ClientTypes
  <2>. QED
    BY <1>1, <2>2, <2>3, <2>5, <2>6, <2>7 DEF Sessions, ClientTypes, Table
<1>. QED
  BY <1>3, <1>4

-----------------------------------------------------------------------------
(* Waiters.                                                                *)

LEMMA PanesKept ==
  ASSUME NEW P, \A s \in Session : panes[s] \ P \subseteq panes'[s]
  PROVE  AllPanes \ P \subseteq AllPanes'
BY DEF AllPanes

LEMMA FulfilTypes ==
  ASSUME ClientTypes, NEW P, Fulfil(P)
  PROVE  /\ waits' \in [PaneId -> Client \cup {NoClient}]
         /\ waiting' \in [Client -> PaneId \cup {NoPane}]
BY DEF Fulfil, ClientTypes

\* The waiters of panes that go are answered, and both sides forget.
LEMMA Fulfilled ==
  ASSUME ClientTypes, WaitsAgree, NEW P, Fulfil(P), link' = link, lost' = lost,
         \A s \in Session : panes[s] \ P \subseteq panes'[s]
  PROVE  WaitsAgree'
<1>1. AllPanes \ P \subseteq AllPanes'
  BY PanesKept
<1>2. NoPane \notin PaneId
  BY RegistryAssumption DEF PaneId
<1>3. /\ \A p \in PaneId : waits'[p] = IF p \in P THEN NoClient ELSE waits[p]
      /\ \A c \in Client : waiting'[c] = IF \E p \in P : waits[p] = c /\ waiting[c] = p
                                         THEN NoPane ELSE waiting[c]
  BY DEF Fulfil
<1>4. ASSUME NEW c \in Client, waiting'[c] \in PaneId \ lost
      PROVE  waits'[waiting'[c]] = c /\ waiting'[c] \in AllPanes'
  <2>1. /\ waiting'[c] = waiting[c]
        /\ ~ \E p \in P : waits[p] = c /\ waiting[c] = p
    BY <1>2, <1>3, <1>4
  <2>2. waits[waiting[c]] = c /\ waiting[c] \in AllPanes
    BY <1>4, <2>1 DEF WaitsAgree
  <2>3. waiting[c] \notin P
    BY <2>1, <2>2
  <2>. QED
    BY <1>1, <1>3, <1>4, <2>1, <2>2, <2>3
<1>5. ASSUME NEW p \in PaneId, waits'[p] # NoClient
      PROVE  waiting'[waits'[p]] = p /\ link'[waits'[p]] # "off"
  <2>1. p \notin P /\ waits'[p] = waits[p]
    BY <1>3, <1>5
  <2>2. waits[p] \in Client /\ waiting[waits[p]] = p /\ link[waits[p]] # "off"
    BY <1>5, <2>1 DEF ClientTypes, WaitsAgree
  <2>. QED
    BY <1>3, <2>1, <2>2
<1>. QED
  BY <1>4, <1>5 DEF WaitsAgree

\* Nothing happens to the waiters while panes stay and connections stay open.
LEMMA StillWaiting ==
  ASSUME ClientTypes, WaitsAgree, UNCHANGED <<waits, waiting>>, lost \subseteq lost',
         \A s \in Session : panes[s] \ lost' \subseteq panes'[s],
         \A c \in Client : link[c] # "off" => link'[c] # "off"
  PROVE  WaitsAgree'
<1>1. AllPanes \ lost' \subseteq AllPanes'
  BY PanesKept
<1>2. ASSUME NEW c \in Client, waiting[c] \in PaneId \ lost'
      PROVE  waits[waiting[c]] = c /\ waiting[c] \in AllPanes'
  BY <1>1, <1>2 DEF WaitsAgree
<1>3. ASSUME NEW p \in PaneId, waits[p] # NoClient
      PROVE  waiting[waits[p]] = p /\ link'[waits[p]] # "off"
  BY <1>3 DEF WaitsAgree, ClientTypes
<1>. QED
  BY <1>2, <1>3 DEF WaitsAgree

-----------------------------------------------------------------------------
(* The steps, by name.                                                     *)

LEMMA AttachKeeps ==
  ASSUME Inv, NEW c \in Client, NEW s \in Session, Attach(c, s)
  PROVE  Inv'
<1>1. Table' /\ hadSession' /\ live' = live \cup {s}
      /\ \A t \in Session : panes[t] \subseteq panes'[t]
  BY OpenedTable DEF Inv, Attach
<1>2. ClientTypes'
  BY DEF Inv, Attach, MovesOn, ClientTypes
<1>3. OtherTypes'
  BY <1>1 DEF Inv, Attach, OpenSession, OtherTypes, pty, tick, process
<1>4. LiveHome'
  BY <1>1 DEF Inv, Attach, MovesOn, ClientTypes, LiveHome
<1>5. WaitsAgree'
  <2>1. \A d \in Client : link[d] # "off" => link'[d] # "off"
    BY DEF Inv, Attach, ClientTypes
  <2>2. UNCHANGED <<waits, waiting, lost>>
    BY DEF Attach
  <2>. QED
    BY <1>1, <2>1, <2>2, StillWaiting DEF Inv
<1>. QED
  BY <1>1, <1>2, <1>3, <1>4, <1>5 DEF Inv

LEMMA SwitchKeeps ==
  ASSUME Inv, NEW c \in Client, NEW s \in Session, SwitchSession(c, s)
  PROVE  Inv'
<1>1. Table' /\ hadSession' /\ live' = live \cup {s}
      /\ \A t \in Session : panes[t] \subseteq panes'[t]
  BY OpenedTable DEF Inv, SwitchSession
<1>2. ClientTypes'
  BY DEF Inv, SwitchSession, MovesOn, ClientTypes, user
<1>3. OtherTypes'
  BY <1>1 DEF Inv, SwitchSession, OpenSession, OtherTypes, pty, tick, process
<1>4. LiveHome'
  BY <1>1 DEF Inv, SwitchSession, MovesOn, ClientTypes, LiveHome
<1>5. WaitsAgree'
  <2>1. UNCHANGED <<waits, waiting, lost, link>>
    BY DEF SwitchSession, user
  <2>. QED
    BY <1>1, <2>1, StillWaiting DEF Inv
<1>. QED
  BY <1>1, <1>2, <1>3, <1>4, <1>5 DEF Inv

LEMMA KillKeeps ==
  ASSUME Inv, NEW c \in Client, NEW t \in Session, KillSession(c, t)
  PROVE  Inv'
<1>1. live' = live \ {t} /\ Finalize(t, live \ {t}, Forgotten(newer, t))
      /\ panes' = [panes EXCEPT ![t] = {}] /\ next' = next
      /\ Fulfil(panes[t]) /\ Dropped(panes[t]) /\ UNCHANGED <<link, lost, seen>>
      /\ unstarted' = unstarted \ {t}
  BY DEF KillSession
<1>2. Sessions' /\ LiveHome' /\ told' \subseteq Client /\ deaf' \subseteq Client
      /\ home' \in [Client -> Session \cup {Control, NoSession}]
  BY <1>1, FinalizedTable DEF Inv
<1>3. /\ panes' \in [Session -> SUBSET PaneId]
      /\ \A s \in Session : panes'[s] = IF s = t THEN {} ELSE panes[s]
      /\ \A s \in Session \ live : panes[s] = {}
      /\ panes[t] \subseteq PaneId
  BY <1>1 DEF Inv, Table, PaneTable
<1>4. PaneTable'
  BY <1>1, <1>3, FewerPanes DEF Inv, Table
<1>5. ClientTypes'
  BY <1>1, <1>2, FulfilTypes DEF Inv, ClientTypes
<1>6. OtherTypes'
  BY <1>3 DEF Inv, KillSession, Dropped, OtherTypes, tick, process
<1>7. WaitsAgree'
  BY <1>1, <1>3, Fulfilled DEF Inv
<1>. QED
  BY <1>2, <1>4, <1>5, <1>6, <1>7 DEF Inv, Table

LEMMA CloseKeeps ==
  ASSUME Inv, NEW c \in Client, NEW p \in PaneId, ClosePane(c, p)
  PROVE  Inv'
<1>. DEFINE gone == IF home[c] \in live THEN panes[home[c]] \cap {p} ELSE {}
<1>1. /\ panes' = IF home[c] \in live THEN [panes EXCEPT ![home[c]] = @ \ gone] ELSE panes
      /\ Dropped(gone) /\ Fulfil({p})
      /\ UNCHANGED <<live, newer, next, home, link, seen, told, deaf, lost, unstarted>>
      /\ UNCHANGED <<hadSession, idle, shutDown, tick, process>>
  BY DEF ClosePane, history, news
<1>2. gone \subseteq {p}
  OBVIOUS
<1>. HIDE DEF gone
<1>3. /\ panes' \in [Session -> SUBSET PaneId]
      /\ \A s \in Session : panes[s] \ {p} \subseteq panes'[s] /\ panes'[s] \subseteq panes[s]
      /\ \A s \in Session \ live : panes'[s] = {}
  BY <1>1, <1>2 DEF Inv, Table, Sessions, PaneTable
<1>4. Table'
  <2>1. Sessions'
    BY <1>1 DEF Inv, Table, Sessions
  <2>2. PaneTable'
    BY <1>1, <1>3, FewerPanes DEF Inv, Table
  <2>. QED
    BY <2>1, <2>2 DEF Table
<1>5. ClientTypes'
  BY <1>1, FulfilTypes DEF Inv, ClientTypes
<1>6. OtherTypes'
  BY <1>1, <1>2 DEF Inv, Dropped, OtherTypes, tick, process
<1>7. LiveHome'
  BY <1>1 DEF Inv, LiveHome
<1>8. WaitsAgree'
  BY <1>1, <1>3, Fulfilled DEF Inv
<1>. QED
  BY <1>4, <1>5, <1>6, <1>7, <1>8 DEF Inv

LEMMA CloseByIdKeeps ==
  ASSUME Inv, NEW c \in Client, NEW s \in Session, NEW p \in PaneId, ClosePaneById(c, s, p)
  PROVE  Inv'
<1>1. /\ panes' = [panes EXCEPT ![s] = @ \ {p}]
      /\ Dropped({p}) /\ Fulfil({p})
      /\ UNCHANGED <<live, newer, next, home, link, seen, told, deaf, lost, unstarted>>
      /\ UNCHANGED <<hadSession, idle, shutDown, tick, process>>
  BY DEF ClosePaneById, history, news
<1>2. /\ panes' \in [Session -> SUBSET PaneId]
      /\ \A t \in Session : panes[t] \ {p} \subseteq panes'[t] /\ panes'[t] \subseteq panes[t]
      /\ \A t \in Session \ live : panes'[t] = {}
  BY <1>1 DEF Inv, Table, PaneTable
<1>3. Table'
  <2>1. Sessions'
    BY <1>1 DEF Inv, Table, Sessions
  <2>2. PaneTable'
    BY <1>1, <1>2, FewerPanes DEF Inv, Table
  <2>. QED
    BY <2>1, <2>2 DEF Table
<1>4. ClientTypes'
  BY <1>1, FulfilTypes DEF Inv, ClientTypes
<1>5. OtherTypes'
  BY <1>1 DEF Inv, Dropped, OtherTypes, tick, process
<1>6. LiveHome'
  BY <1>1 DEF Inv, LiveHome
<1>7. WaitsAgree'
  BY <1>1, <1>2, Fulfilled DEF Inv
<1>. QED
  BY <1>3, <1>4, <1>5, <1>6, <1>7 DEF Inv

LEMMA CreateKeeps ==
  ASSUME Inv, NEW c \in Client, NEW s \in Session, NEW wait \in BOOLEAN, CreatePane(c, s, wait)
  PROVE  Inv'
<1>1. /\ s \in live /\ next \in PaneId /\ link[c] = "on"
      /\ wait => waiting[c] = NoPane
      /\ panes' = [panes EXCEPT ![s] = @ \cup {next}]
      /\ next' = next + 1
      /\ waits' = IF wait THEN [waits EXCEPT ![next] = c] ELSE waits
      /\ waiting' = IF wait THEN [waiting EXCEPT ![c] = next] ELSE waiting
      /\ UNCHANGED <<live, newer, home, link, seen, told, deaf, lost>>
      /\ unstarted' = unstarted \ {s}
  BY DEF CreatePane, Connected, news
<1>2. /\ panes' \in [Session -> SUBSET PaneId]
      /\ \A t \in Session : panes[t] \subseteq panes'[t]
      /\ \A t \in Session \ {s} : panes'[t] = panes[t]
      /\ panes'[s] = panes[s] \cup {next}
      /\ \A t \in Session \ live : panes'[t] = {}
  BY <1>1 DEF Inv, Table, PaneTable
<1>3. Table'
  <2>1. Sessions'
    BY <1>1 DEF Inv, Table, Sessions
  <2>2. PaneTable'
    BY <1>1, <1>2, MorePanes DEF Inv, Table
  <2>. QED
    BY <2>1, <2>2 DEF Table
<1>4. ClientTypes'
  BY <1>1 DEF Inv, ClientTypes
<1>5. OtherTypes'
  BY DEF Inv, CreatePane, OtherTypes, pty, tick, process
<1>6. LiveHome'
  BY <1>1 DEF Inv, LiveHome
<1>7. WaitsAgree'
  <2>1. CASE ~wait
    <3>1. UNCHANGED <<waits, waiting, lost, link>>
      BY <1>1, <2>1
    <3>. QED
      BY <1>2, <3>1, StillWaiting DEF Inv
  <2>2. CASE wait
    <3>1. NoPane \notin PaneId
      BY RegistryAssumption DEF PaneId
    <3>2. /\ \A p \in PaneId : waits'[p] = IF p = next THEN c ELSE waits[p]
          /\ \A d \in Client : waiting'[d] = IF d = c THEN next ELSE waiting[d]
      BY <1>1, <2>2 DEF Inv, ClientTypes
    <3>3. next \notin AllPanes
      BY <1>1 DEF Inv, Table, PaneTable, AllPanes, PaneId
    <3>4. AllPanes \subseteq AllPanes' /\ next \in AllPanes'
      BY <1>2 DEF AllPanes
    <3>5. ASSUME NEW d \in Client, waiting'[d] \in PaneId \ lost
          PROVE  waits'[waiting'[d]] = d /\ waiting'[d] \in AllPanes'
      <4>1. CASE d = c
        BY <1>1, <3>2, <3>4, <4>1
      <4>2. CASE d # c
        <5>1. waits[waiting[d]] = d /\ waiting[d] \in AllPanes
          BY <3>2, <3>5, <4>2 DEF Inv, WaitsAgree
        <5>. QED
          BY <3>2, <3>3, <3>4, <3>5, <4>2, <5>1
      <4>. QED
        BY <4>1, <4>2
    <3>6. ASSUME NEW p \in PaneId, waits'[p] # NoClient
          PROVE  waiting'[waits'[p]] = p /\ link'[waits'[p]] # "off"
      <4>1. CASE p = next
        BY <1>1, <3>2, <4>1
      <4>2. CASE p # next
        <5>1. waits'[p] = waits[p] /\ waits[p] \in Client /\ waiting[waits[p]] = p
              /\ link[waits[p]] # "off"
          BY <3>2, <3>6, <4>2 DEF Inv, WaitsAgree, ClientTypes
        <5>2. waits[p] # c
          BY <1>1, <2>2, <3>1, <5>1
        <5>. QED
          BY <1>1, <3>2, <5>1, <5>2
      <4>. QED
        BY <4>1, <4>2
    <3>. QED
      BY <1>1, <3>5, <3>6 DEF WaitsAgree
  <2>. QED
    BY <2>1, <2>2
<1>. QED
  BY <1>3, <1>4, <1>5, <1>6, <1>7 DEF Inv

LEMMA TemplateKeeps ==
  ASSUME Inv, NEW c \in Client, NEW t \in Template, ApplyTemplate(c, t)
  PROVE  Inv'
<1>1. /\ next \in PaneId /\ next' = NextPane({next})
      /\ Dropped(panes[t]) /\ lost' = lost \cup panes[t]
      /\ \E new \in {{}, {next}} :
           /\ panes' = [panes EXCEPT ![t] = new]
           /\ unstarted' = IF new = {} THEN unstarted \cup {t} ELSE unstarted \ {t}
      /\ live' = live \cup {t} /\ newer' = Touched(live \cup {t}, newer, t)
      /\ home' = [home EXCEPT ![c] = t] /\ told' = told \ {c} /\ deaf' = deaf \ {c}
      /\ UNCHANGED <<waits, user>>
  BY DEF ApplyTemplate, MovesOn
<1>2. t \in Session /\ next' = next + 1
  <2>1. Cardinality({next}) = 1
    BY FS_Singleton
  <2>. QED
    BY <1>1, <2>1, RegistryAssumption DEF NextPane
<1>3. /\ panes' \in [Session -> SUBSET PaneId]
      /\ \A s \in Session \ {t} : panes'[s] = panes[s]
      /\ panes'[t] \subseteq {next}
      /\ panes[t] \subseteq PaneId
      /\ \A s \in Session \ live' : panes'[s] = {}
  BY <1>1, <1>2 DEF Inv, Table, PaneTable
<1>4. Table'
  <2>1. Sessions'
    BY <1>1, <1>2, TouchedOrdered, FS_AddElement DEF Inv, Table, Sessions
  <2>2. PaneTable'
    BY <1>1, <1>2, <1>3, MorePanes DEF Inv, Table
  <2>. QED
    BY <2>1, <2>2 DEF Table
<1>5. ClientTypes'
  BY <1>1, <1>2, <1>3 DEF Inv, ClientTypes, user
<1>6. OtherTypes'
  BY <1>3 DEF Inv, ApplyTemplate, Dropped, OtherTypes, tick, process
<1>7. LiveHome'
  BY <1>1 DEF Inv, LiveHome, ClientTypes
<1>8. WaitsAgree'
  <2>1. UNCHANGED <<waits, waiting, link>>
    BY <1>1 DEF user
  <2>2. \A s \in Session : panes[s] \ lost' \subseteq panes'[s]
    BY <1>1, <1>3
  <2>. QED
    BY <1>1, <2>1, <2>2, StillWaiting DEF Inv
<1>. QED
  BY <1>4, <1>5, <1>6, <1>7, <1>8 DEF Inv

LEMMA TickKeeps ==
  ASSUME Inv, NEW s \in todo, TickSession(s)
  PROVE  Inv'
<1>. DEFINE D == panes[s] \cap dead
<1>1. /\ panes' = [panes EXCEPT ![s] = @ \ D] /\ next' = next
      /\ Fulfil(D) /\ UNCHANGED <<link, lost, seen>>
  BY DEF TickSession
<1>2. s \in Session
  BY DEF Inv, OtherTypes
<1>3. /\ panes' \in [Session -> SUBSET PaneId]
      /\ \A t \in Session : panes'[t] = IF t = s THEN panes[t] \ dead ELSE panes[t]
      /\ \A t \in Session \ live : panes[t] = {}
  BY <1>1, <1>2 DEF Inv, Table, PaneTable
<1>4. /\ Sessions' /\ LiveHome' /\ told' \subseteq Client /\ deaf' \subseteq Client
      /\ home' \in [Client -> Session \cup {Control, NoSession}]
      /\ live' = live \/ (live' = live \ {s} /\ panes[s] \subseteq dead)
  <2>1. CASE ~(panes[s] \subseteq dead)
    <3>1. UNCHANGED <<live, newer, home, told, deaf, unstarted>>
      BY <2>1 DEF TickSession, news
    <3>. QED
      BY <3>1 DEF Inv, Table, Sessions, LiveHome, ClientTypes
  <2>2. CASE panes[s] \subseteq dead /\ LastSession(s)
    <3>1. /\ live' = live \ {s} /\ newer' = Forgotten(newer, s) /\ told' = told /\ deaf' = deaf
          /\ unstarted' = unstarted \ {s}
          /\ home' = [c \in Client |-> IF home[c] = s THEN NoSession ELSE home[c]]
      BY <2>2 DEF TickSession, news
    <3>2. Sessions'
      BY <3>1, ForgottenOrdered, FS_RemoveElement DEF Inv, Table, Sessions
    <3>3. LiveHome'
      BY <2>2, <3>1, RegistryAssumption DEF Inv, LiveHome, LastSession
    <3>. QED
      BY <2>2, <3>1, <3>2, <3>3 DEF Inv, ClientTypes
  <2>3. CASE panes[s] \subseteq dead /\ ~LastSession(s)
    <3>1. live' = live \ {s} /\ Finalize(s, live \ {s}, Forgotten(newer, s))
          /\ unstarted' = unstarted \ {s}
      BY <2>3 DEF TickSession
    <3>. QED
      BY <1>2, <2>3, <3>1, FinalizedTable DEF Inv
  <2>. QED
    BY <2>1, <2>2, <2>3
<1>5. PaneTable'
  BY <1>1, <1>3, <1>4, FewerPanes DEF Inv, Table
<1>6. ClientTypes'
  BY <1>1, <1>4, FulfilTypes DEF Inv, ClientTypes
<1>7. OtherTypes'
  <2>1. permit' \in BOOLEAN
    BY DEF Inv, TickSession, OtherTypes
  <2>2. todo' = todo \ {s} /\ dead' = dead \ D
        /\ UNCHANGED <<hadSession, idle, shutDown, eof, pc, process>>
    BY DEF TickSession
  <2>. QED
    BY <2>1, <2>2 DEF Inv, OtherTypes, process
<1>8. WaitsAgree'
  <2>1. \A t \in Session : panes[t] \ D \subseteq panes'[t]
    BY <1>3
  <2>. QED
    BY <1>1, <2>1, Fulfilled DEF Inv
<1>. QED
  BY <1>4, <1>5, <1>6, <1>7, <1>8 DEF Inv, Table

LEMMA CalmTypes ==
  ASSUME Inv, Calm
  PROVE  ClientTypes' /\ OtherTypes'
<1>1. ASSUME NEW c \in Client, CalmHandler(c) PROVE ClientTypes' /\ OtherTypes'
  <2>1. CASE AttachControl(c)
    BY <2>1 DEF Inv, ClientTypes, OtherTypes, AttachControl, MovesOn, pty, tick, process
  <2>2. CASE Detach(c)
    BY <2>2 DEF Inv, ClientTypes, OtherTypes, Detach, pty, tick, process, history, news
  <2>3. CASE HangUp(c)
    BY <2>3 DEF Inv, ClientTypes, OtherTypes, HangUp, server, pty, tick, process, history, news
  <2>4. CASE Cleanup(c)
    BY <2>4 DEF Inv, ClientTypes, OtherTypes, Cleanup, CleanWaits, MovesOn, pty, tick, process
  <2>5. CASE Evict(c)
    BY <2>5 DEF Inv, ClientTypes, OtherTypes, Evict, pty, tick, process, user, history, news
  <2>6. CASE Learn(c)
    BY <2>6 DEF Inv, ClientTypes, OtherTypes, Learn, server, pty, tick, process, history, news
  <2>7. CASE Input(c)
    BY <2>7 DEF Inv, ClientTypes, OtherTypes, Input, server, pty, process, user, history, news
  <2>. QED
    BY <1>1, <2>1, <2>2, <2>3, <2>4, <2>5, <2>6, <2>7 DEF CalmHandler
<1>2. CASE CalmTick
  <2>1. ClientTypes'
    BY <1>2 DEF Inv, ClientTypes, CalmTick, TickWake, TickLock, TickIdle, TickEnd, Timeout,
       server, user, history, news
  <2>2. OtherTypes'
    BY <1>2 DEF Inv, Table, Sessions, OtherTypes, CalmTick, TickWake, TickLock, TickIdle,
       TickEnd, Timeout, Deadline, server, pty, tick, process
  <2>. QED
    BY <2>1, <2>2
<1>3. CASE CalmDaemon
  <2>1. ClientTypes'
    BY <1>3 DEF Inv, ClientTypes, CalmDaemon, ProgramExit, ReaderEof, ProgramOutput, Quit,
       GracefulShutdown, IdleShutdown, Stop, server, user, history, news
  <2>2. CASE (\E p \in PaneId : ProgramExit(p) \/ ReaderEof(p)) \/ ProgramOutput
    <3>1. OtherTypes
      BY DEF Inv
    <3>2. ASSUME NEW p \in PaneId, ProgramExit(p) PROVE OtherTypes'
      BY <3>1, <3>2 DEF OtherTypes, ProgramExit, server, tick, process
    <3>3. ASSUME NEW p \in PaneId, ReaderEof(p) PROVE OtherTypes'
      BY <3>1, <3>3 DEF OtherTypes, ReaderEof, ReaderNotify, server, process
    <3>4. ASSUME ProgramOutput PROVE OtherTypes'
      BY <3>1, <3>4 DEF OtherTypes, ProgramOutput, server, pty, process
    <3>. QED
      BY <2>1, <2>2, <3>2, <3>3, <3>4
  <2>3. CASE Quit \/ GracefulShutdown \/ IdleShutdown \/ Stop
    <3>1. OtherTypes
      BY DEF Inv
    <3>2. ASSUME Quit PROVE OtherTypes'
      BY <3>1, <3>2 DEF OtherTypes, Quit, server, pty, tick
    <3>3. ASSUME GracefulShutdown PROVE OtherTypes'
      BY <3>1, <3>3 DEF OtherTypes, GracefulShutdown, NotifyAccept, pty, tick
    <3>4. ASSUME IdleShutdown PROVE OtherTypes'
      BY <3>1, <3>4 DEF OtherTypes, IdleShutdown, pty
    <3>5. ASSUME Stop PROVE OtherTypes'
      BY <3>1, <3>5 DEF OtherTypes, Stop, pty, tick
    <3>. QED
      BY <2>1, <2>3, <3>2, <3>3, <3>4, <3>5
  <2>. QED
    BY <1>3, <2>2, <2>3 DEF CalmDaemon
<1>4. CASE UNCHANGED vars
  BY <1>4 DEF Inv, ClientTypes, OtherTypes, vars, server, pty, tick, process, user, history, news
<1>. QED
  BY <1>1, <1>2, <1>3, <1>4 DEF Calm

LEMMA CalmHomes ==
  ASSUME Inv, Calm
  PROVE  LiveHome'
<1>1. \A c \in Client : home'[c] \in Session => home'[c] = home[c]
        /\ (c \in told \cup deaf => c \in told' \cup deaf')
  <2>1. ASSUME NEW c \in Client, CalmHandler(c)
        PROVE  \A d \in Client : home'[d] \in Session =>
                 home'[d] = home[d] /\ (d \in told \cup deaf => d \in told' \cup deaf')
    BY <2>1, RegistryAssumption DEF Inv, ClientTypes, CalmHandler, AttachControl, Detach, HangUp,
       Cleanup, Evict, Learn, Input, MovesOn, server, history, news
  <2>2. CASE CalmTick \/ CalmDaemon \/ UNCHANGED vars
    BY <2>2 DEF CalmTick, TickWake, TickLock, TickIdle, TickEnd, Timeout, CalmDaemon,
       ProgramExit, ReaderEof, ProgramOutput, Quit, GracefulShutdown, IdleShutdown, Stop,
       server, history, news, vars
  <2>. QED
    BY <2>1, <2>2 DEF Calm
<1>2. live' = live
  BY CalmTable
<1>. QED
  BY <1>1, <1>2 DEF Inv, LiveHome

LEMMA CalmWaits ==
  ASSUME Inv, Calm
  PROVE  WaitsAgree'
<1>1. panes' = panes
  BY CalmTable
<1>2. CASE \E c \in Client : Cleanup(c)
  <2>1. PICK c \in Client : Cleanup(c)
    BY <1>2
  <2>2. /\ \A p \in PaneId : waits'[p] = IF waits[p] = c THEN NoClient ELSE waits[p]
        /\ \A d \in Client : waiting'[d] = IF d = c THEN NoPane ELSE waiting[d]
        /\ \A d \in Client : link'[d] = IF d = c THEN "off" ELSE link[d]
        /\ lost' = lost
    BY <2>1 DEF Inv, ClientTypes, Cleanup, CleanWaits
  <2>3. NoPane \notin PaneId /\ AllPanes' = AllPanes
    BY <1>1, RegistryAssumption DEF PaneId, AllPanes
  <2>4. ASSUME NEW d \in Client, waiting'[d] \in PaneId \ lost
        PROVE  waits'[waiting'[d]] = d /\ waiting'[d] \in AllPanes'
    BY <2>2, <2>3, <2>4 DEF Inv, WaitsAgree
  <2>5. ASSUME NEW p \in PaneId, waits'[p] # NoClient
        PROVE  waiting'[waits'[p]] = p /\ link'[waits'[p]] # "off"
    <3>1. waits'[p] = waits[p] /\ waits[p] # c /\ waits[p] \in Client
      BY <2>2, <2>5 DEF Inv, ClientTypes
    <3>2. waiting[waits[p]] = p /\ link[waits[p]] # "off"
      BY <2>5, <3>1 DEF Inv, WaitsAgree
    <3>. QED
      BY <2>2, <3>1, <3>2
  <2>. QED
    BY <2>2, <2>4, <2>5 DEF WaitsAgree
<1>3. CASE ~ \E c \in Client : Cleanup(c)
  <2>1. ASSUME NEW c \in Client, CalmHandler(c)
        PROVE  UNCHANGED <<waits, waiting, lost>>
               /\ \A d \in Client : link[d] # "off" => link'[d] # "off"
    <3>1. UNCHANGED <<waits, waiting, lost>>
      BY <1>3, <2>1 DEF CalmHandler, AttachControl, Detach, HangUp, Evict, Learn, Input,
         server, user, history, news
    <3>2. link' = link \/ link' = [link EXCEPT ![c] = "on"]
          \/ link' = [link EXCEPT ![c] = "closing"]
      BY <1>3, <2>1 DEF CalmHandler, AttachControl, Detach, HangUp, Evict, Learn, Input, user
    <3>. QED
      BY <3>1, <3>2 DEF Inv, ClientTypes
  <2>2. ASSUME CalmTick \/ CalmDaemon \/ UNCHANGED vars
        PROVE  UNCHANGED <<waits, waiting, lost, link>>
    BY <2>2 DEF CalmTick, TickWake, TickLock, TickIdle, TickEnd, Timeout, CalmDaemon,
       ProgramExit, ReaderEof, ProgramOutput, Quit, GracefulShutdown, IdleShutdown, Stop,
       server, user, history, news, vars
  <2>3. UNCHANGED <<waits, waiting, lost>>
        /\ \A d \in Client : link[d] # "off" => link'[d] # "off"
    BY <2>1, <2>2 DEF Calm, user
  <2>. QED
    BY <1>1, <2>3, StillWaiting DEF Inv
<1>. QED
  BY <1>2, <1>3

LEMMA CalmKeeps ==
  ASSUME Inv, Calm
  PROVE  Inv'
<1>1. UNCHANGED <<live, newer, panes, next, unstarted>>
  BY CalmTable
<1>2. Table'
  BY <1>1 DEF Inv, Table, Sessions, PaneTable
<1>. QED
  BY <1>2, CalmTypes, CalmHomes, CalmWaits DEF Inv

-----------------------------------------------------------------------------
(* The theorems.                                                           *)

LEMMA InitInv == Init => Inv
<1>1. ASSUME Init PROVE Inv
  <2>1. Table
    BY <1>1, RegistryAssumption, FS_EmptySet DEF Init, Table, Sessions, PaneTable, Ordered
  <2>2. ClientTypes /\ OtherTypes
    BY <1>1 DEF Init, ClientTypes, OtherTypes
  <2>3. LiveHome
    BY <1>1, RegistryAssumption DEF Init, LiveHome
  <2>4. WaitsAgree
    BY <1>1, RegistryAssumption DEF Init, WaitsAgree, PaneId
  <2>. QED
    BY <2>1, <2>2, <2>3, <2>4 DEF Inv
<1>. QED
  BY <1>1

LEMMA NextInv == Inv /\ [Next]_vars => Inv'
<1>. SUFFICES ASSUME Inv, [Next]_vars PROVE Inv'
  OBVIOUS
<1>1. ASSUME NEW c \in Client, Handler(c) PROVE Inv'
  <2>1. CASE CalmHandler(c)
    BY <2>1, CalmKeeps DEF Calm
  <2>2. CASE \E s \in Session : Attach(c, s) \/ SwitchSession(c, s) \/ KillSession(c, s)
    BY <2>2, AttachKeeps, SwitchKeeps, KillKeeps
  <2>3. CASE \E p \in PaneId : ClosePane(c, p)
    BY <2>3, CloseKeeps
  <2>4. CASE \E s \in Session, p \in PaneId : ClosePaneById(c, s, p)
    BY <2>4, CloseByIdKeeps
  <2>5. CASE \E s \in Session, wait \in BOOLEAN : CreatePane(c, s, wait)
    BY <2>5, CreateKeeps
  <2>6. CASE \E t \in Template : ApplyTemplate(c, t)
    BY <2>6, TemplateKeeps
  <2>. QED
    BY <1>1, <2>1, <2>2, <2>3, <2>4, <2>5, <2>6 DEF Handler, CalmHandler
<1>2. CASE Tick \/ Timeout
  <2>1. CASE CalmTick
    BY <2>1, CalmKeeps DEF Calm
  <2>2. CASE \E s \in todo : TickSession(s)
    BY <2>2, TickKeeps
  <2>. QED
    BY <1>2, <2>1, <2>2 DEF Tick, CalmTick
<1>3. CASE CalmDaemon
  BY <1>3, CalmKeeps DEF Calm
<1>4. CASE UNCHANGED vars
  BY <1>4, CalmKeeps DEF Calm
<1>. QED
  BY <1>1, <1>2, <1>3, <1>4 DEF Next, CalmDaemon

LEMMA AlwaysInv == Spec => []Inv
BY InitInv, NextInv, PTL DEF Spec

\* The types of the daemon's tables; the sessions are in the order they were
\* attached to, and no pane is in two of them (server/, tick.rs).
THEOREM RegistryTypes == Spec => []TypeOK
<1>1. Inv => TypeOK
  BY TypesFromParts DEF Inv
<1>. QED
  BY <1>1, AlwaysInv, PTL

\* A client in the table is on a session that exists, or was told that its
\* session is gone, or its channel was full when it should have been told:
\* whatever is killed, exits, is switched or replaced
\* (finalize_session_removal, and the tick loop's removal of empty sessions).
THEOREM Homes == Spec => []LiveHome
<1>1. Inv => LiveHome
  BY DEF Inv
<1>. QED
  BY <1>1, AlwaysInv, PTL

\* A registered waiter blocks on the pane it is registered for, over an open
\* connection, and a command line that blocks is registered for a pane that
\* exists, unless a template dropped the pane (pending_pane_waits).
THEOREM Waiters == Spec => []WaitsAgree
<1>1. Inv => WaitsAgree
  BY DEF Inv
<1>. QED
  BY <1>1, AlwaysInv, PTL

LEMMA TickDrops ==
  ASSUME Inv, NEW s \in todo, TickSession(s),
         NEW c \in Client, home[c] # NoSession, home'[c] = NoSession
  PROVE  live' = {}
<1>1. s \in Session
  BY DEF Inv, OtherTypes
<1>2. CASE ~(panes[s] \subseteq dead)
  BY <1>2 DEF TickSession
<1>3. CASE panes[s] \subseteq dead /\ LastSession(s)
  BY <1>3 DEF TickSession, LastSession
<1>4. CASE panes[s] \subseteq dead /\ ~LastSession(s)
  <2>1. Finalize(s, live \ {s}, Forgotten(newer, s)) /\ live \ {s} # {}
    BY <1>4 DEF TickSession, LastSession
  <2>2. home'[c] \in {home[c], Fallback(live \ {s}, Forgotten(newer, s), s)}
    BY <2>1 DEF Finalize
  <2>3. Fallback(live \ {s}, Forgotten(newer, s), s) \in live \ {s}
    BY <2>1, ForgottenOrdered, FS_RemoveElement, FallbackLives DEF Inv, Table, Sessions
  <2>4. live \subseteq Session
    BY DEF Inv, Table, Sessions
  <2>. QED
    BY <2>2, <2>3, <2>4, RegistryAssumption
<1>. QED
  BY <1>2, <1>3, <1>4

\* A pass of the tick loop drops a client only if it leaves no session at all:
\* the session that a client falls back to is one of the others, however many of
\* them end in the same pass (the had_session branch of run_tick_loop).
THEOREM LastOnly == Spec => LastSessionOnly
<1>1. ASSUME Inv, [Next]_vars,
             NEW c \in Client, pc = "pass", home[c] # NoSession, home'[c] = NoSession
      PROVE  live' = {}
  <2>1. ASSUME NEW d \in Client, Handler(d) PROVE home' = home
    BY <1>1, <2>1 DEF Handler, Attach, SwitchSession, KillSession, AttachControl, Detach,
       HangUp, Cleanup, Evict, Learn, Input, ClosePane, ClosePaneById, CreatePane,
       ApplyTemplate, Connected, LockFree, server
  <2>2. CASE \E s \in todo : TickSession(s)
    BY <1>1, <2>2, TickDrops
  <2>3. ASSUME CalmTick \/ CalmDaemon \/ UNCHANGED vars PROVE home' = home
    BY <2>3 DEF CalmTick, TickWake, TickLock, TickIdle, TickEnd, Timeout, CalmDaemon,
       ProgramExit, ReaderEof, ProgramOutput, Quit, GracefulShutdown, IdleShutdown, Stop,
       server, vars
  <2>. QED
    BY <1>1, <2>1, <2>2, <2>3 DEF Next, Tick, CalmTick, CalmDaemon
<1>2. Inv /\ [Next]_vars =>
        [\A c \in Client :
           (pc = "pass" /\ home[c] # NoSession /\ home'[c] = NoSession) => live' = {}]_vars
  BY <1>1
<1>. QED
  BY <1>2, AlwaysInv, PTL DEF Spec, LastSessionOnly
=============================================================================
