------------------------ MODULE ScreenSyncViewProofs ------------------------
(***************************************************************************)
(* What a client shows once it has read its channel, for any number of     *)
(* clients, sessions, panes and rows and any channel capacity.             *)
(***************************************************************************)
EXTENDS ScreenSyncProofs

(* What is in a channel, and how the client will read it.                  *)

IsState(m) == m.kind = "state"

\* m is a frame that carries row r of pane p.
Carries(m, p, r) == m.kind = "frame" /\ m.pane = p /\ r \in m.lines

\* The client that expects the panes e, and reads the channel q, expects pane p
\* when it comes to message i: what the last StateSync before i says.
Expects(e, q, i, p) ==
    \/ p \in e /\ \A j \in 1..(i - 1) : ~IsState(q[j])
    \/ \E j \in 1..(i - 1) :
         /\ IsState(q[j]) /\ q[j].session = SessionOf[p]
         /\ \A k \in (j + 1)..(i - 1) : ~IsState(q[k])

\* Row r of pane p will show v: it does and nothing in q changes it, or the last
\* message that carries it has v and is not ignored.
Shows(e, g, q, p, r, v) ==
    \/ g[p][r] = v /\ \A i \in 1..Len(q) : ~Carries(q[i], p, r)
    \/ \E i \in 1..Len(q) :
         /\ Carries(q[i], p, r) /\ q[i].cells[r] = v /\ Expects(e, q, i, p)
         /\ \A k \in (i + 1)..Len(q) : ~Carries(q[k], p, r)

LEMMA AppendFacts ==
    ASSUME NEW q \in Seq(Message), NEW m \in Message
    PROVE  /\ Append(q, m) \in Seq(Message) /\ Len(Append(q, m)) = Len(q) + 1
           /\ Len(q) \in Nat
           /\ Append(q, m)[Len(q) + 1] = m
           /\ \A i \in 1..Len(q) : Append(q, m)[i] = q[i]
  OBVIOUS

LEMMA TailFacts ==
    ASSUME NEW q \in Seq(Message), q # <<>>
    PROVE  /\ Tail(q) \in Seq(Message) /\ Len(Tail(q)) = Len(q) - 1
           /\ Len(q) \in Nat /\ Len(q) >= 1 /\ Head(q) = q[1]
           /\ \A i \in 1..(Len(q) - 1) : Tail(q)[i] = q[i + 1]
  OBVIOUS

\* A push changes nothing for the messages before it ...
LEMMA ExpectsBefore ==
    ASSUME NEW q \in Seq(Message), NEW m \in Message, NEW e, NEW p,
           NEW i \in 1..(Len(q) + 1)
    PROVE  Expects(e, Append(q, m), i, p) <=> Expects(e, q, i, p)
  <1>1. \A j \in 1..(i - 1) : Append(q, m)[j] = q[j]
    BY AppendFacts
  <1>2. \A j \in 1..(i - 1) : \A k \in (j + 1)..(i - 1) : k \in 1..(i - 1)
    OBVIOUS
  <1> QED
    BY <1>1, <1>2 DEF Expects

\* ... and after it, the client expects what a StateSync says.
LEMMA ExpectsAfter ==
    ASSUME NEW q \in Seq(Message), NEW m \in Message, NEW e, NEW p
    PROVE  Expects(e, Append(q, m), Len(Append(q, m)) + 1, p) <=>
             IF IsState(m) THEN m.session = SessionOf[p]
             ELSE Expects(e, q, Len(q) + 1, p)
  <1> DEFINE a == Append(q, m)
             n == Len(q)
  <1>1. n \in Nat /\ Len(a) = n + 1 /\ a[n + 1] = m /\ \A i \in 1..n : a[i] = q[i]
    BY AppendFacts
  <1>2. Expects(e, a, Len(a) + 1, p) <=>
          \/ p \in e /\ \A j \in 1..(n + 1) : ~IsState(a[j])
          \/ \E j \in 1..(n + 1) :
               /\ IsState(a[j]) /\ a[j].session = SessionOf[p]
               /\ \A k \in (j + 1)..(n + 1) : ~IsState(a[k])
    BY <1>1 DEF Expects
  <1>3. Expects(e, q, n + 1, p) <=>
          \/ p \in e /\ \A j \in 1..n : ~IsState(q[j])
          \/ \E j \in 1..n :
               /\ IsState(q[j]) /\ q[j].session = SessionOf[p]
               /\ \A k \in (j + 1)..n : ~IsState(q[k])
    BY <1>1 DEF Expects
  <1> HIDE DEF a, n
  <1>4. CASE IsState(m)
    <2>1. \A j \in 1..n : n + 1 \in (j + 1)..(n + 1)
      BY <1>1
    <2>2. n + 1 \in 1..(n + 1) /\ \A k \in (n + 1 + 1)..(n + 1) : FALSE
      BY <1>1
    <2>3. \A j \in 1..(n + 1) : j \in 1..n \/ j = n + 1
      BY <1>1
    <2> QED
      BY <1>1, <1>2, <1>4, <2>1, <2>2, <2>3 DEF a
  <1>5. CASE ~IsState(m)
    <2>1. \A j \in 1..(n + 1) : j \in 1..n \/ j = n + 1
      BY <1>1
    <2>2. \A j \in 1..n : j \in 1..(n + 1)
      BY <1>1
    <2>3. \A j \in 1..n : \A k \in (j + 1)..(n + 1) : k \in (j + 1)..n \/ k = n + 1
      BY <1>1
    <2>4. \A j \in 1..n : \A k \in (j + 1)..n : k \in 1..n /\ k \in (j + 1)..(n + 1)
      BY <1>1
    <2> QED
      BY <1>1, <1>2, <1>3, <1>5, <2>1, <2>2, <2>3, <2>4 DEF a, n
  <1> QED
    BY <1>4, <1>5

\* The client reads a message: those behind it mean the same.
LEMMA ExpectsRest ==
    ASSUME NEW q \in Seq(Message), q # <<>>, NEW e, NEW f, NEW p \in Pane,
           NEW i \in 1..Len(q),
           IsState(Head(q)) => f = PanesOf(Head(q).session),
           ~IsState(Head(q)) => f = e
    PROVE  Expects(f, Tail(q), i, p) <=> Expects(e, q, i + 1, p)
  <1> DEFINE t == Tail(q)
  <1>1. /\ Len(t) = Len(q) - 1 /\ Len(q) \in Nat /\ Len(q) >= 1 /\ Head(q) = q[1]
        /\ \A j \in 1..(i - 1) : t[j] = q[j + 1]
    BY TailFacts
  <1>2. Expects(f, t, i, p) <=>
          \/ p \in f /\ \A j \in 1..(i - 1) : ~IsState(q[j + 1])
          \/ \E j \in 1..(i - 1) :
               /\ IsState(q[j + 1]) /\ q[j + 1].session = SessionOf[p]
               /\ \A k \in (j + 1)..(i - 1) : ~IsState(q[k + 1])
    <2>1. \A j \in 1..(i - 1) : \A k \in (j + 1)..(i - 1) : k \in 1..(i - 1)
      OBVIOUS
    <2> QED
      BY <1>1, <2>1 DEF Expects
  <1>3. Expects(e, q, i + 1, p) <=>
          \/ p \in e /\ \A j \in 1..i : ~IsState(q[j])
          \/ \E j \in 1..i :
               /\ IsState(q[j]) /\ q[j].session = SessionOf[p]
               /\ \A k \in (j + 1)..i : ~IsState(q[k])
    <2>1. (i + 1) - 1 = i
      OBVIOUS
    <2> QED
      BY <2>1 DEF Expects
  <1>4. \A j \in 1..i : j = 1 \/ (j - 1 \in 1..(i - 1) /\ (j - 1) + 1 = j)
    OBVIOUS
  <1>5. \A j \in 1..(i - 1) : j + 1 \in 1..i
    OBVIOUS
  <1>6. \A j \in 1..(i - 1) : \A k \in (j + 1)..(i - 1) : k + 1 \in (j + 1 + 1)..i
    OBVIOUS
  <1>7. \A j \in 1..i : \A k \in (j + 1)..i :
          k - 1 \in 1..(i - 1) /\ (k - 1) + 1 = k /\ k - 1 \in j..(i - 1)
    OBVIOUS
  <1>8. p \in f <=> IF IsState(q[1]) THEN q[1].session = SessionOf[p] ELSE p \in e
    BY <1>1 DEF PanesOf
  <1> HIDE DEF t
  <1>9. Expects(f, t, i, p) => Expects(e, q, i + 1, p)
    <2>1. CASE p \in f /\ \A j \in 1..(i - 1) : ~IsState(q[j + 1])
      <3>1. \A k \in 2..i : ~IsState(q[k])
        <4>1. \A k \in 2..i : k - 1 \in 1..(i - 1) /\ (k - 1) + 1 = k
          OBVIOUS
        <4> QED
          BY <2>1, <4>1
      <3>2. CASE IsState(q[1])
        <4>1. 1 \in 1..i /\ (1 + 1)..i = 2..i
          OBVIOUS
        <4> QED
          BY <1>3, <1>8, <2>1, <3>1, <3>2, <4>1
      <3>3. CASE ~IsState(q[1])
        <4>1. \A j \in 1..i : j = 1 \/ j \in 2..i
          OBVIOUS
        <4> QED
          BY <1>3, <1>8, <2>1, <3>1, <3>3, <4>1
      <3> QED
        BY <3>2, <3>3
    <2>2. ASSUME NEW j \in 1..(i - 1), IsState(q[j + 1]), q[j + 1].session = SessionOf[p],
                 \A k \in (j + 1)..(i - 1) : ~IsState(q[k + 1])
          PROVE  Expects(e, q, i + 1, p)
      <3>1. \A k \in ((j + 1) + 1)..i : k - 1 \in (j + 1)..(i - 1) /\ (k - 1) + 1 = k
        OBVIOUS
      <3>2. \A k \in ((j + 1) + 1)..i : ~IsState(q[k])
        BY <2>2, <3>1
      <3> QED
        BY <1>3, <1>5, <2>2, <3>2
    <2> QED
      BY <1>2, <2>1, <2>2
  <1>10. Expects(e, q, i + 1, p) => Expects(f, t, i, p)
    <2>1. CASE p \in e /\ \A j \in 1..i : ~IsState(q[j])
      <3>1. 1 \in 1..i
        OBVIOUS
      <3> QED
        BY <1>2, <1>5, <1>8, <2>1, <3>1
    <2>2. ASSUME NEW j \in 1..i, IsState(q[j]), q[j].session = SessionOf[p],
                 \A k \in (j + 1)..i : ~IsState(q[k])
          PROVE  Expects(f, t, i, p)
      <3>1. CASE j = 1
        <4>1. \A k \in 1..(i - 1) : k + 1 \in (1 + 1)..i
          OBVIOUS
        <4> QED
          BY <1>2, <1>8, <2>2, <3>1, <4>1
      <3>2. CASE j # 1
        <4>1. j - 1 \in 1..(i - 1) /\ (j - 1) + 1 = j
          BY <3>2
        <4>2. \A k \in ((j - 1) + 1)..(i - 1) : k + 1 \in (j + 1)..i
          OBVIOUS
        <4> QED
          BY <1>2, <2>2, <4>1, <4>2
      <3> QED
        BY <3>1, <3>2
    <2> QED
      BY <1>3, <2>1, <2>2
  <1> QED
    BY <1>9, <1>10 DEF t

-----------------------------------------------------------------------------
(* The same of what rows will show.                                        *)

\* A message that does not carry the row is pushed.
LEMMA ShowsStill ==
    ASSUME NEW q \in Seq(Message), NEW m \in Message, NEW e, NEW g, NEW p, NEW r, NEW v,
           ~Carries(m, p, r), Shows(e, g, q, p, r, v)
    PROVE  Shows(e, g, Append(q, m), p, r, v)
  <1> DEFINE a == Append(q, m)
  <1>1. Len(q) \in Nat /\ Len(a) = Len(q) + 1 /\ a[Len(q) + 1] = m
        /\ \A i \in 1..Len(q) : a[i] = q[i]
    BY AppendFacts
  <1>2. \A i \in 1..Len(a) : i \in 1..Len(q) \/ i = Len(q) + 1
    BY <1>1
  <1>3. CASE g[p][r] = v /\ \A i \in 1..Len(q) : ~Carries(q[i], p, r)
    <2>1. \A i \in 1..Len(a) : ~Carries(a[i], p, r)
      BY <1>1, <1>2, <1>3
    <2> QED
      BY <1>3, <2>1 DEF Shows
  <1>4. ASSUME NEW i \in 1..Len(q),
               Carries(q[i], p, r), q[i].cells[r] = v, Expects(e, q, i, p),
               \A k \in (i + 1)..Len(q) : ~Carries(q[k], p, r)
        PROVE  Shows(e, g, a, p, r, v)
    <2>1. i \in 1..(Len(q) + 1) /\ i \in 1..Len(a) /\ a[i] = q[i]
      BY <1>1
    <2>2. Expects(e, a, i, p)
      BY <1>4, <2>1, ExpectsBefore
    <2>3. \A k \in (i + 1)..Len(a) : (k \in (i + 1)..Len(q) /\ k \in 1..Len(q)) \/ k = Len(q) + 1
      BY <1>1
    <2>4. \A k \in (i + 1)..Len(a) : ~Carries(a[k], p, r)
      BY <1>1, <1>4, <2>3
    <2> QED
      BY <1>4, <2>1, <2>2, <2>4 DEF Shows
  <1> QED
    BY <1>3, <1>4 DEF Shows

\* A frame that carries the row is pushed and will not be ignored.
LEMMA ShowsNew ==
    ASSUME NEW q \in Seq(Message), NEW m \in Message, NEW e, NEW g, NEW p, NEW r,
           Carries(m, p, r), Expects(e, q, Len(q) + 1, p)
    PROVE  Shows(e, g, Append(q, m), p, r, m.cells[r])
  <1> DEFINE a == Append(q, m)
  <1>1. Len(q) \in Nat /\ Len(a) = Len(q) + 1 /\ a[Len(q) + 1] = m
    BY AppendFacts
  <1>2. Len(q) + 1 \in 1..(Len(q) + 1)
    BY <1>1
  <1>3. Expects(e, a, Len(q) + 1, p)
    BY <1>2, ExpectsBefore
  <1>4. \A k \in (Len(q) + 1 + 1)..Len(a) : FALSE
    BY <1>1
  <1> QED
    BY <1>1, <1>2, <1>3, <1>4 DEF Shows

\* The client reads a message.
LEMMA ShowsRead ==
    ASSUME NEW q \in Seq(Message), q # <<>>, NEW e, NEW f, NEW p \in Pane, NEW r \in Row,
           NEW g, NEW h, NEW v,
           IsState(Head(q)) => f = PanesOf(Head(q).session),
           ~IsState(Head(q)) => f = e,
           IF Carries(Head(q), p, r) /\ p \in e THEN h[p][r] = Head(q).cells[r]
           ELSE h[p][r] = g[p][r],
           Shows(e, g, q, p, r, v)
    PROVE  Shows(f, h, Tail(q), p, r, v)
  <1> DEFINE t == Tail(q)
  <1>1. /\ Len(t) = Len(q) - 1 /\ Len(q) \in Nat /\ Len(q) >= 1 /\ Head(q) = q[1]
        /\ \A j \in 1..(Len(q) - 1) : t[j] = q[j + 1]
    BY TailFacts
  <1>2. \A j \in 1..Len(t) : j + 1 \in 1..Len(q) /\ t[j] = q[j + 1]
    BY <1>1
  <1>3. 1 \in 1..Len(q)
    BY <1>1
  <1>4. CASE g[p][r] = v /\ \A i \in 1..Len(q) : ~Carries(q[i], p, r)
    <2>1. \A i \in 1..Len(t) : ~Carries(t[i], p, r)
      BY <1>2, <1>4
    <2>2. h[p][r] = v
      BY <1>1, <1>3, <1>4
    <2> QED
      BY <2>1, <2>2 DEF Shows
  <1>5. ASSUME NEW i \in 1..Len(q),
               Carries(q[i], p, r), q[i].cells[r] = v, Expects(e, q, i, p),
               \A k \in (i + 1)..Len(q) : ~Carries(q[k], p, r)
        PROVE  Shows(f, h, t, p, r, v)
    <2>1. CASE i = 1
      <3>1. p \in e
        <4>1. \A j \in 1..(1 - 1) : FALSE
          OBVIOUS
        <4> QED
          BY <1>5, <2>1, <4>1 DEF Expects
      <3>2. h[p][r] = v
        BY <1>1, <1>5, <2>1, <3>1
      <3>3. \A k \in 1..Len(t) : k + 1 \in (1 + 1)..Len(q)
        BY <1>1
      <3>4. \A k \in 1..Len(t) : ~Carries(t[k], p, r)
        BY <1>2, <1>5, <2>1, <3>3
      <3> QED
        BY <3>2, <3>4 DEF Shows
    <2>2. CASE i # 1
      <3>1. i - 1 \in 1..Len(t) /\ i - 1 \in 1..Len(q) /\ (i - 1) + 1 = i
        BY <1>1, <2>2
      <3>2. t[i - 1] = q[i]
        BY <1>2, <3>1
      <3>3. Expects(f, t, i - 1, p) <=> Expects(e, q, (i - 1) + 1, p)
        BY <3>1, ExpectsRest
      <3>4. \A k \in ((i - 1) + 1)..Len(t) : k \in 1..Len(t) /\ k + 1 \in (i + 1)..Len(q)
        BY <1>1
      <3>5. \A k \in ((i - 1) + 1)..Len(t) : ~Carries(t[k], p, r)
        BY <1>2, <1>5, <3>4
      <3> QED
        BY <1>5, <3>1, <3>2, <3>3, <3>5 DEF Shows
    <2> QED
      BY <2>1, <2>2
  <1> QED
    BY <1>4, <1>5 DEF Shows

-----------------------------------------------------------------------------
(* The invariant.                                                          *)

NoFrameOf(M, p) == \A m \in M : ~(m.kind = "frame" /\ m.pane = p)

\* The first frames of a session go out behind its StateSync, and none is missing.
Outgoing(c) ==
    sess[c] # NoSession =>
      \A m \in outbox[c] : IsState(m) =>
        m.session = sess[c] /\ \A p \in PanesOf(sess[c]) : ~NoFrameOf(outbox[c], p)

\* Once the StateSync of its session is in the channel, a client will expect the panes
\* of the session, and show of each row what was pushed last.
WillShow(c) ==
    (sess[c] # NoSession /\ ~blind[c] /\ \A m \in outbox[c] : ~IsState(m)) =>
      /\ \A p \in Pane :
           Expects(expected[c], queue[c], Len(queue[c]) + 1, p) <=> SessionOf[p] = sess[c]
      /\ \A p \in PanesOf(sess[c]), r \in Row : NoFrameOf(outbox[c], p) =>
           \/ Shows(expected[c], grid[c], queue[c], p, r, sent[c][p][r])
           \/ <<p, r>> \in dropped[c]
           \/ p \in reordered[c]

View(c) == Outgoing(c) /\ WillShow(c)

\* A step that has nothing to do with the client, or only takes it out of the table.
LEMMA ViewApart ==
    ASSUME NEW k \in Client, View(k), sess'[k] \in {sess[k], NoSession},
           outbox'[k] = outbox[k], queue'[k] = queue[k], expected'[k] = expected[k],
           grid'[k] = grid[k], sent'[k] = sent[k], blind'[k] = blind[k],
           dropped[k] \subseteq dropped'[k], reordered'[k] = reordered[k]
    PROVE  View(k)'
  <1>1. Outgoing(k)'
    BY DEF View, Outgoing
  <1>2. WillShow(k)'
    BY DEF View, WillShow
  <1> QED
    BY <1>1, <1>2 DEF View

LEMMA ViewQuiet ==
    ASSUME \A k \in Client : View(k), UNCHANGED <<sess, outbox, queue, view, history>>
    PROVE  \A k \in Client : View(k)'
  BY ViewApart DEF view, history

\* A client that starts on a session has everything still before it.
LEMMA ViewStart ==
    ASSUME NEW c \in Client, NEW s \in Session,
           sess'[c] = s, StateSync(s, screen') \subseteq outbox'[c],
           \A m \in outbox'[c] : m \in StateSync(s, screen') \/ m.kind = "switched"
    PROVE  View(c)'
  <1> DEFINE new == StateSync(s, screen')
             first == [kind |-> "state", session |-> s]
  <1>1. first \in new /\ IsState(first)
    BY DEF StateSync, IsState
  <1>2. \A m \in outbox'[c] : IsState(m) => m = first
    BY DEF StateSync, FullMsg, IsState
  <1>3. \A p \in PanesOf(s) : ~NoFrameOf(outbox'[c], p)
    <2>1. \A p \in PanesOf(s) : FullMsg(p, screen'[p]) \in outbox'[c]
      BY DEF StateSync
    <2> QED
      BY <2>1 DEF FullMsg, NoFrameOf
  <1>4. Outgoing(c)'
    BY <1>2, <1>3 DEF Outgoing
  <1>5. WillShow(c)'
    BY <1>1 DEF WillShow
  <1> QED
    BY <1>4, <1>5 DEF View

LEMMA AttachView ==
    ASSUME TypeOK, \A k \in Client : View(k),
           NEW c \in Client, NEW s \in Session, NEW Z \in SUBSET Pane, Attach(c, s, Z)
    PROVE  \A k \in Client : View(k)'
  <1>1. View(c)'
    <2>1. sess'[c] = s /\ outbox'[c] = StateSync(s, screen')
      BY DEF Attach, TypeOK
    <2> QED
      BY <2>1, ViewStart
  <1>2. ASSUME NEW k \in Client \ {c} PROVE View(k)'
    <2>1. sess'[k] = sess[k] /\ outbox'[k] = outbox[k] /\ UNCHANGED <<queue, view, history>>
      BY DEF Attach, TypeOK
    <2> QED
      BY <2>1, ViewApart DEF view, history
  <1> QED
    BY <1>1, <1>2

LEMMA SwitchView ==
    ASSUME TypeOK, \A k \in Client : View(k),
           NEW c \in Client, NEW t \in Target, NEW Z \in SUBSET Pane, SwitchSession(c, t, Z)
    PROVE  \A k \in Client : View(k)'
  <1>1. View(c)'
    <2>1. sess'[c] = t
          /\ outbox'[c] = {[kind |-> "switched", session |-> t]} \cup StateSync(t, screen')
      BY DEF SwitchSession, TypeOK
    <2>2. t \in Session
      BY ConstantsAssumption
    <2> QED
      BY <2>1, <2>2, ViewStart
  <1>2. ASSUME NEW k \in Client \ {c} PROVE View(k)'
    <2>1. sess'[k] = sess[k] /\ outbox'[k] = outbox[k] /\ dropped'[k] = dropped[k]
          /\ reordered'[k] = reordered[k] /\ UNCHANGED <<queue, view, sent, blind>>
      BY DEF SwitchSession, TypeOK
    <2> QED
      BY <2>1, ViewApart DEF view
  <1> QED
    BY <1>1, <1>2

\* The handler takes the next message out of its responses.
LEMMA OutgoingLess ==
    ASSUME NEW c \in Client, Outgoing(c), NEW m \in NextMsg(c), TypeOK,
           sess'[c] = sess[c], outbox'[c] = outbox[c] \ {m}
    PROVE  Outgoing(c)'
  <1>1. \A n \in outbox[c] : IsState(n) => m.kind # "frame"
    <2>1. \A n \in outbox[c] : Rank(m) <= Rank(n)
      BY DEF NextMsg
    <2>2. \A n : IsState(n) => Rank(n) = 1
      BY DEF IsState, Rank
    <2>3. m.kind = "frame" => Rank(m) = 2
      BY DEF Rank
    <2> QED
      BY <2>1, <2>2, <2>3
  <1>2. \A n \in outbox'[c] : n \in outbox[c]
    OBVIOUS
  <1>3. ASSUME NEW n \in outbox[c], IsState(n), NEW p, ~NoFrameOf(outbox[c], p)
        PROVE  ~NoFrameOf(outbox'[c], p)
    BY <1>1, <1>3 DEF NoFrameOf
  <1> QED
    BY <1>2, <1>3 DEF Outgoing

LEMMA PushedView ==
    ASSUME TypeOK, Structure, \A k \in Client : View(k),
           NEW c \in Client, NEW m \in NextMsg(c), Pushed(c, m),
           outbox' = [outbox EXCEPT ![c] = @ \ {m}], UNCHANGED <<sess, view>>
    PROVE  \A k \in Client : View(k)'
  <1>1. /\ outbox'[c] = outbox[c] \ {m} /\ m \in outbox[c] /\ m \in Message
        /\ queue'[c] = Append(queue[c], m) /\ queue[c] \in Seq(Message)
        /\ blind'[c] = (blind[c] /\ m.kind # "state")
        /\ UNCHANGED <<dropped, reordered, sess, expected, grid>>
    BY DEF Pushed, TypeOK, NextMsg, view
  <1>2. \A k \in Client \ {c} : View(k)'
    <2>1. ASSUME NEW k \in Client \ {c}
          PROVE  outbox'[k] = outbox[k] /\ queue'[k] = queue[k] /\ blind'[k] = blind[k]
                 /\ sent'[k] = sent[k]
      BY DEF Pushed, TypeOK
    <2> QED
      BY <1>1, <2>1, ViewApart
  <1>3. Outgoing(c)'
    BY <1>1, OutgoingLess DEF View
  <1>4. ASSUME sess[c] # NoSession, ~blind'[c], \A n \in outbox'[c] : ~IsState(n)
        PROVE  /\ \A p \in Pane :
                    Expects(expected[c], queue'[c], Len(queue'[c]) + 1, p) <=>
                      SessionOf[p] = sess[c]
               /\ \A p \in PanesOf(sess[c]), r \in Row : NoFrameOf(outbox'[c], p) =>
                    \/ Shows(expected[c], grid[c], queue'[c], p, r, sent'[c][p][r])
                    \/ <<p, r>> \in dropped[c]
                    \/ p \in reordered[c]
    <2>1. CASE IsState(m)
      <3>1. m.session = sess[c] /\ \A p \in PanesOf(sess[c]) : ~NoFrameOf(outbox[c], p)
        BY <1>1, <1>4, <2>1 DEF View, Outgoing
      <3>2. \A p \in PanesOf(sess[c]) : ~NoFrameOf(outbox'[c], p)
        BY <1>1, <2>1, <3>1 DEF NoFrameOf, IsState
      <3>3. \A p \in Pane : Expects(expected[c], queue'[c], Len(queue'[c]) + 1, p) <=>
                              m.session = SessionOf[p]
        BY <1>1, <2>1, ExpectsAfter
      <3> QED
        BY <3>1, <3>2, <3>3
    <2>2. CASE ~IsState(m)
      <3>1. ~blind[c] /\ \A n \in outbox[c] : ~IsState(n)
        BY <1>1, <1>4, <2>2, Zenon DEF IsState
      <3>2. /\ \A p \in Pane :
                 Expects(expected[c], queue[c], Len(queue[c]) + 1, p) <=> SessionOf[p] = sess[c]
            /\ \A p \in PanesOf(sess[c]), r \in Row : NoFrameOf(outbox[c], p) =>
                 \/ Shows(expected[c], grid[c], queue[c], p, r, sent[c][p][r])
                 \/ <<p, r>> \in dropped[c]
                 \/ p \in reordered[c]
        BY <1>4, <3>1 DEF View, WillShow
      <3>3. \A p \in Pane :
              Expects(expected[c], queue'[c], Len(queue'[c]) + 1, p) <=> SessionOf[p] = sess[c]
        BY <1>1, <2>2, <3>2, ExpectsAfter
      <3>4. ASSUME NEW p \in PanesOf(sess[c]), NEW r \in Row, NoFrameOf(outbox'[c], p),
                   m.kind = "frame", m.pane = p
            PROVE  Shows(expected[c], grid[c], queue'[c], p, r, sent'[c][p][r])
        <4>1. m.lines = Row
          BY <1>1, <3>4 DEF Structure
        <4>2. sent'[c][p] = Overlay(sent[c][p], m.lines, m.cells)
          BY <3>4 DEF Pushed, TypeOK, PanesOf
        <4>3. sent'[c][p][r] = m.cells[r]
          BY <4>1, <4>2 DEF Overlay
        <4>4. Carries(m, p, r)
          BY <3>4, <4>1 DEF Carries
        <4>5. Expects(expected[c], queue[c], Len(queue[c]) + 1, p)
          BY <3>2 DEF PanesOf
        <4>6. Shows(expected[c], grid[c], Append(queue[c], m), p, r, m.cells[r])
          BY <1>1, <4>4, <4>5, ShowsNew
        <4> QED
          BY <1>1, <4>3, <4>6
      <3>5. ASSUME NEW p \in PanesOf(sess[c]), NEW r \in Row, NoFrameOf(outbox'[c], p),
                   ~(m.kind = "frame" /\ m.pane = p)
            PROVE  \/ Shows(expected[c], grid[c], queue'[c], p, r, sent'[c][p][r])
                   \/ <<p, r>> \in dropped[c]
                   \/ p \in reordered[c]
        <4>1. NoFrameOf(outbox[c], p)
          BY <1>1, <3>5 DEF NoFrameOf
        <4>2. sent'[c][p] = sent[c][p]
          BY <3>5 DEF Pushed, TypeOK, PanesOf
        <4>3. ~Carries(m, p, r)
          BY <3>5 DEF Carries
        <4> QED
          BY <1>1, <3>2, <4>1, <4>2, <4>3, ShowsStill
      <3> QED
        BY <3>3, <3>4, <3>5
    <2> QED
      BY <2>1, <2>2
  <1>5. WillShow(c)'
    BY <1>1, <1>4 DEF WillShow
  <1> QED
    BY <1>2, <1>3, <1>5 DEF View

LEMMA DispatchView ==
    ASSUME TypeOK, Structure, \A k \in Client : View(k),
           NEW c \in Client, NEW m \in outbox[c], Dispatch(c, m)
    PROVE  \A k \in Client : View(k)'
  <1>1. /\ m \in NextMsg(c) /\ outbox' = [outbox EXCEPT ![c] = @ \ {m}]
        /\ UNCHANGED <<sess, view>>
    BY DEF Dispatch
  <1>2. CASE Pushed(c, m)
    BY <1>1, <1>2, PushedView
  <1>3. CASE ~Pushed(c, m)
    <2>1. /\ blind' = [blind EXCEPT ![c] = @ \/ m.kind = "state"]
          /\ dropped' = [dropped EXCEPT ![c] = @ \cup
                            (IF m.kind = "frame" THEN {m.pane} \X m.lines ELSE {})]
          /\ UNCHANGED <<queue, sent, reordered>>
      BY <1>3 DEF Dispatch
    <2>2. ASSUME NEW k \in Client \ {c} PROVE View(k)'
      <3>1. outbox'[k] = outbox[k] /\ dropped'[k] = dropped[k] /\ blind'[k] = blind[k]
        BY <1>1, <2>1 DEF TypeOK
      <3> QED
        BY <1>1, <2>1, <3>1, ViewApart DEF view
    <2>3. outbox'[c] = outbox[c] \ {m}
          /\ blind'[c] = (blind[c] \/ m.kind = "state")
          /\ dropped'[c] = dropped[c] \cup
                             (IF m.kind = "frame" THEN {m.pane} \X m.lines ELSE {})
      BY <1>1, <2>1 DEF TypeOK
    <2>4. Outgoing(c)'
      BY <1>1, <2>3, OutgoingLess DEF View
    <2>5. ASSUME sess[c] # NoSession, ~blind'[c], \A n \in outbox'[c] : ~IsState(n)
          PROVE  ~blind[c] /\ \A n \in outbox[c] : ~IsState(n)
      BY <2>3, <2>5, Zenon DEF IsState
    <2>6. ASSUME NEW p, NoFrameOf(outbox'[c], p)
          PROVE  NoFrameOf(outbox[c], p) \/ \A r \in Row : <<p, r>> \in dropped'[c]
      <3>1. CASE m.kind = "frame" /\ m.pane = p
        <4>1. m.lines = Row
          BY <3>1 DEF Structure
        <4> QED
          BY <2>3, <3>1, <4>1
      <3>2. CASE ~(m.kind = "frame" /\ m.pane = p)
        BY <2>3, <2>6, <3>2 DEF NoFrameOf
      <3> QED
        BY <3>1, <3>2
    <2>7. dropped[c] \subseteq dropped'[c]
      BY <2>3
    <2>8. WillShow(c)'
      BY <1>1, <2>1, <2>5, <2>6, <2>7 DEF View, WillShow, view
    <2> QED
      BY <2>2, <2>4, <2>8 DEF View
  <1> QED
    BY <1>2, <1>3

LEMMA LeaveView ==
    ASSUME TypeOK, \A k \in Client : View(k), NEW c \in Client, Leave(c)
    PROVE  \A k \in Client : View(k)'
  <1>1. View(c)'
    <2>1. sess'[c] = NoSession
      BY DEF Leave, TypeOK
    <2> QED
      BY <2>1 DEF View, Outgoing, WillShow
  <1>2. ASSUME NEW k \in Client \ {c} PROVE View(k)'
    <2>1. /\ sess'[k] = sess[k] /\ outbox'[k] = outbox[k] /\ queue'[k] = queue[k]
          /\ expected'[k] = expected[k] /\ grid'[k] = grid[k] /\ sent'[k] = sent[k]
      BY DEF Leave, TypeOK
    <2>2. dropped'[k] = dropped[k] /\ reordered'[k] = reordered[k] /\ blind'[k] = blind[k]
      BY DEF Leave, TypeOK
    <2> QED
      BY <2>1, <2>2, ViewApart
  <1> QED
    BY <1>1, <1>2

LEMMA ReceiveView ==
    ASSUME TypeOK, \A k \in Client : View(k), NEW c \in Client, Receive(c)
    PROVE  \A k \in Client : View(k)'
  <1> DEFINE q == queue[c]
             m == Head(q)
  <1>1. /\ q \in Seq(Message) /\ q # <<>> /\ m \in Message
        /\ queue' = [queue EXCEPT ![c] = Tail(@)] /\ queue'[c] = Tail(q)
        /\ expected' = IF m.kind = "state"
                       THEN [expected EXCEPT ![c] = PanesOf(m.session)] ELSE expected
        /\ grid' = IF m.kind = "frame" /\ m.pane \in expected[c]
                   THEN [grid EXCEPT ![c][m.pane] = Overlay(@, m.lines, m.cells)]
                   ELSE grid
        /\ UNCHANGED <<sess, outbox, sent, dropped, reordered, blind>>
    BY DEF Receive, TypeOK, history
  <1>2. ASSUME NEW k \in Client \ {c} PROVE View(k)'
    <2>1. queue'[k] = queue[k] /\ expected'[k] = expected[k] /\ grid'[k] = grid[k]
      BY <1>1 DEF TypeOK
    <2> QED
      BY <1>1, <2>1, ViewApart
  <1>3. /\ IsState(m) => expected'[c] = PanesOf(m.session)
        /\ ~IsState(m) => expected'[c] = expected[c]
    BY <1>1 DEF IsState, TypeOK
  <1>4. ASSUME NEW p \in Pane, NEW r \in Row
        PROVE  IF Carries(m, p, r) /\ p \in expected[c]
               THEN grid'[c][p][r] = m.cells[r] ELSE grid'[c][p][r] = grid[c][p][r]
    <2>1. CASE m.kind = "frame" /\ m.pane \in expected[c]
      <3>1. m.pane \in Pane
        BY <2>1 DEF TypeOK
      <3>2. grid'[c][p] = IF p = m.pane THEN Overlay(grid[c][p], m.lines, m.cells)
                          ELSE grid[c][p]
        BY <1>1, <2>1, <3>1 DEF TypeOK
      <3> QED
        BY <2>1, <3>2 DEF Overlay, Carries
    <2>2. CASE ~(m.kind = "frame" /\ m.pane \in expected[c])
      BY <1>1, <2>2 DEF Carries
    <2> QED
      BY <2>1, <2>2
  <1> HIDE DEF m
  <1>5. Len(q) \in Nat /\ Len(q) >= 1 /\ Len(Tail(q)) + 1 = Len(q)
    BY <1>1, TailFacts
  <1>6. \A p \in Pane : Expects(expected'[c], Tail(q), Len(Tail(q)) + 1, p) <=>
                          Expects(expected[c], q, Len(q) + 1, p)
    <2>1. Len(q) \in 1..Len(q)
      BY <1>5
    <2> SUFFICES ASSUME NEW p \in Pane
                 PROVE  Expects(expected'[c], Tail(q), Len(q), p) <=>
                          Expects(expected[c], q, Len(q) + 1, p)
      BY <1>5
    <2>2. /\ IsState(Head(q)) => expected'[c] = PanesOf(Head(q).session)
          /\ ~IsState(Head(q)) => expected'[c] = expected[c]
      BY <1>3 DEF m
    <2> QED
      BY <1>1, <2>1, <2>2, ExpectsRest
  <1>7. \A p \in Pane, r \in Row : \A v :
          Shows(expected[c], grid[c], q, p, r, v) =>
            Shows(expected'[c], grid'[c], Tail(q), p, r, v)
    BY <1>1, <1>3, <1>4, ShowsRead DEF m
  <1>8. Outgoing(c)'
    BY <1>1 DEF View, Outgoing
  <1>9. WillShow(c)'
    <2>1. ASSUME sess[c] # NoSession, ~blind[c], \A n \in outbox[c] : ~IsState(n)
          PROVE  /\ \A p \in Pane :
                      Expects(expected'[c], Tail(q), Len(Tail(q)) + 1, p) <=>
                        SessionOf[p] = sess[c]
                 /\ \A p \in PanesOf(sess[c]), r \in Row : NoFrameOf(outbox[c], p) =>
                      \/ Shows(expected'[c], grid'[c], Tail(q), p, r, sent[c][p][r])
                      \/ <<p, r>> \in dropped[c]
                      \/ p \in reordered[c]
      <3>1. /\ \A p \in Pane : Expects(expected[c], q, Len(q) + 1, p) <=> SessionOf[p] = sess[c]
            /\ \A p \in PanesOf(sess[c]), r \in Row : NoFrameOf(outbox[c], p) =>
                 \/ Shows(expected[c], grid[c], q, p, r, sent[c][p][r])
                 \/ <<p, r>> \in dropped[c]
                 \/ p \in reordered[c]
        BY <2>1 DEF View, WillShow
      <3>2. \A p \in PanesOf(sess[c]) : p \in Pane
        BY DEF PanesOf
      <3> HIDE DEF q
      <3> QED
        BY <1>6, <1>7, <3>1, <3>2
    <2> QED
      BY <1>1, <2>1 DEF WillShow
  <1> QED
    BY <1>2, <1>8, <1>9 DEF View

LEMMA TickSendView ==
    ASSUME TypeOK, Structure, \A k \in Client : View(k), NEW f \in batch, TickSend(f)
    PROVE  \A k \in Client : View(k)'
  <1> DEFINE c == f.client
             m == [kind |-> "frame", pane |-> f.pane, lines |-> f.lines, cells |-> f.cells]
  <1>1. UNCHANGED <<sess, outbox, view>> /\ f \in Frame /\ c \in Client
    BY DEF TickSend, TypeOK, Frame
  <1>2. CASE SendSkip(f)
    BY <1>1, <1>2, ViewQuiet DEF SendSkip, history
  <1>3. CASE SendFail(f)
    <2>1. UNCHANGED <<queue, sent, reordered, blind>>
          /\ dropped' \in {dropped, [dropped EXCEPT ![c] = @ \cup ({f.pane} \X f.lines)]}
      BY <1>3 DEF SendFail
    <2>2. ASSUME NEW k \in Client PROVE dropped[k] \subseteq dropped'[k]
      <3>1. dropped \in [Client -> SUBSET (Pane \X Row)]
        BY DEF TypeOK
      <3> DEFINE extra == {f.pane} \X f.lines
      <3>2. dropped' \in {dropped, [dropped EXCEPT ![c] = @ \cup extra]}
        BY <2>1
      <3> HIDE DEF extra
      <3> QED
        BY <3>1, <3>2
    <2> QED
      BY <1>1, <2>1, <2>2, ViewApart DEF view
  <1>4. CASE SendOk(f)
    <2>1. /\ sess[c] = f.session /\ queue' = [queue EXCEPT ![c] = Append(@, m)]
          /\ sent' = [sent EXCEPT ![c][f.pane] = Overlay(@, f.lines, f.cells)]
          /\ dropped' = [dropped EXCEPT ![c] =
                            @ \ {pr \in @ : pr[1] = f.pane /\ pr[2] \in f.lines}]
          /\ reordered' = [reordered EXCEPT ![c] =
                              IF Overtakes(f) \/ f.stale THEN @ \cup {f.pane}
                              ELSE IF f.full THEN @ \ {f.pane} ELSE @]
          /\ UNCHANGED blind
      BY <1>4 DEF SendOk, SameSession
    <2>2. ASSUME NEW k \in Client \ {c} PROVE View(k)'
      <3>1. queue'[k] = queue[k] /\ sent'[k] = sent[k] /\ dropped'[k] = dropped[k]
            /\ reordered'[k] = reordered[k]
        BY <2>1 DEF TypeOK
      <3> QED
        BY <1>1, <2>1, <3>1, ViewApart DEF view
    <2>3. /\ f.pane \in Pane /\ SessionOf[f.pane] = sess[c] /\ (f.full => f.lines = Row)
          /\ f.lines \subseteq Row
      BY <1>1, <2>1 DEF Structure, Frame
    <2>4. m \in Message
      BY <1>1 DEF Message, FrameMsg, Frame
    <2>5. queue[c] \in Seq(Message) /\ queue'[c] = Append(queue[c], m)
      BY <1>1, <2>1 DEF TypeOK
    <2>6. ~IsState(m) /\ \A p, r : Carries(m, p, r) <=> p = f.pane /\ r \in f.lines
      BY DEF IsState, Carries
    <2>7. ASSUME sess[c] # NoSession, ~blind[c], \A n \in outbox[c] : ~IsState(n)
          PROVE  /\ \A p \in Pane :
                      Expects(expected[c], queue'[c], Len(queue'[c]) + 1, p) <=>
                        SessionOf[p] = sess[c]
                 /\ \A p \in PanesOf(sess[c]), r \in Row : NoFrameOf(outbox[c], p) =>
                      \/ Shows(expected[c], grid[c], queue'[c], p, r, sent'[c][p][r])
                      \/ <<p, r>> \in dropped'[c]
                      \/ p \in reordered'[c]
      <3>1. /\ \A p \in Pane :
                 Expects(expected[c], queue[c], Len(queue[c]) + 1, p) <=> SessionOf[p] = sess[c]
            /\ \A p \in PanesOf(sess[c]), r \in Row : NoFrameOf(outbox[c], p) =>
                 \/ Shows(expected[c], grid[c], queue[c], p, r, sent[c][p][r])
                 \/ <<p, r>> \in dropped[c]
                 \/ p \in reordered[c]
        <4>1. View(c)
          BY <1>1
        <4> QED
          BY <2>7, <4>1 DEF View, WillShow
      <3>2. \A p \in Pane :
              Expects(expected[c], queue'[c], Len(queue'[c]) + 1, p) <=> SessionOf[p] = sess[c]
        BY <2>6, <2>4, <2>5, <3>1, ExpectsAfter
      <3>3. ASSUME NEW r \in f.lines
            PROVE  Shows(expected[c], grid[c], queue'[c], f.pane, r, sent'[c][f.pane][r])
        <4>1. sent'[c][f.pane] = Overlay(sent[c][f.pane], f.lines, f.cells) /\ r \in Row
          BY <1>1, <2>1, <2>3 DEF TypeOK, Frame
        <4>2. sent'[c][f.pane][r] = m.cells[r]
          BY <4>1 DEF Overlay
        <4>3. Carries(m, f.pane, r)
          BY <2>6
        <4>4. Expects(expected[c], queue[c], Len(queue[c]) + 1, f.pane)
          BY <2>3, <3>1
        <4> HIDE DEF m
        <4>5. Shows(expected[c], grid[c], Append(queue[c], m), f.pane, r, m.cells[r])
          BY <2>4, <2>5, <4>3, <4>4, ShowsNew
        <4> QED
          BY <2>5, <4>2, <4>5
      <3>4. ASSUME NEW p \in PanesOf(sess[c]), NEW r \in Row, NoFrameOf(outbox[c], p),
                   ~(p = f.pane /\ r \in f.lines)
            PROVE  \/ Shows(expected[c], grid[c], queue'[c], p, r, sent'[c][p][r])
                   \/ <<p, r>> \in dropped'[c]
                   \/ p \in reordered'[c]
        <4>1. sent'[c][p][r] = sent[c][p][r]
          <5>1. p \in Pane
            BY DEF PanesOf
          <5>2. sent'[c][p] = IF p = f.pane THEN Overlay(sent[c][p], f.lines, f.cells)
                              ELSE sent[c][p]
            BY <1>1, <2>1, <2>3, <5>1 DEF TypeOK
          <5> QED
            BY <3>4, <5>2 DEF Overlay
        <4>2. <<p, r>> \in dropped[c] => <<p, r>> \in dropped'[c]
          BY <1>1, <2>1, <3>4 DEF TypeOK
        <4>3. p \in reordered[c] => p \in reordered'[c]
          <5>1. f.full => p # f.pane
            BY <2>3, <3>4
          <5>2. reordered'[c] = IF Overtakes(f) \/ f.stale THEN reordered[c] \cup {f.pane}
                                ELSE IF f.full THEN reordered[c] \ {f.pane}
                                ELSE reordered[c]
            BY <1>1, <2>1 DEF TypeOK
          <5> QED
            BY <5>1, <5>2
        <4>4. ~Carries(m, p, r)
          BY <2>6, <3>4
        <4> HIDE DEF m
        <4>5. Shows(expected[c], grid[c], queue[c], p, r, sent[c][p][r]) =>
                Shows(expected[c], grid[c], queue'[c], p, r, sent[c][p][r])
          BY <2>4, <2>5, <4>4, ShowsStill
        <4> QED
          BY <3>1, <3>4, <4>1, <4>2, <4>3, <4>5
      <3> QED
        BY <3>2, <3>3, <3>4
    <2>8. WillShow(c)'
      BY <1>1, <2>1, <2>7 DEF WillShow, view
    <2>9. Outgoing(c)'
      BY <1>1 DEF View, Outgoing
    <2> QED
      BY <2>2, <2>8, <2>9 DEF View
  <1> QED
    BY <1>2, <1>3, <1>4 DEF TickSend

LEMMA NextView ==
    ASSUME TypeOK, Structure, \A k \in Client : View(k), [Next]_vars
    PROVE  \A k \in Client : View(k)'
  <1>1. ASSUME NEW c \in Client, Handler(c)
        PROVE  \A k \in Client : View(k)'
    <2>1. CASE \E s \in Session, Z \in SUBSET Pane : Attach(c, s, Z)
      BY <2>1, AttachView
    <2>2. CASE \E m \in outbox[c] : SendInitial(c, m)
      BY <2>2, PushedView DEF SendInitial
    <2>3. CASE \E t \in Target, Z \in SUBSET Pane : SwitchSession(c, t, Z)
      BY <2>3, SwitchView
    <2>4. CASE \E m \in outbox[c] : Dispatch(c, m)
      BY <2>4, DispatchView
    <2>5. CASE \E Z \in SUBSET Pane : Resize(c, Z)
      BY <2>5, ViewQuiet DEF Resize
    <2>6. CASE \E p \in Pane : Input(c, p)
      BY <2>6, ViewQuiet DEF Input
    <2>7. CASE Leave(c)
      BY <2>7, LeaveView
    <2>8. CASE Receive(c)
      BY <2>8, ReceiveView
    <2> QED
      BY <1>1, <2>1, <2>2, <2>3, <2>4, <2>5, <2>6, <2>7, <2>8 DEF Handler
  <1>2. CASE TickDrain \/ TickCollect
    BY <1>2, ViewQuiet DEF TickDrain, TickCollect
  <1>3. CASE \E f \in batch : TickSend(f)
    BY <1>3, TickSendView
  <1>4. CASE TickEnd
    <2>1. \A k \in Client : sess'[k] \in {sess[k], NoSession}
      BY <1>4 DEF TickEnd
    <2>2. UNCHANGED <<outbox, queue, view, history>>
      BY <1>4 DEF TickEnd
    <2> QED
      BY <2>1, <2>2, ViewApart DEF view, history
  <1>5. CASE UNCHANGED vars \/ FrameDeadline
             \/ \E p \in Pane, R \in SUBSET Row, m \in BOOLEAN : PtyOutput(p, R, m)
    BY <1>5, ViewQuiet DEF vars, table, FrameDeadline, PtyOutput
  <1> QED
    BY <1>1, <1>2, <1>3, <1>4, <1>5 DEF Next, Tick

\* A client that has read everything, while no frame for it is in the making, has the
\* panes of its session and their present rows, but for the rows that are marked for it
\* and the two exceptions the code has: from the daemon's accounts (IInv) and from what
\* is in the channel (View).
THEOREM Settled == Spec => []SettledMirror
  <1>1. Init => \A c \in Client : View(c)
    BY DEF Init, View, Outgoing, WillShow
  <1>2. IInv /\ (\A c \in Client : View(c)) /\ [Next]_vars => (\A c \in Client : View(c))'
    BY NextView DEF IInv
  <1>3. IInv /\ (\A c \in Client : View(c)) => SettledMirror
    <2> SUFFICES ASSUME IInv, \A c \in Client : View(c), NEW c \in Client,
                        conn[c] = "on", sess[c] # NoSession, queue[c] = <<>>,
                        outbox[c] = {}, batch = {}, ~blind[c]
                 PROVE  /\ expected[c] = PanesOf(sess[c])
                        /\ \A p \in expected[c], r \in Row :
                             \/ grid[c][p][r] = screen[p][r]
                             \/ Covers(damage[c][p], r)
                             \/ <<p, r>> \in dropped[c]
                             \/ p \in reordered[c]
      BY DEF SettledMirror
    <2>1. Len(queue[c]) = 0 /\ 1..0 = {} /\ 1..(0 + 1 - 1) = {}
      OBVIOUS
    <2>2. \A p : Expects(expected[c], queue[c], Len(queue[c]) + 1, p) <=> p \in expected[c]
      BY <2>1 DEF Expects
    <2>3. \A p \in Pane : p \in expected[c] <=> SessionOf[p] = sess[c]
      BY <2>2 DEF View, WillShow
    <2>4. expected[c] = PanesOf(sess[c])
      BY <2>3 DEF PanesOf, IInv, TypeOK
    <2>5. \A p, r, v : Shows(expected[c], grid[c], queue[c], p, r, v) => grid[c][p][r] = v
      BY <2>1 DEF Shows
    <2>6. ASSUME NEW p \in PanesOf(sess[c]), NEW r \in Row
          PROVE  grid[c][p][r] = sent[c][p][r] \/ <<p, r>> \in dropped[c] \/ p \in reordered[c]
      BY <2>5 DEF View, WillShow, NoFrameOf
    <2>7. ASSUME NEW p \in PanesOf(sess[c]), NEW r \in Row
          PROVE  \/ sent[c][p][r] = screen[p][r] \/ Covers(damage[c][p], r)
                 \/ <<p, r>> \in dropped[c] \/ p \in reordered[c]
      BY DEF IInv, AccountedFor, InBatch, InOutbox, PanesOf
    <2> QED
      BY <2>4, <2>6, <2>7
  <1> QED
    BY <1>1, <1>2, <1>3, Inductive, PTL DEF Spec
=============================================================================
