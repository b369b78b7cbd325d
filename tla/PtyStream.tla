----------------------------- MODULE PtyStream -----------------------------
(***************************************************************************)
(* What a pane promises about its program, without reader threads, bounded *)
(* channels or wake-ups: the screen shows a growing prefix of what the     *)
(* program wrote, the pane is removed only when the program has ended or a *)
(* client asks for it, and neither is put off for ever.                    *)
(***************************************************************************)
EXTENDS Naturals

CONSTANT Pane

VARIABLES
    written,   \* chunks of output the program has written
    shown,     \* how many of them the screen has taken in
    state      \* "running", "ended", "reaped" by the daemon, "closed" by a client

streamVars == <<written, shown, state>>

Live(p) == state[p] \in {"running", "ended"}

StreamInit ==
    /\ written = [p \in Pane |-> 0]
    /\ shown = [p \in Pane |-> 0]
    /\ state = [p \in Pane |-> "running"]

\* The program writes.
Emit(p) ==
    /\ state[p] = "running"
    /\ written' = [written EXCEPT ![p] = @ + 1]
    /\ UNCHANGED <<shown, state>>

\* The screen takes in some of the output it has not shown, in order.
Show(p) ==
    /\ Live(p)
    /\ \E n \in (shown[p] + 1)..written[p] : shown' = [shown EXCEPT ![p] = n]
    /\ UNCHANGED <<written, state>>

\* The program ends.
End(p) ==
    /\ state[p] = "running"
    /\ state' = [state EXCEPT ![p] = "ended"]
    /\ UNCHANGED <<written, shown>>

\* The daemon removes panes whose program has ended, ...
Reap(D) ==
    /\ D # {}
    /\ \A p \in D : state[p] = "ended"
    /\ state' = [p \in Pane |-> IF p \in D THEN "reaped" ELSE state[p]]
    /\ UNCHANGED <<written, shown>>

\* ... and a client may close any pane.
Close(p) ==
    /\ Live(p)
    /\ state' = [state EXCEPT ![p] = "closed"]
    /\ UNCHANGED <<written, shown>>

StreamNext ==
    \/ \E p \in Pane : Emit(p) \/ Show(p) \/ End(p) \/ Close(p)
    \/ \E D \in SUBSET Pane : Reap(D)

StreamSafe == StreamInit /\ [][StreamNext]_streamVars

StreamFair ==
    \A p \in Pane :
      /\ WF_streamVars(Show(p))
      /\ WF_streamVars(\E D \in SUBSET Pane : p \in D /\ Reap(D))

StreamSpec == StreamSafe /\ StreamFair
=============================================================================
