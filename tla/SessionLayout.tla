---------------------------- MODULE SessionLayout ----------------------------
(***************************************************************************)
(* One session of the daemon: its panes, its layout, and the file it is    *)
(* saved to, through the end of the session and restarts of the daemon.    *)
(*                                                                         *)
(* Handlers run under the server lock, so each is one action; so is a pass *)
(* of the tick loop over the session.  Several clients drive the session,  *)
(* each from a view that may be out of date: a request may name a pane     *)
(* that is gone.                                                           *)
(*                                                                         *)
(* A pane is named by what it shows.  The code gives a restored tile a new *)
(* id; here it keeps its name, and the name of a closed pane is free again.*)
(***************************************************************************)
EXTENDS Layout

CONSTANTS
    Pane,      \* names for panes
    NoFile     \* nothing is saved

ASSUME SessionAssumption == NoFile \notin Layouts(Pane)

VARIABLES
    up,        \* the daemon runs
    live,      \* the session is in Server.sessions
    panes,     \* the keys of Session.panes
    layout,    \* Session.workspaces
    dirty,     \* Session.session_dirty
    fresh,     \* nothing was changed since the session was created or restored
    disk,      \* the session's file, or NoFile
    promised,  \* what graceful_shutdown found and saved, until it changes
    panicked   \* a handler has indexed a sequence outside its bounds

store == <<disk, promised>>
vars == <<up, live, panes, layout, dirty, fresh, store, panicked>>

TypeOK ==
    /\ {up, live, dirty, fresh, panicked} \subseteq BOOLEAN
    /\ panes \subseteq Pane
    /\ layout \in Layouts(Pane)
    /\ {disk, promised} \subseteq Layouts(Pane) \cup {NoFile}
    /\ ~up => ~live
    /\ ~live => panes = {} /\ layout = NewLayout /\ ~dirty

Init ==
    /\ up = TRUE
    /\ live = FALSE
    /\ panes = {}
    /\ layout = NewLayout
    /\ dirty = FALSE /\ fresh = FALSE
    /\ disk = NoFile /\ promised = NoFile
    /\ panicked = FALSE

-----------------------------------------------------------------------------
(* Parts of the handlers.                                                  *)

Serving == up /\ live

\* mark_session_dirty
MarkDirty == dirty' = TRUE /\ fresh' = FALSE

\* A handler that ends with layout_changed or mark_layout_dirty.
Changed(l) ==
    /\ layout' = l
    /\ MarkDirty
    /\ promised' = NoFile
    /\ UNCHANGED <<up, live, disk, panicked>>

Rearranged(l) == Changed(l) /\ UNCHANGED panes

\* create_pane_and_sync_layout, when the program could be started; a handler
\* that cannot start it changes nothing, CreatePaneAt excepted.
Created(p, l) ==
    /\ Changed(l)
    /\ panes' = panes \cup {p}

\* The session leaves Server.sessions.
Gone ==
    /\ live' = FALSE
    /\ panes' = {}
    /\ layout' = NewLayout
    /\ dirty' = FALSE /\ fresh' = FALSE

\* delete_session: a failure is only logged.
Delete == disk' \in {NoFile, disk}

-----------------------------------------------------------------------------
(* Creating panes.                                                         *)

CreatePane(p) ==
    /\ Serving /\ p \notin panes
    /\ Created(p, OnActive(layout, AddColumnRight(ActiveWorkspace(layout), p)))

SplitDown(p) ==
    /\ Serving /\ p \notin panes
    /\ Created(p, AddWorkspaceBelow(layout, p))

NewTileBelow(p) ==
    /\ Serving /\ p \notin panes
    /\ Created(p, OnActive(layout, AddTile(ActiveWorkspace(layout), p)))

\* Focus pane q, then create p beside it or below it.
CreatePaneAt(q, p) ==
    /\ Serving /\ q \in panes /\ p \notin panes
    /\ LET at == FocusOn(layout, q)
           ws == ActiveWorkspace(at)
       IN  \E new \in {AddColumnRight(ws, p), AddTile(ws, p)} :
             Created(p, OnActive(at, new))

\* The target has the focus even if nothing could be started.
CreatePaneAtFails(q) ==
    /\ Serving /\ q \in panes
    /\ Rearranged(FocusOn(layout, q))

-----------------------------------------------------------------------------
(* Focus.  A request that finds nothing in its direction is bounced.       *)

\* FocusLeft (d = -1) and FocusRight (d = 1)
FocusColumn(d) ==
    LET ws == ActiveWorkspace(layout)
    IN  /\ Serving
        /\ ws.active + d \in DOMAIN ws.columns
        /\ Rearranged(OnActive(layout, [ws EXCEPT !.active = @ + d]))

\* FocusUp (d = -1) and FocusDown (d = 1): within the column, else the workspace.
FocusVertically(d) ==
    LET ws == ActiveWorkspace(layout)
        tile == IF Blank(ws) THEN 0 ELSE ws.columns[ws.active].active + d
        within == ~Blank(ws) /\ tile \in DOMAIN ws.columns[ws.active].tiles
    IN  /\ Serving
        /\ \/ /\ within
              /\ Rearranged([layout EXCEPT
                     !.workspaces[layout.active].columns[ws.active].active = tile])
           \/ /\ ~within
              /\ layout.active + d \in DOMAIN layout.workspaces
              /\ Rearranged(FocusWorkspace(layout, layout.active + d))

SwitchWorkspace(i) ==
    /\ Serving /\ i \in DOMAIN layout.workspaces
    /\ Rearranged([layout EXCEPT !.active = i])

\* FocusPane and FocusPaneById; a pane that is gone is only logged.
FocusPane(p) ==
    /\ Serving /\ p \in PanesOf(layout)
    /\ Rearranged(FocusOn(layout, p))

-----------------------------------------------------------------------------
(* Moving panes.                                                           *)

\* MovePaneLeft (d = -1) and MovePaneRight (d = 1); dirty even at the edge.
MoveColumn(d) ==
    /\ Serving
    /\ LET ws == ActiveWorkspace(layout)
       IN  Rearranged(OnActive(layout, SwapColumn(ws, ws.active + d)))

\* MovePaneUp (down = 0) and MovePaneDown (down = 1)
MovePane(down) ==
    /\ Serving /\ MayMove(layout)
    /\ Rearranged(MoveVertically(layout, down))

ConsumeIntoColumn ==
    /\ Serving
    /\ Rearranged(OnActive(layout, ConsumeRight(ActiveWorkspace(layout))))

\* The operation reads the active column before it looks whether there is one.
\* A panic ends the client's task; with_session puts the session back.
ExpelFromColumn ==
    /\ Serving
    /\ \/ /\ ~Blank(ActiveWorkspace(layout))
          /\ Rearranged(OnActive(layout, ExpelTile(ActiveWorkspace(layout))))
       \/ /\ Blank(ActiveWorkspace(layout))
          /\ panicked' = TRUE
          /\ UNCHANGED <<up, live, panes, layout, dirty, fresh, store>>

\* Widths, weights, and a resize that changes some pane's size.
Reshape == Serving /\ Rearranged(layout)

-----------------------------------------------------------------------------
(* The end of panes and of the session.                                    *)

\* ClosePane and ClosePaneById.  Only the second looks whether the session has
\* the pane.
CloseRequest(p) ==
    /\ Serving
    /\ Changed(ClosePane(layout, p))
    /\ panes' = panes \ {p}

\* cleanup_exited_panes: the panes of D, whose programs have ended since the last
\* pass, are closed in the order of a hash map.  The mark is younger than the
\* debounce time, so this pass does not save the session.
TickCloses(D) ==
    /\ Serving /\ D # panes
    /\ \E order \in SetToSeqs(D) : Changed(FoldLeft(ClosePane, layout, order))
    /\ panes' = panes \ D

\* A pass after which the session has no pane removes it and its file.
TickEndsSession ==
    /\ Serving
    /\ Gone /\ Delete
    /\ promised' = NoFile
    /\ UNCHANGED <<up, panicked>>

\* Mutant: the mark is cleared before the layout is validated.
TickSavesAnyway ==
    /\ Serving /\ panes # {} /\ dirty
    /\ disk' = IF Valid(layout) THEN layout ELSE disk
    /\ dirty' = FALSE
    /\ UNCHANGED <<up, live, panes, layout, fresh, promised, panicked>>

\* autosave_if_due, the debounce time having passed.  A layout that does not
\* validate, or a write that fails, is tried again after another debounce time.
TickSaves ==
    /\ Serving /\ panes # {} /\ dirty
    /\ Valid(layout)
    /\ disk' = layout
    /\ dirty' = FALSE
    /\ UNCHANGED <<up, live, panes, layout, fresh, promised, panicked>>

\* The agents found in the panes have changed, which is saved too.
AgentsChange ==
    /\ Serving /\ panes # {}
    /\ MarkDirty
    /\ UNCHANGED <<up, live, panes, layout, store, panicked>>

KillSession ==
    /\ up
    /\ Gone /\ Delete
    /\ promised' = NoFile
    /\ UNCHANGED <<up, panicked>>

-----------------------------------------------------------------------------
(* Attaching, and the life of the daemon.                                  *)

\* init_default_workspace: the pane p, or none if it could not be started.  The
\* index of the active workspace is not reset.
Default(l, P) ==
    [workspaces |-> <<IF P = {} THEN NewWorkspace
                      ELSE AddColumnRight(NewWorkspace, CHOOSE p \in P : TRUE)>>,
     active |-> l.active]

\* At most one pane, not one of those the session has.
DefaultPane == {{}} \cup {{p} : p \in Pane \ panes}

\* Where the index lies outside the one workspace, creating the pane panics and
\* the session is not inserted.
AttachDefault(l) ==
    \/ /\ l.active = 1
       /\ live' = TRUE
       /\ \E P \in DefaultPane : panes' = P /\ layout' = Default(l, P)
       /\ UNCHANGED <<dirty, panicked>>
       /\ fresh' = ~dirty
    \/ /\ l.active # 1
       /\ panicked' = TRUE
       /\ UNCHANGED <<live, panes, layout, dirty, fresh>>

\* get_or_create_session of a name that is not in Server.sessions.
AttachNew ==
    /\ up /\ ~live
    /\ \/ disk = NoFile /\ AttachDefault(NewLayout)
       \/ /\ disk # NoFile
          /\ \E S \in SUBSET PanesOf(disk) :
               \/ S = {} /\ AttachDefault(Restored(disk, S))
               \/ /\ S # {}
                  /\ live' = TRUE
                  /\ panes' = S /\ layout' = Restored(disk, S)
                  /\ fresh' = TRUE
                  /\ UNCHANGED <<dirty, panicked>>
    /\ promised' = NoFile
    /\ UNCHANGED <<up, disk>>

\* The session is there, but its last pane has just been closed.
AttachEmpty ==
    /\ Serving /\ panes = {}
    /\ AttachDefault(layout)
    /\ promised' = NoFile
    /\ UNCHANGED <<up, disk>>

\* graceful_shutdown: an error of the save is dropped.  The process ends later, and
\* what handlers do until then is not saved.
GracefulShutdown ==
    /\ Serving
    /\ promised' = layout
    /\ disk' = IF Valid(layout) THEN layout ELSE disk
    /\ UNCHANGED <<up, live, panes, layout, dirty, fresh, panicked>>

\* The process ends, after a shutdown or without one.
DaemonEnds ==
    /\ up
    /\ up' = FALSE
    /\ Gone
    /\ UNCHANGED <<store, panicked>>

DaemonStarts ==
    /\ ~up
    /\ up' = TRUE
    /\ UNCHANGED <<live, panes, layout, dirty, fresh, store, panicked>>

-----------------------------------------------------------------------------

PaneStep(p) ==
    \/ CreatePane(p)
    \/ SplitDown(p)
    \/ NewTileBelow(p)
    \/ \E q \in Pane : CreatePaneAt(q, p)
    \/ CreatePaneAtFails(p)
    \/ FocusPane(p)
    \/ CloseRequest(p)

LayoutStep ==
    \/ \E d \in {-1, 1} : FocusColumn(d) \/ FocusVertically(d) \/ MoveColumn(d)
    \/ \E i \in DOMAIN layout.workspaces : SwitchWorkspace(i)
    \/ \E down \in {0, 1} : MovePane(down)
    \/ ConsumeIntoColumn
    \/ ExpelFromColumn
    \/ Reshape

SessionStep ==
    \/ \E D \in SUBSET panes \ {{}} : TickCloses(D)
    \/ TickEndsSession
    \/ TickSaves
    \/ AgentsChange
    \/ KillSession
    \/ AttachNew
    \/ AttachEmpty

DaemonStep ==
    \/ GracefulShutdown
    \/ DaemonEnds
    \/ DaemonStarts

Next ==
    \/ \E p \in Pane : PaneStep(p)
    \/ LayoutStep
    \/ SessionStep
    \/ DaemonStep

Spec == Init /\ [][Next]_vars

-----------------------------------------------------------------------------
(* Properties.                                                             *)

\* Every pane of the session is in exactly one tile of the layout, every tile is
\* a pane of the session, and the indices that the code uses without a check
\* point somewhere, whatever was closed, moved or restored.
Arranged ==
    /\ PanesOf(layout) = panes
    /\ Cardinality(Places(layout)) = Cardinality(panes)
    /\ layout.active \in DOMAIN layout.workspaces
    /\ \A w \in DOMAIN layout.workspaces :
         LET ws == layout.workspaces[w]
         IN  Blank(ws) \/ /\ ws.active \in DOMAIN ws.columns
                          /\ \A c \in DOMAIN ws.columns :
                               ws.columns[c].active \in DOMAIN ws.columns[c].tiles

\* A session that is not dirty is as its file says, unless nothing was changed
\* since it was created or restored: no change escapes the autosave.
CleanMeansSaved == live /\ ~dirty /\ ~fresh => disk = layout

\* A column to the left of the focus, in the same workspace, that closing the
\* panes of D removes.  Workspace::close_pane does not shift the focus with it.
ShiftsFocus(D) ==
    \E c \in 1..(ActiveWorkspace(layout).active - 1) :
        c \in DOMAIN ActiveWorkspace(layout).columns
        /\ ToSet(ActiveWorkspace(layout).columns[c].tiles) \subseteq D

\* Panes that end elsewhere do not take the focus away, with that one exception:
\* not when their workspace goes, and whatever their order.
FocusStays ==
    [][LET D == panes \ panes'
       IN  live' /\ D # {} /\ panes' \subseteq panes /\ Focused(layout) # {}
           /\ Focused(layout) \cap D = {} /\ ~ShiftsFocus(D)
             => Focused(layout') = Focused(layout)]_vars

\* In the order of the places: an upper workspace, a column to the left, a tile above.
Before(x, y) ==
    \/ x[1] < y[1]
    \/ x[1] = y[1] /\ x[2] < y[2]
    \/ x[1] = y[1] /\ x[2] = y[2] /\ x[3] < y[3]

Precedes(l, p, q) ==
    \E x, y \in Places(l) : PaneAt(l, x) = p /\ PaneAt(l, y) = q /\ Before(x, y)

\* The panes of P are in the same order in both layouts.
SameOrder(l, m, P) == \A p, q \in P : Precedes(l, p, q) <=> Precedes(m, p, q)

\* Moving a pane to another workspace, or out of its column, moves the focus with
\* it and leaves the order of all others as it was.
MovesAlone ==
    [][layout' # layout /\ panes' = panes
       /\ ((\E down \in {0, 1} : MovePane(down)) \/ ExpelFromColumn)
         => /\ Focused(layout') = Focused(layout)
            /\ SameOrder(layout, layout', panes \ Focused(layout))]_vars

OnePane(l) == Cardinality({x \in Places(l) : x[1] = l.active}) = 1

\* When the last pane of the focused workspace ends, the focus goes to the next
\* workspace above, or from the top to the one below ("focus moves to the workspace
\* above (or below if at top)", workspace_set.rs:305), unless a restore has left
\* workspaces without panes: above one of those, the focus goes down.
FocusGoesUp ==
    [][LET Other == DOMAIN layout.workspaces \ {layout.active}
           to == IF layout.active > 1 THEN layout.active - 1 ELSE 2
       IN  live' /\ panes' # panes /\ panes' = panes \ Focused(layout)
           /\ OnePane(layout) /\ Other # {}
           /\ (\A w \in Other : ~Blank(layout.workspaces[w]))
             => Focused(layout') = FocusOf(layout.workspaces[to])]_vars

\* A session that graceful_shutdown has saved comes back, when a client attaches
\* to it next: the same panes in the same places, with the same focus, if all of
\* them can be started, and in the same order in any case.
RestartKeeps ==
    [][~live /\ live' /\ promised # NoFile /\ Valid(promised)
         => /\ panes' = PanesOf(promised) => layout' = promised
            /\ panes' \subseteq PanesOf(promised) => SameOrder(promised, layout', panes')]_vars

\* "server should always have at least one" column (workspace.rs:328): no handler
\* indexes the columns of a workspace that has none.
NoPanic == ~panicked
=============================================================================
