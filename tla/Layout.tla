------------------------------- MODULE Layout -------------------------------
(***************************************************************************)
(* The tiling layout of a session (crates/loom-layout): workspaces stacked *)
(* vertically, each a row of columns, each column a stack of tiles, each   *)
(* tile a pane.  A layout is a value and an operation a function of it;    *)
(* SessionLayout gives the operations their callers.                       *)
(*                                                                         *)
(* Indices start at 1, so the code's 0 for "no column yet" is 1 here.      *)
(* Widths, weights and scroll positions are left out: they decide neither  *)
(* where a pane is nor which one has the focus.                            *)
(***************************************************************************)
EXTENDS Integers, Sequences, FiniteSets, SequencesExt

NewColumn(p) == [tiles |-> <<p>>, active |-> 1]

NewWorkspace == [columns |-> <<>>, active |-> 1]

\* WorkspaceSet::new: one workspace, without columns.
NewLayout == [workspaces |-> <<NewWorkspace>>, active |-> 1]

Blank(ws) == ws.columns = <<>>

\* Mutant: i.min(n - 1), with 0 for an index that has wrapped around.
ClampUnguarded(i, n) == IF i <= n THEN i ELSE n

\* The elements of s at the indices of K, in the order of s.
AtIndices(s, K) ==
    [i \in 1..Cardinality(K) |->
       s[CHOOSE k \in K : Cardinality({j \in K : j <= k}) = i]]

\* i.min(n.saturating_sub(1)) of the code.
Clamp(i, n) == IF i <= n THEN i ELSE IF n = 0 THEN 1 ELSE n

\* The values that the operations take and return, for a set of panes.
Columns(Pane) == [tiles : Seq(Pane), active : Nat \ {0}]
Layouts(Pane) ==
    [workspaces : Seq([columns : Seq(Columns(Pane)), active : Nat \ {0}]),
     active : Nat \ {0}]

-----------------------------------------------------------------------------
(* Reading a layout.                                                       *)

\* find_pane_location walks the same places: workspace, column, tile.
Places(l) == UNION {UNION {{<<w, c, t>> :
                              t \in DOMAIN l.workspaces[w].columns[c].tiles} :
                                c \in DOMAIN l.workspaces[w].columns} :
                                  w \in DOMAIN l.workspaces}

PaneAt(l, x) == l.workspaces[x[1]].columns[x[2]].tiles[x[3]]

PanesOf(l) == {PaneAt(l, x) : x \in Places(l)}

PlaceOf(l, p) == CHOOSE x \in Places(l) : PaneAt(l, x) = p

ActiveWorkspace(l) == l.workspaces[l.active]

\* The panes that a workspace would show as focused: one, or none.
FocusOf(ws) == {ws.columns[c].tiles[ws.columns[c].active] :
                  c \in {ws.active} \cap DOMAIN ws.columns}

\* WorkspaceSet::active().active_pane_id(), as a set with one element or none.
Focused(l) == FocusOf(ActiveWorkspace(l))

-----------------------------------------------------------------------------
(* One column, one workspace.                                              *)

PushTile(col, p) == [tiles |-> Append(col.tiles, p), active |-> Len(col.tiles) + 1]

\* Mutant: the active tile keeps its index when the last one goes.
TakeTileUnclamped(col, i) ==
    [tiles |-> RemoveAt(col.tiles, i),
     active |-> IF i < col.active THEN col.active - 1 ELSE col.active]

\* Mutant: a tile that goes above the active one does not shift it.
TakeTileUnshifted(col, i) ==
    LET tiles == RemoveAt(col.tiles, i)
    IN  [tiles |-> tiles, active |-> Clamp(col.active, Len(tiles))]

TakeTile(col, i) ==
    LET tiles == RemoveAt(col.tiles, i)
    IN  [tiles |-> tiles,
         active |-> IF i < col.active THEN col.active - 1
                                      ELSE Clamp(col.active, Len(tiles))]

\* A new column at i, which takes the focus.
PutColumn(ws, i, col) == [columns |-> InsertAt(ws.columns, i, col), active |-> i]

\* Workspace::add_column_right
AddColumnRight(ws, p) ==
    PutColumn(ws, IF Blank(ws) THEN 1 ELSE ws.active + 1, NewColumn(p))

\* Workspace::add_tile_to_active_column
AddTile(ws, p) == IF Blank(ws) THEN AddColumnRight(ws, p)
                  ELSE [ws EXCEPT !.columns[ws.active] = PushTile(@, p)]

\* Workspace::close_pane: the tile, or its column when it is the only one.  The
\* active column keeps its index, whichever column was removed.
CloseIn(ws, p) ==
    LET C == {c \in DOMAIN ws.columns : Contains(ws.columns[c].tiles, p)}
        c == CHOOSE x \in C : TRUE
        t == CHOOSE x \in DOMAIN ws.columns[c].tiles : ws.columns[c].tiles[x] = p
    IN  IF C = {} THEN ws
        ELSE IF Len(ws.columns[c].tiles) > 1
             THEN [ws EXCEPT !.columns[c] = TakeTile(@, t)]
             ELSE [columns |-> RemoveAt(ws.columns, c),
                   active |-> Clamp(ws.active, Len(ws.columns) - 1)]

\* Workspace::consume_from_right
ConsumeRight(ws) ==
    LET right == ws.columns[ws.active + 1]
        tile == right.tiles[right.active]
        rest == TakeTile(right, right.active)
        joined == [ws EXCEPT !.columns[ws.active] = PushTile(@, tile)]
    IN  IF ws.active + 1 > Len(ws.columns) THEN ws
        ELSE IF rest.tiles = <<>>
             THEN [joined EXCEPT !.columns = RemoveAt(@, ws.active + 1)]
             ELSE [joined EXCEPT !.columns[ws.active + 1] = rest]

\* Workspace::expel_active_tile, on a workspace that has columns.
ExpelTile(ws) ==
    LET col == ws.columns[ws.active]
    IN  IF Len(col.tiles) = 1 THEN ws
        ELSE PutColumn([ws EXCEPT !.columns[ws.active] = TakeTile(col, col.active)],
                       ws.active + 1, NewColumn(col.tiles[col.active]))

\* Workspace::move_pane_left and move_pane_right, to the column at i.
SwapColumn(ws, i) ==
    IF i \notin DOMAIN ws.columns THEN ws
    ELSE [columns |-> [ws.columns EXCEPT ![i] = ws.columns[ws.active],
                                         ![ws.active] = ws.columns[i]],
          active |-> i]

-----------------------------------------------------------------------------
(* The workspaces.                                                         *)

\* Mutant: the index is clamped, it does not follow the workspace it is about.
CleanupEmptyClamped(l) ==
    LET Kept == SelectSeq(l.workspaces, LAMBDA ws : ~Blank(ws))
    IN  IF Kept = <<>> THEN [workspaces |-> <<Last(l.workspaces)>>, active |-> 1]
        ELSE [workspaces |-> Kept, active |-> Clamp(l.active, Len(Kept))]

\* WorkspaceSet::cleanup_empty.  The focus leaves an empty workspace for the one
\* above, or from the first for the next with columns; then workspaces without
\* columns go, the active index following its workspace, but one always stays.
CleanupEmpty(l) ==
    LET n == Len(l.workspaces)
        Kept == {i \in 1..n : ~Blank(l.workspaces[i])}
        focus == IF n = 1 \/ l.active \in Kept THEN l.active
                 ELSE IF l.active > 1 THEN l.active - 1
                 ELSE IF Kept = {} THEN 1
                 ELSE CHOOSE i \in Kept : \A j \in Kept : i <= j
    IN  IF Kept = {} THEN [workspaces |-> <<Last(l.workspaces)>>, active |-> 1]
        ELSE [workspaces |-> AtIndices(l.workspaces, Kept),
              active |-> Clamp(Cardinality({i \in Kept : i < focus}) + 1,
                               Cardinality(Kept))]

\* Session::close_pane, as far as the layout goes.
ClosePane(l, p) ==
    CleanupEmpty([l EXCEPT !.workspaces = [w \in DOMAIN @ |-> CloseIn(@[w], p)]])

OnActive(l, ws) == [l EXCEPT !.workspaces[l.active] = ws]

\* WorkspaceSet::add_workspace_below
AddWorkspaceBelow(l, p) ==
    LET next == l.active + 1
        under == IF next > Len(l.workspaces) THEN Append(l.workspaces, NewWorkspace)
                                             ELSE l.workspaces
    IN  [workspaces |-> [under EXCEPT ![next] = AddColumnRight(@, p)], active |-> next]

\* WorkspaceSet::focus_up and focus_down, to the workspace at i: the column index
\* is kept as far as that workspace has columns.
FocusWorkspace(l, i) ==
    [l EXCEPT !.active = i,
              !.workspaces[i].active =
                  Clamp(ActiveWorkspace(l).active, Len(l.workspaces[i].columns))]

\* WorkspaceSet::move_active_pane refuses the only pane of the only workspace.
MayMove(l) ==
    /\ Focused(l) # {}
    /\ ~ /\ Len(l.workspaces) = 1
         /\ Len(ActiveWorkspace(l).columns) = 1
         /\ Len(ActiveWorkspace(l).columns[1].tiles) = 1

\* move_pane_up (down = 0) and move_pane_down (down = 1): out of its column, to
\* the right end of the next workspace, which is made when there is none.
MoveVertically(l, down) ==
    LET p == CHOOSE x \in Focused(l) : TRUE
        left == [l.workspaces EXCEPT ![l.active] = CloseIn(@, p)]
        above == IF l.active = 1 THEN <<NewWorkspace>> \o left ELSE left
        below == IF l.active = Len(left) THEN Append(left, NewWorkspace) ELSE left
        target == IF down = 1 THEN l.active + 1
                  ELSE IF l.active = 1 THEN 1 ELSE l.active - 1
        all == IF down = 1 THEN below ELSE above
        end == [all[target] EXCEPT !.active = Len(all[target].columns)]
    IN  CleanupEmpty([workspaces |-> [all EXCEPT ![target] = AddColumnRight(end, p)],
                      active |-> target])

\* Session::focus_pane, for a pane of the layout.
FocusOn(l, p) ==
    LET x == PlaceOf(l, p)
    IN  [l EXCEPT !.active = x[1],
                  !.workspaces[x[1]].active = x[2],
                  !.workspaces[x[1]].columns[x[2]].active = x[3]]

-----------------------------------------------------------------------------
(* Saving and restoring.                                                   *)

\* SessionState::validate_structure: what save and restore accept.
Valid(l) ==
    /\ l.workspaces # <<>>
    /\ l.active \in DOMAIN l.workspaces
    /\ \A w \in DOMAIN l.workspaces :
         LET ws == l.workspaces[w]
         IN  /\ ~Blank(ws)
             /\ ws.active \in DOMAIN ws.columns
             /\ \A c \in DOMAIN ws.columns :
                  /\ ws.columns[c].tiles # <<>>
                  /\ ws.columns[c].active \in DOMAIN ws.columns[c].tiles

\* restore_column and restore_workspace: the tiles whose program could be started,
\* the columns that have one, every workspace.  Indices are clamped, not moved.
RestoreColumn(col, S) ==
    LET tiles == AtIndices(col.tiles, {t \in DOMAIN col.tiles : col.tiles[t] \in S})
    IN  [tiles |-> tiles, active |-> Clamp(col.active, Len(tiles))]

RestoreWorkspace(ws, S) ==
    LET all == [c \in DOMAIN ws.columns |-> RestoreColumn(ws.columns[c], S)]
        columns == AtIndices(all, {c \in DOMAIN all : all[c].tiles # <<>>})
    IN  [columns |-> columns, active |-> Clamp(ws.active, Len(columns))]

\* Mutant: the active workspace is not restored.
RestoredAtTop(l, S) ==
    [workspaces |-> [w \in DOMAIN l.workspaces |-> RestoreWorkspace(l.workspaces[w], S)],
     active |-> 1]

Restored(l, S) ==
    [workspaces |-> [w \in DOMAIN l.workspaces |-> RestoreWorkspace(l.workspaces[w], S)],
     active |-> Clamp(l.active, Len(l.workspaces))]
=============================================================================
