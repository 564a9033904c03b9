------------------------------- MODULE Widgets ------------------------------
(***************************************************************************)
(* The widgets of a vMonitor dashboard (widget_handler.py).                *)
(*                                                                         *)
(* create_widget without a layout reads the dashboard and puts the widget  *)
(* into the first place on the grid that is free there.  Between the read  *)
(* and the POST others may place, move or delete widgets; the read may     *)
(* fail, and the widget then goes to the top left; and the client repeats  *)
(* a POST whose answer is late, so a widget may be created more than once. *)
(***************************************************************************)
EXTENDS Naturals, FiniteSets

CONSTANTS
    Tasks,      \* concurrent calls of create_widget
    Ids,        \* widget ids the platform can give out
    GridCols,   \* columns of the grid
    MaxRows,    \* rows that are searched
    AutoSizes,  \* <<cols, rows>> of the widgets placed automatically
    ByHand,     \* layouts that callers give themselves
    NoWidget

ASSUME GridAssumption ==
    /\ GridCols \in Nat \ {0} /\ MaxRows \in Nat \ {0}
    /\ AutoSizes # {} /\ AutoSizes \subseteq (1 .. GridCols) \X (1 .. MaxRows)

VARIABLES
    board,      \* id -> the widget, or NoWidget
    calls       \* task -> its call

vars == <<board, calls>>

Layout == [x : 0 .. GridCols - 1, y : 0 .. MaxRows - 1, cols : 1 .. GridCols, rows : 1 .. MaxRows]

ASSUME ByHandAssumption == ByHand \subseteq Layout

(* A widget: where it is; whether create_widget chose the place; and, for   *)
(* the property, the widgets it was placed without having seen.             *)
Widget == [layout : Layout, auto : BOOLEAN, unseen : SUBSET Ids]

ASSUME NoWidgetAssumption == NoWidget \notin Widget

(* A call: what it awaits, the size it wants, the place it has chosen, the  *)
(* widgets it cannot know of.                                               *)
Call == [pc : {"idle", "reading", "posting"}, size : AutoSizes, layout : Layout, unseen : SUBSET Ids]

Ended == [pc |-> "idle", size |-> CHOOSE size \in AutoSizes : TRUE,
          layout |-> [x |-> 0, y |-> 0, cols |-> 1, rows |-> 1], unseen |-> {}]

Init ==
    /\ board = [i \in Ids |-> NoWidget]
    /\ calls = [t \in Tasks |-> Ended]

-----------------------------------------------------------------------------
(* _next_grid_slot: the first place, row by row, of which no cell is taken; *)
(* if there is none, the top left.                                          *)
Cells(l) == (l.x .. l.x + l.cols - 1) \X (l.y .. l.y + l.rows - 1)
Overlap(k, l) == Cells(k) \cap Cells(l) # {}

OnBoard == {i \in Ids : board[i] # NoWidget}

\* a mutated form of Places below: up to the last column whatever the width
PlacesToLastColumn(size) == [x : 0 .. GridCols - 1, y : 0 .. MaxRows - 1,
                             cols : {size[1]}, rows : {size[2]}]

Places(size) == [x : 0 .. GridCols - size[1], y : 0 .. MaxRows - 1,
                 cols : {size[1]}, rows : {size[2]}]

\* a mutated form of Free below: only the corner is looked at
FreeCorner(size) == {l \in Places(size) :
    \A i \in OnBoard : <<l.x, l.y>> \notin Cells(board[i].layout)}

Free(size) == {l \in Places(size) : \A i \in OnBoard : ~Overlap(l, board[i].layout)}

Before(k, l) == k.y < l.y \/ (k.y = l.y /\ k.x <= l.x)
First(places) == CHOOSE l \in places : \A k \in places : Before(l, k)

TopLeft(size) == [x |-> 0, y |-> 0, cols |-> size[1], rows |-> size[2]]

-----------------------------------------------------------------------------
Begin(t) ==
    /\ calls[t].pc = "idle"
    /\ \E size \in AutoSizes : calls' = [calls EXCEPT ![t] = [Ended EXCEPT !.pc = "reading", !.size = size]]
    /\ UNCHANGED board

Posts(t, layout, unseen) ==
    calls' = [calls EXCEPT ![t] = [@ EXCEPT !.pc = "posting", !.layout = layout, !.unseen = unseen]]

(* _existing_layouts reads the dashboard and the place is chosen.           *)
ReadAnswers(t) ==
    /\ calls[t].pc = "reading"
    /\ LET size == calls[t].size
       IN  IF Free(size) # {} THEN Posts(t, First(Free(size)), {})
                              ELSE Posts(t, TopLeft(size), Ids)
    /\ UNCHANGED board

\* except Exception: return [], and the board looks empty
ReadFails(t) ==
    /\ calls[t].pc = "reading"
    /\ Posts(t, TopLeft(calls[t].size), Ids)
    /\ UNCHANGED board

(* A widget has come to its place: calls that have read the board before    *)
(* have not seen it there.                                                  *)
Placed(i, widget) ==
    /\ board' = [board EXCEPT ![i] = widget]
    /\ calls' = [t \in Tasks |->
            IF calls[t].pc = "posting" THEN [calls[t] EXCEPT !.unseen = @ \cup {i}] ELSE calls[t]]

(* The POST is carried out; repeated by the client, once more.              *)
ApiCreates(t, i) ==
    /\ calls[t].pc = "posting"
    /\ board[i] = NoWidget
    /\ Placed(i, [layout |-> calls[t].layout, auto |-> TRUE, unseen |-> calls[t].unseen])

\* the POST is answered, or the call gives up
PostEnds(t) ==
    /\ calls[t].pc = "posting"
    /\ calls' = [calls EXCEPT ![t] = Ended]
    /\ UNCHANGED board

(* create_widget with a layout of its own, or the console.                  *)
CreateAt(i, layout) ==
    /\ board[i] = NoWidget
    /\ Placed(i, [layout |-> layout, auto |-> FALSE, unseen |-> {}])

(* update_widget_layout.                                                    *)
UpdateLayout(i, layout) ==
    /\ board[i] # NoWidget
    /\ Placed(i, [layout |-> layout, auto |-> FALSE, unseen |-> {}])

DeleteWidget(i) ==
    /\ board[i] # NoWidget
    /\ board' = [j \in Ids |-> IF j = i THEN NoWidget
                              ELSE IF j \in OnBoard THEN [board[j] EXCEPT !.unseen = @ \ {i}]
                              ELSE board[j]]
    /\ calls' = [t \in Tasks |-> [calls[t] EXCEPT !.unseen = @ \ {i}]]

Next ==
    \/ \E t \in Tasks : Begin(t) \/ ReadAnswers(t) \/ ReadFails(t) \/ PostEnds(t)
    \/ \E t \in Tasks, i \in Ids : ApiCreates(t, i)
    \/ \E i \in Ids, layout \in ByHand : CreateAt(i, layout) \/ UpdateLayout(i, layout)
    \/ \E i \in Ids : DeleteWidget(i)

Spec == Init /\ [][Next]_vars

-----------------------------------------------------------------------------
(* Types; and a widget placed automatically does not stick out of the grid, *)
(* however full it is.                                                      *)
TypeOK ==
    /\ board \in [Ids -> Widget \cup {NoWidget}]
    /\ calls \in [Tasks -> Call]
    /\ \A i \in OnBoard : board[i].auto => board[i].layout.x + board[i].layout.cols <= GridCols

(* Of two widgets on one place, one was put there by hand, or was placed    *)
(* without having seen the other: because the read failed, the grid was     *)
(* full, or the other came after the read.  ("so a new widget never         *)
(* overlaps one already on the dashboard".)                                 *)
OverlapsExplained == \A i, j \in OnBoard :
    i # j /\ Overlap(board[i].layout, board[j].layout) =>
        \/ ~board[i].auto \/ ~board[j].auto
        \/ i \in board[j].unseen \/ j \in board[i].unseen

=============================================================================
