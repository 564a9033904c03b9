--------------------------- MODULE WidgetsProofs ----------------------------
(***************************************************************************)
(* What the placement of widgets guarantees for any number of calls and    *)
(* widgets and a grid of any size.                                         *)
(***************************************************************************)
EXTENDS Widgets, WellFoundedInduction, TLAPS

-----------------------------------------------------------------------------
(* A non-empty set of numbers has a least one.                              *)
LEMMA LeastNatural ==
  ASSUME NEW S, S \subseteq Nat, S # {}
  PROVE  \E n \in S : \A m \in S : n <= m
<1>1. PICK n \in S : \A m \in S : ~ (<<m, n>> \in OpToRel(<, Nat))
  BY NatLessThanWellFounded, WFMin, Zenon
<1>2. \A m \in S : ~ (m < n)
  BY <1>1, Zenon DEF OpToRel
<1> QED
  BY <1>2, SMT

(* A size that is placed automatically fits the grid, and so do the places  *)
(* that are tried for it and the top left.                                  *)
LEMMA PlacesInGrid ==
  ASSUME NEW size \in AutoSizes
  PROVE  /\ \A l \in Places(size) : l \in Layout /\ l.x + l.cols <= GridCols
         /\ TopLeft(size) \in Layout /\ TopLeft(size).x + TopLeft(size).cols <= GridCols
<1> USE GridAssumption
<1>1. size[1] \in 1 .. GridCols /\ size[2] \in 1 .. MaxRows
  OBVIOUS
<1>2. ASSUME NEW l \in Places(size) PROVE l \in Layout /\ l.x + l.cols <= GridCols
  <2>1. /\ l = [x |-> l.x, y |-> l.y, cols |-> l.cols, rows |-> l.rows]
        /\ l.x \in 0 .. GridCols - size[1] /\ l.y \in 0 .. MaxRows - 1
        /\ l.cols = size[1] /\ l.rows = size[2]
    BY DEF Places
  <2>2. /\ l.x \in 0 .. GridCols - 1 /\ l.cols \in 1 .. GridCols /\ l.rows \in 1 .. MaxRows
        /\ l.x + l.cols <= GridCols
    BY <1>1, <2>1, SMT
  <2> QED
    BY <2>1, <2>2, Zenon DEF Layout
<1>3. 0 \in 0 .. GridCols - 1 /\ 0 \in 0 .. MaxRows - 1 /\ 0 + size[1] <= GridCols
  BY <1>1, SMT
<1>4. TopLeft(size) \in Layout /\ TopLeft(size).x = 0 /\ TopLeft(size).cols = size[1]
  BY <1>1, <1>3, Zenon DEF TopLeft, Layout
<1> QED
  BY <1>2, <1>3, <1>4

(* Of any places for one size there is a first, row by row; so the search   *)
(* finds one whenever one is free.                                          *)
LEMMA FirstExists ==
  ASSUME NEW size \in AutoSizes, NEW places, places \subseteq Places(size), places # {}
  PROVE  First(places) \in places /\ \A k \in places : Before(First(places), k)
<1>1. \A l \in places : l.x \in Nat /\ l.y \in Nat
  <2>1. \A l \in places : l.x \in 0 .. GridCols - size[1] /\ l.y \in 0 .. MaxRows - 1
    BY DEF Places
  <2> QED
    BY <2>1, SMT
<1>2. PICK top \in places : \A k \in places : top.y <= k.y
  <2>1. {l.y : l \in places} \subseteq Nat /\ {l.y : l \in places} # {}
    BY <1>1
  <2>2. PICK n \in {l.y : l \in places} : \A m \in {l.y : l \in places} : n <= m
    BY <2>1, LeastNatural, Zenon
  <2> QED
    BY <2>2, Zenon
<1> DEFINE row == {l \in places : l.y = top.y}
<1>3. PICK first \in row : \A k \in row : first.x <= k.x
  <2>1. {l.x : l \in row} \subseteq Nat /\ {l.x : l \in row} # {}
    BY <1>1
  <2>2. PICK n \in {l.x : l \in row} : \A m \in {l.x : l \in row} : n <= m
    BY <2>1, LeastNatural, Zenon
  <2> QED
    BY <2>2, Zenon
<1>4. \A k \in places : Before(first, k)
  BY <1>1, <1>2, <1>3, SMT DEF Before
<1> QED
  BY <1>3, <1>4 DEF First

(* Overlapping is symmetric.                                                *)
LEMMA OverlapSymmetric == \A k, l : Overlap(k, l) <=> Overlap(l, k)
  BY DEF Overlap

-----------------------------------------------------------------------------
(* A call that posts has a place in the grid, and knows of every widget     *)
(* that lies there, but for those it cannot know of.                        *)
CallSound(t) == calls[t].pc = "posting" =>
    /\ calls[t].layout.x + calls[t].layout.cols <= GridCols
    /\ \A i \in OnBoard : Overlap(calls[t].layout, board[i].layout) => i \in calls[t].unseen

WidgetInv ==
    /\ TypeOK
    /\ OverlapsExplained
    /\ \A t \in Tasks : CallSound(t)

(* The end of a call is a call.                                             *)
LEMMA EndedCall == Ended \in Call
<1> USE GridAssumption
<1>1. (CHOOSE size \in AutoSizes : TRUE) \in AutoSizes
  OBVIOUS
<1>2. 0 \in 0 .. GridCols - 1 /\ 0 \in 0 .. MaxRows - 1 /\ 1 \in 1 .. GridCols /\ 1 \in 1 .. MaxRows
  BY SMT
<1>3. [x |-> 0, y |-> 0, cols |-> 1, rows |-> 1] \in Layout
  BY <1>2, Zenon DEF Layout
<1> QED
  BY <1>1, <1>3, Zenon DEF Ended, Call

(* The fields of a call, one of which may be given another value.           *)
LEMMA CallFields ==
  ASSUME NEW c \in Call
  PROVE  c.size \in AutoSizes /\ c.layout \in Layout /\ c.unseen \in SUBSET Ids
  BY Zenon DEF Call

(* A call with other widgets unseen. *)
LEMMA CallUnseen ==
  ASSUME NEW c \in Call, NEW unseen \in SUBSET Ids
  PROVE  /\ [c EXCEPT !.unseen = unseen] \in Call
         /\ [c EXCEPT !.unseen = unseen].pc = c.pc
         /\ [c EXCEPT !.unseen = unseen].size = c.size
         /\ [c EXCEPT !.unseen = unseen].layout = c.layout
         /\ [c EXCEPT !.unseen = unseen].unseen = unseen
  BY Zenon DEF Call

(* A call with another place. *)
LEMMA CallLayout ==
  ASSUME NEW c \in Call, NEW layout \in Layout
  PROVE  /\ [c EXCEPT !.layout = layout] \in Call
         /\ [c EXCEPT !.layout = layout].pc = c.pc
         /\ [c EXCEPT !.layout = layout].layout = layout
  BY Zenon DEF Call

(* A call at another await. *)
LEMMA CallAt ==
  ASSUME NEW c \in Call, NEW label \in {"reading", "posting"}
  PROVE  /\ [c EXCEPT !.pc = label] \in Call
         /\ [c EXCEPT !.pc = label].pc = label
  BY Zenon DEF Call

(* A widget that no longer counts one as unseen. *)
LEMMA WidgetUnseen ==
  ASSUME NEW w \in Widget, NEW i
  PROVE  /\ [w EXCEPT !.unseen = w.unseen \ {i}] \in Widget
         /\ [w EXCEPT !.unseen = w.unseen \ {i}].layout = w.layout
         /\ [w EXCEPT !.unseen = w.unseen \ {i}].auto = w.auto
         /\ [w EXCEPT !.unseen = w.unseen \ {i}].unseen = w.unseen \ {i}
<1>1. w.unseen \ {i} \in SUBSET Ids
  BY DEF Widget
<1> QED
  BY <1>1, Zenon DEF Widget

(* A widget on the board is one.                                            *)
LEMMA OnBoardWidget ==
  ASSUME TypeOK
  PROVE  /\ \A i \in OnBoard : i \in Ids /\ board[i] \in Widget
         /\ \A i \in Ids : board[i] \in Widget => i \in OnBoard
  BY NoWidgetAssumption, Zenon DEF TypeOK, OnBoard

(* It holds of an empty board.                                              *)
LEMMA WidgetInitInv == Init => WidgetInv
<1> SUFFICES ASSUME Init PROVE WidgetInv
  OBVIOUS
<1>1. OnBoard = {}
  BY DEF Init, OnBoard
<1>2. TypeOK
  BY <1>1, EndedCall DEF Init, TypeOK
<1>3. \A t \in Tasks : calls[t].pc # "posting"
  BY DEF Init, Ended
<1> QED
  BY <1>1, <1>2, <1>3 DEF WidgetInv, OverlapsExplained, CallSound

-----------------------------------------------------------------------------
(* A call goes on, the board being what it was.                             *)
LEMMA CallStep ==
  ASSUME WidgetInv, NEW t \in Tasks, NEW c \in Call, UNCHANGED board,
         calls' = [calls EXCEPT ![t] = c],
         c.pc = "posting" =>
             /\ c.layout.x + c.layout.cols <= GridCols
             /\ \A i \in OnBoard : Overlap(c.layout, board[i].layout) => i \in c.unseen
  PROVE  WidgetInv'
<1>1. TypeOK /\ OverlapsExplained /\ calls \in [Tasks -> Call]
  BY DEF WidgetInv, TypeOK
<1>2. OnBoard' = OnBoard
  BY DEF OnBoard
<1>3. calls' \in [Tasks -> Call]
  BY <1>1
<1>4. TypeOK'
  BY <1>1, <1>2, <1>3 DEF TypeOK
<1>5. OverlapsExplained'
  BY <1>1, <1>2 DEF OverlapsExplained
<1>6. ASSUME NEW u \in Tasks PROVE CallSound(u)'
  <2>1. CASE u = t
    <3>1. calls'[u] = c
      BY <1>1, <2>1
    <3> QED
      BY <1>2, <3>1 DEF CallSound
  <2>2. CASE u # t
    <3>1. calls'[u] = calls[u] /\ CallSound(u)
      BY <1>1, <2>2 DEF WidgetInv
    <3> QED
      BY <1>2, <3>1 DEF CallSound
  <2> QED
    BY <2>1, <2>2
<1> QED
  BY <1>4, <1>5, <1>6 DEF WidgetInv

(* A call posts a place where it sees nothing, or has not looked.           *)
LEMMA PostsStep ==
  ASSUME WidgetInv, NEW t \in Tasks, NEW layout \in Layout, NEW unseen \in SUBSET Ids,
         layout.x + layout.cols <= GridCols,
         \A i \in OnBoard : Overlap(layout, board[i].layout) => i \in unseen,
         Posts(t, layout, unseen), UNCHANGED board
  PROVE  WidgetInv'
<1> DEFINE c == [calls[t] EXCEPT !.pc = "posting"]
           d == [c EXCEPT !.layout = layout]
           e == [d EXCEPT !.unseen = unseen]
<1>1. calls[t] \in Call
  BY DEF WidgetInv, TypeOK
<1>2. c \in Call /\ c.pc = "posting"
  BY <1>1, CallAt
<1>3. d \in Call /\ d.pc = "posting" /\ d.layout = layout
  BY <1>2, CallLayout
<1>4. e \in Call /\ e.pc = "posting" /\ e.layout = layout /\ e.unseen = unseen
  BY <1>3, CallUnseen
<1>5. calls' = [calls EXCEPT ![t] = e]
  BY Zenon DEF Posts
<1> QED
  BY <1>4, <1>5, CallStep

(* The choice of a place.                                                   *)
LEMMA ChooseStep ==
  ASSUME WidgetInv, NEW t \in Tasks, ReadAnswers(t) \/ ReadFails(t)
  PROVE  WidgetInv'
<1> DEFINE size == calls[t].size
<1>1. size \in AutoSizes
  BY DEF WidgetInv, TypeOK, Call
<1>2. CASE Posts(t, TopLeft(size), Ids)
  BY <1>1, <1>2, PlacesInGrid, PostsStep, OnBoardWidget DEF ReadAnswers, ReadFails, OnBoard
<1>3. CASE Free(size) # {} /\ Posts(t, First(Free(size)), {})
  <2>1. Free(size) \subseteq Places(size)
    BY DEF Free
  <2>2. First(Free(size)) \in Free(size)
    BY <1>1, <1>3, <2>1, FirstExists
  <2>3. \A i \in OnBoard : ~ Overlap(First(Free(size)), board[i].layout)
    BY <2>2 DEF Free
  <2>4. First(Free(size)) \in Layout /\ First(Free(size)).x + First(Free(size)).cols <= GridCols
    BY <1>1, <2>1, <2>2, PlacesInGrid
  <2> QED
    BY <1>3, <2>3, <2>4, PostsStep DEF ReadAnswers, ReadFails
<1> QED
  BY <1>2, <1>3 DEF ReadAnswers, ReadFails

(* A widget comes to its place: by hand, or where its call saw nothing.     *)
LEMMA PlacedStep ==
  ASSUME WidgetInv, NEW i \in Ids, NEW widget \in Widget, Placed(i, widget),
         widget.auto => widget.layout.x + widget.layout.cols <= GridCols,
         widget.auto => \A j \in OnBoard :
             Overlap(widget.layout, board[j].layout) => j \in widget.unseen
  PROVE  WidgetInv'
<1>1. /\ TypeOK /\ OverlapsExplained /\ calls \in [Tasks -> Call]
      /\ board \in [Ids -> Widget \cup {NoWidget}]
  BY DEF WidgetInv, TypeOK
<1>2. board'[i] = widget /\ \A j \in Ids \ {i} : board'[j] = board[j]
  BY <1>1 DEF Placed
<1>3. \A j \in OnBoard' : j = i \/ (j \in OnBoard \ {i} /\ board'[j] = board[j])
  BY <1>2 DEF OnBoard
<1>4. ASSUME NEW t \in Tasks, calls[t].pc = "posting"
      PROVE  /\ calls'[t] \in Call /\ calls'[t].pc = "posting"
             /\ calls'[t].layout = calls[t].layout
             /\ calls'[t].unseen = calls[t].unseen \cup {i}
  <2>1. calls'[t] = [calls[t] EXCEPT !.unseen = calls[t].unseen \cup {i}]
    BY <1>4 DEF Placed
  <2>2. calls[t] \in Call /\ calls[t].unseen \cup {i} \in SUBSET Ids
    BY <1>1, CallFields
  <2> QED
    BY <1>4, <2>1, <2>2, CallUnseen
<1>5. ASSUME NEW t \in Tasks, calls[t].pc # "posting" PROVE calls'[t] = calls[t]
  BY <1>5 DEF Placed
<1>6. TypeOK'
  <2>1. board' \in [Ids -> Widget \cup {NoWidget}]
    BY <1>1 DEF Placed
  <2>2. calls' \in [Tasks -> Call]
    <3>1. calls' = [t \in Tasks |-> calls'[t]]
      BY DEF Placed
    <3>2. \A t \in Tasks : calls'[t] \in Call
      BY <1>1, <1>4, <1>5
    <3> QED
      BY <3>1, <3>2
  <2>3. ASSUME NEW j \in OnBoard', board'[j].auto
        PROVE  board'[j].layout.x + board'[j].layout.cols <= GridCols
    BY <1>1, <1>2, <1>3, <2>3 DEF TypeOK
  <2> QED
    BY <2>1, <2>2, <2>3 DEF TypeOK
<1>7. OverlapsExplained'
  <2> SUFFICES ASSUME NEW j \in OnBoard', NEW k \in OnBoard', j # k,
                      Overlap(board'[j].layout, board'[k].layout),
                      board'[j].auto, board'[k].auto
               PROVE  j \in board'[k].unseen \/ k \in board'[j].unseen
    BY DEF OverlapsExplained, Overlap, Cells
  <2>1. CASE j = i
    BY <1>2, <1>3, <2>1
  <2>2. CASE k = i
    BY <1>2, <1>3, <2>2, OverlapSymmetric
  <2>3. CASE j # i /\ k # i
    BY <1>1, <1>3, <2>3 DEF OverlapsExplained
  <2> QED
    BY <2>1, <2>2, <2>3
<1>8. ASSUME NEW t \in Tasks PROVE CallSound(t)'
  <2>1. CASE calls[t].pc = "posting"
    <3>1. CallSound(t)
      BY DEF WidgetInv
    <3>2. ASSUME NEW j \in OnBoard', Overlap(calls[t].layout, board'[j].layout)
          PROVE  j \in calls[t].unseen \cup {i}
      BY <1>3, <2>1, <3>1, <3>2 DEF CallSound
    <3>3. calls[t].layout.x + calls[t].layout.cols <= GridCols
      BY <2>1, <3>1 DEF CallSound
    <3> QED
      BY <1>4, <2>1, <3>2, <3>3 DEF CallSound, Overlap, Cells
  <2>2. CASE calls[t].pc # "posting"
    BY <1>5, <2>2 DEF CallSound
  <2> QED
    BY <2>1, <2>2
<1> QED
  BY <1>6, <1>7, <1>8 DEF WidgetInv

(* A widget is deleted, and nobody need know of it.                         *)
LEMMA DeletedStep ==
  ASSUME WidgetInv, NEW i \in Ids, DeleteWidget(i)
  PROVE  WidgetInv'
<1>1. /\ TypeOK /\ OverlapsExplained /\ calls \in [Tasks -> Call]
      /\ board \in [Ids -> Widget \cup {NoWidget}]
  BY DEF WidgetInv, TypeOK
<1>2. ASSUME NEW t \in Tasks
      PROVE  /\ calls'[t] \in Call /\ calls'[t].pc = calls[t].pc
             /\ calls'[t].layout = calls[t].layout
             /\ calls'[t].unseen = calls[t].unseen \ {i}
  <2>1. calls'[t] = [calls[t] EXCEPT !.unseen = calls[t].unseen \ {i}]
    BY DEF DeleteWidget
  <2>2. calls[t] \in Call /\ calls[t].unseen \ {i} \in SUBSET Ids
    BY <1>1, CallFields
  <2> QED
    BY <2>1, <2>2, CallUnseen
<1>3. ASSUME NEW j \in OnBoard, j # i
      PROVE  /\ board'[j] \in Widget /\ board'[j].layout = board[j].layout
             /\ board'[j].auto = board[j].auto
             /\ board'[j].unseen = board[j].unseen \ {i}
  <2>1. board'[j] = [board[j] EXCEPT !.unseen = board[j].unseen \ {i}]
    BY <1>3 DEF DeleteWidget, OnBoard
  <2>2. board[j] \in Widget
    BY <1>1, OnBoardWidget
  <2> QED
    BY <2>1, <2>2, WidgetUnseen
<1>4. ASSUME NEW j \in Ids, j = i \/ j \notin OnBoard PROVE board'[j] = NoWidget
  BY <1>4 DEF DeleteWidget, OnBoard
<1>5. OnBoard' = OnBoard \ {i}
  <2>1. \A j \in OnBoard \ {i} : board'[j] # NoWidget
    BY <1>3, NoWidgetAssumption
  <2> QED
    BY <1>4, <2>1 DEF OnBoard
<1>6. TypeOK'
  <2>1. board' \in [Ids -> Widget \cup {NoWidget}]
    <3>1. board' = [j \in Ids |-> board'[j]]
      BY DEF DeleteWidget
    <3>2. \A j \in Ids : board'[j] \in Widget \cup {NoWidget}
      BY <1>3, <1>4 DEF OnBoard
    <3> QED
      BY <3>1, <3>2
  <2>2. calls' \in [Tasks -> Call]
    <3>1. calls' = [t \in Tasks |-> calls'[t]]
      BY DEF DeleteWidget
    <3> QED
      BY <1>2, <3>1
  <2>3. ASSUME NEW j \in OnBoard', board'[j].auto
        PROVE  board'[j].layout.x + board'[j].layout.cols <= GridCols
    BY <1>1, <1>3, <1>5, <2>3 DEF TypeOK
  <2> QED
    BY <2>1, <2>2, <2>3 DEF TypeOK
<1>7. OverlapsExplained'
  <2> SUFFICES ASSUME NEW j \in OnBoard', NEW k \in OnBoard', j # k,
                      Overlap(board'[j].layout, board'[k].layout),
                      board'[j].auto, board'[k].auto
               PROVE  j \in board'[k].unseen \/ k \in board'[j].unseen
    BY DEF OverlapsExplained, Overlap, Cells
  <2>1. j \in board[k].unseen \/ k \in board[j].unseen
    BY <1>1, <1>3, <1>5 DEF OverlapsExplained
  <2> QED
    BY <1>3, <1>5, <2>1
<1>8. ASSUME NEW t \in Tasks, calls'[t].pc = "posting"
      PROVE  /\ calls'[t].layout.x + calls'[t].layout.cols <= GridCols
             /\ \A j \in OnBoard' : Overlap(calls'[t].layout, board'[j].layout)
                                      => j \in calls'[t].unseen
  <2>1. CallSound(t) /\ calls[t].pc = "posting"
    BY <1>2, <1>8 DEF WidgetInv
  <2> QED
    BY <1>2, <1>3, <1>5, <2>1 DEF CallSound
<1> QED
  BY <1>6, <1>7, <1>8 DEF WidgetInv, CallSound, Overlap, Cells

-----------------------------------------------------------------------------
(* Every step keeps the invariant.                                          *)
LEMMA WidgetInvStep == WidgetInv /\ [Next]_vars => WidgetInv'
<1> SUFFICES ASSUME WidgetInv, [Next]_vars PROVE WidgetInv'
  OBVIOUS
<1>t. TypeOK /\ calls \in [Tasks -> Call]
  BY DEF WidgetInv, TypeOK
<1>1. ASSUME NEW t \in Tasks, Begin(t) PROVE WidgetInv'
  <2>1. PICK size \in AutoSizes :
          calls' = [calls EXCEPT ![t] = [Ended EXCEPT !.pc = "reading", !.size = size]]
    BY <1>1 DEF Begin
  <2> DEFINE c == [Ended EXCEPT !.pc = "reading", !.size = size]
  <2>2. [Ended EXCEPT !.pc = "reading"] \in Call /\ [Ended EXCEPT !.pc = "reading"].pc = "reading"
    BY EndedCall, CallAt
  <2>3. c \in Call /\ c.pc = "reading"
    BY <2>2, Zenon DEF Call
  <2> QED
    BY <1>1, <2>1, <2>3, CallStep DEF Begin
<1>2. ASSUME NEW t \in Tasks, ReadAnswers(t) \/ ReadFails(t) PROVE WidgetInv'
  BY <1>2, ChooseStep
<1>3. ASSUME NEW t \in Tasks, PostEnds(t) PROVE WidgetInv'
  <2>1. Ended.pc # "posting"
    BY DEF Ended
  <2> QED
    BY <1>3, <2>1, EndedCall, CallStep DEF PostEnds
<1>4. ASSUME NEW t \in Tasks, NEW i \in Ids, ApiCreates(t, i) PROVE WidgetInv'
  <2> DEFINE widget == [layout |-> calls[t].layout, auto |-> TRUE, unseen |-> calls[t].unseen]
  <2>1. /\ widget.layout = calls[t].layout /\ widget.unseen = calls[t].unseen
        /\ widget \in Widget
    BY <1>t, CallFields, Zenon DEF Widget
  <2>2. CallSound(t) /\ calls[t].pc = "posting"
    BY <1>4 DEF WidgetInv, ApiCreates
  <2>3. /\ widget.layout.x + widget.layout.cols <= GridCols
        /\ \A j \in OnBoard : Overlap(widget.layout, board[j].layout) => j \in widget.unseen
    BY <2>1, <2>2 DEF CallSound
  <2>4. Placed(i, widget)
    BY <1>4 DEF ApiCreates
  <2> HIDE DEF widget
  <2> QED
    BY <2>1, <2>3, <2>4, PlacedStep
<1>5. ASSUME NEW i \in Ids, NEW layout \in ByHand, CreateAt(i, layout) \/ UpdateLayout(i, layout)
      PROVE  WidgetInv'
  <2> DEFINE widget == [layout |-> layout, auto |-> FALSE, unseen |-> {}]
  <2>1. widget \in Widget /\ ~ widget.auto
    BY ByHandAssumption, Zenon DEF Widget
  <2>2. Placed(i, widget)
    BY <1>5 DEF CreateAt, UpdateLayout
  <2> HIDE DEF widget
  <2> QED
    BY <2>1, <2>2, PlacedStep
<1>6. ASSUME NEW i \in Ids, DeleteWidget(i) PROVE WidgetInv'
  BY <1>6, DeletedStep
<1>7. CASE UNCHANGED vars
  BY <1>7 DEF vars, WidgetInv, TypeOK, OverlapsExplained, CallSound, OnBoard, Overlap, Cells
<1> QED
  BY <1>1, <1>2, <1>3, <1>4, <1>5, <1>6, <1>7 DEF Next

-----------------------------------------------------------------------------
(* The invariant holds in every reachable state.                            *)
THEOREM WidgetInvariant == Spec => []WidgetInv
  BY WidgetInitInv, WidgetInvStep, PTL DEF Spec

(* Types; and a widget that was placed automatically lies inside the grid,  *)
(* whatever its size and however full the board (widget_handler.py 70-75).  *)
THEOREM WidgetTypeCorrect == Spec => []TypeOK
<1>1. WidgetInv => TypeOK
  BY DEF WidgetInv
<1> QED
  BY <1>1, WidgetInvariant, PTL

(* Widgets placed automatically overlap only where one call could not know  *)
(* of the other's widget (widget_handler.py 53-75, 186-201).                *)
THEOREM OverlapsExplainedHolds == Spec => []OverlapsExplained
<1>1. WidgetInv => OverlapsExplained
  BY DEF WidgetInv
<1> QED
  BY <1>1, WidgetInvariant, PTL

=============================================================================
