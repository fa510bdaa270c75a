------------------------------ MODULE Inventory ------------------------------
(***************************************************************************)
(* Items, containers and clicks: crates/cubic-world/src/inventory.rs.  One *)
(* set of operators serves the three places that run them: the network     *)
(* task's InventoryState, the overlay's copy of it and the server's menu.  *)
(* Regions of a menu keep their order; their sizes are constants.          *)
(***************************************************************************)
EXTENDS Integers, Sequences, SequencesExt, FiniteSets, FiniteSetsExt

CONSTANTS
    Items,      \* item and component patch: what stackable_with tells apart
    MaxStack,   \* [Items -> Nat]: max_stack_size
    Trait,      \* [Items -> {"plain", "fuel", "smelts", "helmet", "shield"}]
    GridSize,   \* crafting slots of a menu (4 and 9 in the code)
    MainSize,   \* 27 in the code
    HotbarSize, \* 9 in the code
    ChestSize,  \* 9 to 54 in the code
    None

ASSUME InventoryAssumption ==
    /\ MaxStack \in [Items -> Nat \ {0}]
    /\ {GridSize, MainSize, HotbarSize, ChestSize} \subseteq Nat \ {0}
    /\ None \notin Items

Outside == -999
Empty == [item |-> None, count |-> 0]
Stack(item, count) == IF count = 0 THEN Empty ELSE [item |-> item, count |-> count]
Stacks == {Empty} \cup [item : Items, count : Nat \ {0}]
Least(a, b) == IF a < b THEN a ELSE b
\* Mutant: one more than the maximum fits.
RoomPlusOne(stack) == MaxStack[stack.item] + 1 - stack.count
Room(stack) == IF stack.count < MaxStack[stack.item] THEN MaxStack[stack.item] - stack.count ELSE 0
Full(stack) == Room(stack) = 0

(***************************************************************************)
(* Menus: result, grid and equipment of the player first, then main        *)
(* inventory and hotbar, then the offhand; other menus end with the tail.  *)
(***************************************************************************)
PlayerId == 0
TailSize == MainSize + HotbarSize
Helmet == GridSize + 1
PlayerMain == Helmet + 1
PlayerHotbar == PlayerMain + MainSize
Offhand == PlayerHotbar + HotbarSize
SizeOf(menu) ==
    CASE menu = "player" -> Offhand + 1
      [] menu = "chest" -> ChestSize + TailSize
      [] menu = "furnace" -> 3 + TailSize
      [] menu = "crafting" -> 1 + GridSize + TailSize
Size(c) == Cardinality(DOMAIN c.slots)
TailStart(c) == IF c.menu = "player" THEN PlayerMain ELSE Size(c) - TailSize
\* The slot nothing may be put into or collected from: a result.
Output(menu) == CASE menu \in {"player", "crafting"} -> 0 [] menu = "furnace" -> 2 [] OTHER -> -1

\* ContainerState::new has no slots until the content arrives.
NewContainer(id, menu, slots) ==
    [id |-> id, menu |-> menu, state |-> 0, slots |-> slots, carried |-> Empty]
NoSlots == [i \in {} |-> Empty]
NewInventory ==
    [player |-> NewContainer(PlayerId, "player", [i \in 0 .. SizeOf("player") - 1 |-> Empty]),
     open |-> None, selected |-> 0, drag |-> None]

Known(inv, id) == id = PlayerId \/ (inv.open # None /\ inv.open.id = id)
Container(inv, id) == IF id = PlayerId THEN inv.player ELSE inv.open
SetContainer(inv, c) ==
    IF c.id = PlayerId THEN [inv EXCEPT !.player = c] ELSE [inv EXCEPT !.open = c]
Carried(inv) == IF inv.open = None THEN inv.player.carried ELSE inv.open.carried
Active(inv) == IF inv.open = None THEN inv.player ELSE inv.open

\* synchronize_player_from: the cursor either way, the tail only towards the player.
Synchronized(inv, id) ==
    IF id = PlayerId
    THEN IF inv.open = None THEN inv ELSE [inv EXCEPT !.open.carried = inv.player.carried]
    ELSE LET cursor == [inv EXCEPT !.player.carried = inv.open.carried]
             first == TailStart(inv.open)
         IN IF inv.open = None THEN inv
            ELSE IF Size(inv.open) < TailSize THEN cursor
            ELSE [cursor EXCEPT !.player.slots =
                    [i \in DOMAIN @ |-> IF i \in PlayerMain .. PlayerMain + TailSize - 1
                                        THEN inv.open.slots[first + i - PlayerMain] ELSE @[i]]]

(***************************************************************************)
(* What the server says.  Each is defined where the container is known.    *)
(***************************************************************************)
\* Mutant: a new state of the container leaves the gesture alone.
DragKept(inv, id, state) == inv.drag
DragAfter(inv, id, state) ==
    IF inv.drag # None /\ inv.drag.container = id /\ inv.drag.state # state THEN None ELSE inv.drag

ReplaceContent(inv, id, state, slots, carried) ==
    Synchronized(
      [SetContainer(inv, [Container(inv, id) EXCEPT !.state = state, !.slots = slots,
                                                    !.carried = carried])
       EXCEPT !.drag = DragAfter(inv, id, state)], id)

SetSlot(inv, id, state, slot, stack) ==
    Synchronized(
      [SetContainer(inv, [Container(inv, id) EXCEPT !.state = state, !.slots[slot] = stack])
       EXCEPT !.drag = DragAfter(inv, id, state)], id)

OpenContainer(inv, c) == [inv EXCEPT !.open = c, !.drag = None]
CloseContainer(inv) == [inv EXCEPT !.open = None, !.drag = None]

SetCarried(inv, stack) ==
    [inv EXCEPT !.player.carried = stack,
                !.open = IF @ = None THEN None ELSE [@ EXCEPT !.carried = stack]]
SetCreativeSlot(inv, slot, stack) ==
    IF slot = -1 THEN inv ELSE [inv EXCEPT !.player.slots[slot] = stack]

(***************************************************************************)
(* Clicks on one container; each yields the container it leaves.           *)
(***************************************************************************)
Pickup(c, slot, button) ==
    LET cursor == c.carried
        there == c.slots[slot]
        Half == (there.count + 1) \div 2
        moved == Least(IF button = 0 THEN cursor.count ELSE 1, Room(there))
    IN IF slot = Outside
       THEN [c EXCEPT !.carried = IF button = 0 \/ cursor = Empty THEN Empty
                                  ELSE Stack(cursor.item, cursor.count - 1)]
       ELSE IF cursor = Empty
       THEN IF button = 0
            THEN [c EXCEPT !.carried = there, !.slots[slot] = Empty]
            ELSE [c EXCEPT !.carried = Stack(there.item, Half),
                           !.slots[slot] = Stack(there.item, there.count - Half)]
       ELSE IF there = Empty
       THEN LET put == IF button = 0 THEN cursor.count ELSE 1
            IN [c EXCEPT !.carried = Stack(cursor.item, cursor.count - put),
                         !.slots[slot] = Stack(cursor.item, put)]
       ELSE IF there.item = cursor.item
       THEN [c EXCEPT !.carried = Stack(cursor.item, cursor.count - moved),
                      !.slots[slot] = Stack(there.item, there.count + moved)]
       ELSE [c EXCEPT !.carried = there, !.slots[slot] = cursor]

Upward(first, end) == [i \in 1 .. end - first |-> first + i - 1]
Downward(first, end) == Reverse(Upward(first, end))

EquipmentRoute(c, item) ==
    LET place == CASE Trait[item] = "helmet" -> Helmet [] Trait[item] = "shield" -> Offhand
                   [] OTHER -> -1
    IN IF place # -1 /\ c.slots[place] = Empty THEN <<<<place>>>> ELSE <<>>
FurnaceRoute(item) ==
    CASE Trait[item] = "fuel" -> <<<<1>>>> [] Trait[item] = "smelts" -> <<<<0>>>> [] OTHER -> <<>>

\* quick_move_routes: the destinations of a slot, each in the order it is searched.
Routes(c, slot, item) ==
    LET main == TailStart(c)
        hotbar == main + MainSize
        end == hotbar + HotbarSize
        InMain == slot \in main .. hotbar - 1
        InHotbar == slot \in hotbar .. end - 1
    IN CASE c.menu = "player" ->
              (CASE InMain -> Append(EquipmentRoute(c, item), Upward(hotbar, end))
                 [] InHotbar -> <<Upward(main, hotbar)>>
                 [] OTHER -> <<Downward(main, end)>>)
         [] c.menu = "furnace" ->
              (CASE InMain -> Append(FurnaceRoute(item), Upward(hotbar, end))
                 [] InHotbar -> Append(FurnaceRoute(item), Upward(main, hotbar))
                 [] OTHER -> <<Downward(main, end)>>)
         [] c.menu = "crafting" ->
              (CASE InMain -> <<Upward(hotbar, end)>>
                 [] InHotbar -> <<Upward(main, hotbar)>>
                 [] slot = 0 -> <<Downward(main, end)>>
                 [] OTHER -> <<Upward(main, end)>>)
         [] OTHER -> IF slot < main THEN <<Downward(main, end)>> ELSE <<Upward(0, main)>>

\* Mutant: the first destination is overwritten.
MoveOver(state, route) ==
    IF route = <<>> \/ state.moving.count = 0 THEN state
    ELSE [slots |-> [state.slots EXCEPT ![route[1]] = state.moving],
          moving |-> [state.moving EXCEPT !.count = 0]]
\* move_stack_to: first onto stacks of the same item, then the rest into one empty slot.
Merge(state, i) ==
    LET n == IF state.slots[i].item = state.moving.item
             THEN Least(state.moving.count, Room(state.slots[i])) ELSE 0
    IN [slots |-> [state.slots EXCEPT ![i].count = @ + n],
        moving |-> [state.moving EXCEPT !.count = @ - n]]
PlaceRest(state, route) ==
    LET free == SelectInSeq(route, LAMBDA i : state.slots[i] = Empty)
    IN IF state.moving.count = 0 \/ free = 0 THEN state
       ELSE [slots |-> [state.slots EXCEPT ![route[free]] = state.moving],
             moving |-> [state.moving EXCEPT !.count = 0]]
MoveTo(state, route) == PlaceRest(FoldLeft(Merge, state, route), route)

QuickMove(c, slot) ==
    LET moving == c.slots[slot]
        end == FoldLeft(MoveTo, [slots |-> [c.slots EXCEPT ![slot] = Empty], moving |-> moving],
                        Routes(c, slot, moving.item))
    IN IF moving = Empty THEN c
       ELSE [c EXCEPT !.slots = IF end.moving.count = 0 THEN end.slots
                                ELSE [end.slots EXCEPT ![slot] = end.moving]]

SwapHotbar(c, slot, button) ==
    LET other == (IF c.menu = "player" THEN PlayerHotbar ELSE Size(c) - HotbarSize) + button
    IN [c EXCEPT !.slots = [@ EXCEPT ![slot] = c.slots[other], ![other] = c.slots[slot]]]

CloneStack(c, slot) ==
    [c EXCEPT !.carried = IF c.slots[slot] = Empty THEN Empty
                          ELSE [c.slots[slot] EXCEPT !.count = MaxStack[c.slots[slot].item]]]

Throw(c, slot, button) ==
    [c EXCEPT !.slots[slot] = IF button = 1 \/ @ = Empty THEN Empty ELSE Stack(@.item, @.count - 1)]

\* Mutant: a slot is emptied although the cursor takes only a part of it.
CollectedWhole(s, i, full, output) ==
    LET there == s.slots[i]
        n == Least(there.count, Room(s.carried))
    IN IF \/ i = output \/ there.item # s.carried.item
          \/ s.carried.count = MaxStack[s.carried.item]
          \/ (there.count = MaxStack[there.item]) # full
       THEN s
       ELSE [s EXCEPT !.slots[i] = Empty, !.carried.count = @ + n]
\* can_take_for_pick_all: what the cursor may still take of a slot in one of the two passes.
Collected(s, i, full, output) ==
    LET there == s.slots[i]
        n == Least(there.count, Room(s.carried))
    IN IF \/ i = output \/ there.item # s.carried.item
          \/ s.carried.count = MaxStack[s.carried.item]
          \/ (there.count = MaxStack[there.item]) # full
       THEN s
       ELSE [s EXCEPT !.slots[i] = Stack(@.item, @.count - n), !.carried.count = @ + n]
\* pickup_all: stacks that are not full first, then full ones, until the cursor is full.
Pass(c, full) ==
    FoldLeft(LAMBDA s, i : Collected(s, i, full, Output(c.menu)), c, Upward(0, Size(c)))
PickupAll(c) == IF c.carried = Empty THEN c ELSE Pass(Pass(c, FALSE), TRUE)

(***************************************************************************)
(* Dragging (quick craft): start, add slots, end, as three clicks.         *)
(***************************************************************************)
Eligible(c, slot, stack) ==
    /\ slot # Output(c.menu)
    /\ \/ c.slots[slot] = Empty
       \/ c.slots[slot].item = stack.item /\ ~Full(c.slots[slot])

\* finish_quick_craft: kind 0 spreads evenly, 1 puts one each, 2 fills without cost.
Share(c, drag) ==
    CASE drag.kind = 0 -> c.carried.count \div Cardinality(drag.slots)
      [] drag.kind = 1 -> 1
      [] drag.kind = 2 -> MaxStack[c.carried.item]
SpreadTo(s, i, item, share, free) ==
    LET there == s.slots[i]
        room == IF there = Empty THEN MaxStack[item]
                ELSE IF there.item = item THEN Room(there) ELSE 0
        n == IF free THEN Least(share, room) ELSE Least(Least(share, room), s.left)
    IN IF n = 0 THEN s
       ELSE [slots |-> [s.slots EXCEPT ![i] = Stack(item, there.count + n)],
             left |-> IF free THEN s.left ELSE s.left - n]
\* The slots of the gesture are served in ascending order.
Spread(c, drag) ==
    LET end == MapThenFoldSet(
                 LAMBDA i, s : SpreadTo(s, i, c.carried.item, Share(c, drag), drag.kind = 2),
                 [slots |-> c.slots, left |-> c.carried.count], LAMBDA i : i, Max, drag.slots)
    IN IF c.carried = Empty \/ drag.slots = {} THEN c
       ELSE [c EXCEPT !.slots = end.slots, !.carried = Stack(@.item, end.left)]

Refused(inv) == [ok |-> FALSE, inv |-> inv, slots |-> {}]
Accepted(inv, c) ==
    [ok |-> TRUE, inv |-> Synchronized(SetContainer(inv, c), c.id),
     slots |-> {i \in DOMAIN c.slots : c.slots[i] # Container(inv, c.id).slots[i]}]

Current(inv, click) ==
    /\ Known(inv, click.container)
    /\ Container(inv, click.container).state = click.state
Matches(drag, click) ==
    drag # None /\ drag.container = click.container /\ drag.state = click.state
                /\ drag.kind = click.drag

DragStart(inv, click) ==
    IF Current(inv, click) /\ Container(inv, click.container).carried # Empty
    THEN [ok |-> TRUE, slots |-> {},
          inv |-> [inv EXCEPT !.drag = [container |-> click.container, state |-> click.state,
                                        kind |-> click.drag, slots |-> {}]]]
    ELSE Refused(inv)
DragAdd(inv, click) ==
    LET c == Container(inv, click.container)
    IN IF /\ Known(inv, click.container) /\ click.slot \in DOMAIN c.slots
          /\ Matches(inv.drag, click) /\ c.carried # Empty
       THEN [ok |-> TRUE, slots |-> {},
             inv |-> IF Eligible(c, click.slot, c.carried)
                     THEN [inv EXCEPT !.drag.slots = @ \cup {click.slot}] ELSE inv]
       ELSE Refused(inv)
\* The gesture is taken before it is compared with the click.
DragEnd(inv, click) ==
    LET done == [inv EXCEPT !.drag = None]
    IN IF Matches(inv.drag, click) /\ Known(inv, click.container)
          /\ Container(inv, click.container).carried # Empty
       THEN Accepted(done, Spread(Container(inv, click.container), inv.drag))
       ELSE Refused(done)

\* InventoryState::apply_click: any other click ends the gesture, even one then refused.
ApplyClick(inv, click) ==
    LET free == [inv EXCEPT !.drag = None]
        c == Container(inv, click.container)
        valid == \/ click.kind = "pickup_all" \/ click.slot \in DOMAIN c.slots
                 \/ click.kind = "pickup" /\ click.slot = Outside
    IN CASE click.kind = "drag_start" -> DragStart(inv, click)
         [] click.kind = "drag_add" -> DragAdd(inv, click)
         [] click.kind = "drag_end" -> DragEnd(inv, click)
         [] OTHER ->
              IF ~(Current(inv, click) /\ valid) THEN Refused(free)
              ELSE Accepted(free,
                     CASE click.kind = "pickup" -> Pickup(c, click.slot, click.button)
                       [] click.kind = "quick_move" -> QuickMove(c, click.slot)
                       [] click.kind = "swap" -> SwapHotbar(c, click.slot, click.button)
                       [] click.kind = "clone" -> CloneStack(c, click.slot)
                       [] click.kind = "throw" -> Throw(c, click.slot, click.button)
                       [] click.kind = "pickup_all" -> PickupAll(c))
=============================================================================
