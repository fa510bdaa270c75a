--------------------------- MODULE InventorySession ---------------------------
(***************************************************************************)
(* The inventory of a session: the overlay predicts clicks on its copy     *)
(* (cubic-ui/src/lib.rs), the bounded mailbox carries them to the tick,    *)
(* the network task predicts them on its own and sends them                *)
(* (cubic-network/src/chat_session.rs), the server answers, and snapshots  *)
(* come back to the overlay.  The server is external: it runs the same     *)
(* menu rules, may refuse, and resends what was predicted wrongly.         *)
(***************************************************************************)
EXTENDS Inventory

CONSTANTS
    Opaque,         \* items whose components have no hash: no prediction is sent
    Habits,         \* what user and server do in one behaviour: sets of names
    Beginnings,     \* [Habits -> what slots and cursor may hold at first]
    MaxCommands,    \* MAX_INVENTORY_COMMANDS
    MaxInputs,      \* [Habits -> Nat], bound: user actions
    MaxEvents       \* [Habits -> Nat], bound: things the server does by itself

VARIABLES
    habit, ui, mailbox, render, net, up, down, server,
    excuses     \* history: why copies may differ for good (see Converged)

inventoryVars == <<habit, ui, mailbox, render, net, up, down, server, excuses>>

Menus == {"chest", "furnace", "crafting"}

\* A stack that is not overfull; a container, before its content (no slots) and after.
Fitting == {s \in Stacks : s # Empty => s.count <= MaxStack[s.item]}
Filled(menu) == [0 .. SizeOf(menu) - 1 -> Fitting]
Containers ==
    [id : Nat, menu : Menus \cup {"player"}, state : Nat, carried : Fitting,
     slots : {NoSlots} \cup Filled("player") \cup Filled("chest") \cup Filled("furnace")
             \cup Filled("crafting")]

ASSUME ExchangeAssumption ==
    /\ \A h \in Habits : \A start \in Beginnings[h] :
        start.carried \in Fitting /\ \A i \in DOMAIN start.slots : start.slots[i] \in Fitting
    /\ MaxCommands \in Nat
    /\ None \notin Containers

InventoryInit ==
    /\ \E start \in Beginnings[habit] :
        LET inv == [NewInventory EXCEPT
                      !.player.slots = [i \in DOMAIN @ |->
                        IF i \in DOMAIN start.slots THEN start.slots[i] ELSE Empty],
                      !.player.carried = start.carried]
        IN /\ server = [inv |-> inv, opened |-> 0, events |-> 0]
           /\ net = [inv |-> inv, ended |-> None, closed |-> {}]
           /\ ui = [inv |-> inv, visible |-> "keys" \notin habit, drag |-> None, inputs |-> 0]
    /\ mailbox = <<>> /\ render = None /\ up = <<>> /\ down = <<>> /\ excuses = {}

Running == net.ended = None
Has(packets, kind) == \E i \in DOMAIN packets : packets[i].kind = kind

(***************************************************************************)
(* The overlay.                                                            *)
(***************************************************************************)
\* Mutant: the capacity is not asked.
SendAlways(commands) == mailbox' = mailbox \o commands /\ UNCHANGED excuses
\* WorldPort::inventory_action: each command is put there by itself; what the mailbox then
\* refuses has been applied here all the same.  (Those of one frame are put there in one
\* step: a tick between two of them is not modelled.)
Send(commands) ==
    LET fitting == Least(Len(commands), MaxCommands - Len(mailbox))
    IN /\ mailbox' = mailbox \o SubSeq(commands, 1, fitting)
       /\ excuses' = IF fitting = Len(commands) THEN excuses ELSE excuses \cup {"lost"}

Input == Running /\ ui.inputs < MaxInputs[habit]
Acted(new) ==
    /\ ui' = [new EXCEPT !.inputs = ui.inputs + 1]
    /\ UNCHANGED <<habit, render, net, up, down, server>>

\* interact_slot and apply_local_clicks: a click carries the ids the overlay shows.
NewClick(kind, slot, button, drag) ==
    [container |-> Active(ui.inv).id, state |-> Active(ui.inv).state,
     kind |-> kind, slot |-> slot, button |-> button, drag |-> drag]
Clicked(click, drag) ==
    /\ Send(<<[kind |-> "click", click |-> click]>>)
    /\ Acted([ui EXCEPT !.inv = ApplyClick(@, click).inv, !.drag = drag])

Shown == Input /\ ui.visible
Slots == DOMAIN Active(ui.inv).slots
Buttons(kind) ==
    CASE kind \in {"pickup", "throw"} -> {0, 1} [] kind = "swap" -> 0 .. HotbarSize - 1
      [] OTHER -> {0}

Click ==
    /\ Shown
    /\ \E kind \in habit \cap {"pickup", "quick_move", "swap", "throw", "pickup_all", "clone"} :
         \E slot \in Slots, button \in Buttons(kind) :
            Clicked(NewClick(kind, slot, button, 0), ui.drag)

\* drag_started_by, with a stack on the cursor.
StartDrag ==
    /\ Shown /\ "drag" \in habit /\ ui.drag = None /\ Carried(ui.inv) # Empty
    /\ \E kind \in {0, 1, 2} :
        Clicked(NewClick("drag_start", Outside, 0, kind),
                [container |-> Active(ui.inv).id, state |-> Active(ui.inv).state,
                 kind |-> kind, visited |-> {}])

DragOver ==
    /\ Shown /\ ui.drag # None /\ Carried(ui.inv) # Empty
    /\ ui.drag.container = Active(ui.inv).id /\ ui.drag.state = Active(ui.inv).state
    /\ \E slot \in Slots \ ui.drag.visited :
        /\ Eligible(Active(ui.inv), slot, Carried(ui.inv))
        /\ Clicked(NewClick("drag_add", slot, 0, ui.drag.kind),
                   [ui.drag EXCEPT !.visited = @ \cup {slot}])

Release ==
    /\ Shown /\ ui.drag # None
    /\ Clicked(NewClick("drag_end", Outside, 0, ui.drag.kind), None)

\* Escape, or E: InventoryOverlay::close asks for an open container to be closed,
\* toggle_player_inventory shows the player's own.
PressInventoryKey ==
    /\ Input /\ "keys" \in habit
    /\ IF ui.visible
       THEN /\ Send(IF ui.inv.open = None THEN <<>>
                    ELSE <<[kind |-> "close", id |-> ui.inv.open.id]>>)
            /\ Acted([ui EXCEPT !.visible = FALSE, !.drag = None])
       ELSE /\ Send(<<>>)
            /\ Acted([ui EXCEPT !.visible = ui.inv.open = None, !.drag = None])

\* hotbar_key and the wheel: chosen here at once, and only while no screen is shown.
SelectHotbar ==
    /\ Input /\ "hotbar" \in habit /\ ~ui.visible
    /\ \E slot \in 0 .. HotbarSize - 1 :
        /\ Send(<<[kind |-> "select", slot |-> slot]>>)
        /\ Acted([ui EXCEPT !.inv.selected = slot])

(***************************************************************************)
(* show_creative: an input leaves a cursor and a list of slots assigned,   *)
(* each sent as a command of its own.                                      *)
(***************************************************************************)
Creative == Shown /\ "creative" \in habit /\ ui.inv.open = None
Assign(slot, stack) == [slot |-> slot, stack |-> stack]
Synchronize(carried, changes) ==
    LET cursor == IF carried = Carried(ui.inv) THEN <<>>
                  ELSE <<[kind |-> "cursor", stack |-> carried]>>
        sets == [i \in DOMAIN changes |->
                   [kind |-> "creative", slot |-> changes[i].slot, stack |-> changes[i].stack]]
        held == SetCarried(ui.inv, carried)
    IN /\ Send(cursor \o sets)
       /\ Acted([ui EXCEPT !.inv = FoldLeft(LAMBDA inv, c : SetCreativeSlot(inv, c.slot, c.stack),
                                            held, changes)])
Differing(old, new) ==
    FoldLeft(LAMBDA s, i : IF new[i] = old[i] THEN s ELSE Append(s, Assign(i, new[i])),
             <<>>, Upward(0, Offhand + 1))
\* The screen shows the player's slots but for the crafting grid and its result.
CreativeSlots == Helmet .. Offhand
CreativeHotbar == PlayerHotbar .. Offhand - 1

\* apply_creative_real_slot: the click is made on a copy.
CreativeSlotClick ==
    /\ Creative
    /\ \E kind \in {"pickup", "quick_move", "pickup_all", "clone"} :
         \E slot \in CreativeSlots, button \in Buttons(kind) :
            LET after == ApplyClick(ui.inv, NewClick(kind, slot, button, 0))
            IN /\ after.ok
               /\ Synchronize(Carried(after.inv),
                              Differing(ui.inv.player.slots, after.inv.player.slots))
\* apply_creative_quick_craft, at the release: of the slots visited those that are eligible
\* by then.
CreativeSpread ==
    /\ Creative /\ Carried(ui.inv) # Empty
    /\ \E kind \in {0, 1, 2} :
         \E slots \in SUBSET {s \in CreativeSlots : Eligible(ui.inv.player, s, Carried(ui.inv))} :
            LET after == Spread(ui.inv.player, [kind |-> kind, slots |-> slots])
            IN Synchronize(after.carried, Differing(ui.inv.player.slots, after.slots))
\* A hotbar key or Q over a slot, a shift-click on the hotbar below a category, the trash
\* and a shift-click on it.
CreativeKey ==
    /\ Creative
    /\ LET there == ui.inv.player.slots
           Emptied == [i \in 1 .. Offhand - Helmet + 1 |-> Assign(Helmet + i - 1, Empty)]
           Keep(changes) == Synchronize(Carried(ui.inv), changes)
       IN \/ \E slot \in CreativeSlots, other \in CreativeHotbar :
               Keep(<<Assign(slot, there[other]), Assign(other, there[slot])>>)
          \/ \E slot \in CreativeSlots :
               /\ there[slot] # Empty
               /\ \E n \in {1, there[slot].count} :
                    Keep(<<Assign(slot, Stack(there[slot].item, there[slot].count - n)),
                           Assign(-1, Stack(there[slot].item, n))>>)
          \/ \E slot \in CreativeHotbar : there[slot] # Empty /\ Keep(<<Assign(slot, Empty)>>)
          \/ Keep(Emptied)
          \/ Synchronize(Empty, <<>>)

\* apply_creative_picker_input.
Picked(input, held, item) ==
    CASE held = Empty -> Stack(item, IF input \in {"quick_move", "clone"} THEN MaxStack[item] ELSE 1)
      [] held # Empty /\ input = "clone" -> held
      [] held # Empty /\ input = "secondary" -> Stack(held.item, held.count - 1)
      [] held # Empty /\ input \in {"primary", "quick_move"} /\ held.item # item -> Empty
      [] held # Empty /\ input = "primary" /\ held.item = item ->
           IF Full(held) THEN held ELSE Stack(item, held.count + 1)
      [] held # Empty /\ input = "quick_move" /\ held.item = item -> Stack(item, MaxStack[item])
CreativePick ==
    /\ Creative
    /\ \E item \in Items, input \in {"primary", "secondary", "quick_move", "clone"} :
        Synchronize(Picked(input, Carried(ui.inv), item), <<>>)
\* A hotbar key or Q over an item of the picker.
CreativeCopy ==
    /\ Creative
    /\ \E item \in Items :
        LET full == Stack(item, MaxStack[item])
        IN \E change \in {Assign(-1, Stack(item, 1)), Assign(-1, full)}
                          \cup {Assign(slot, full) : slot \in CreativeHotbar} :
             Synchronize(Carried(ui.inv), <<change>>)
\* A click outside the screen drops the cursor through slot -1.
CreativeDrop ==
    /\ Creative /\ Carried(ui.inv) # Empty
    /\ Send(<<[kind |-> "creative", slot |-> -1, stack |-> Carried(ui.inv)],
              [kind |-> "cursor", stack |-> Empty]>>)
    /\ Acted([ui EXCEPT !.inv = SetCarried(@, Empty)])
CreativeInput ==
    CreativeSlotClick \/ CreativeSpread \/ CreativeKey \/ CreativePick \/ CreativeCopy \/ CreativeDrop

\* Mutant: while it is shown the overlay trusts its own prediction.
ReplacedUnlessShown(new) ==
    [ui EXCEPT !.inv = IF ui.visible /\ ui.inv.open = None THEN @ ELSE new,
               !.visible = @ \/ new.open # None]
\* integrate_world_updates and InventoryOverlay::replace.
Replaced(new) ==
    LET had == ui.inv.open # None
        has == new.open # None
        same == /\ ui.drag # None
                /\ Active(new).id = ui.drag.container /\ Active(new).state = ui.drag.state
                /\ has = had
                /\ has => new.open.id = ui.inv.open.id
    IN [ui EXCEPT !.inv = new,
                  !.visible = has \/ (ui.visible /\ ~had),
                  !.drag = IF same THEN @ ELSE None]
TakeUpdate ==
    /\ render # None
    /\ ui' = Replaced(render)
    /\ render' = None
    /\ UNCHANGED <<habit, mailbox, net, up, down, server, excuses>>

(***************************************************************************)
(* The network task.                                                       *)
(***************************************************************************)
\* hashed_stack: nothing is predicted about a stack that cannot be hashed.
Prediction(inv, click, changed) ==
    LET c == Container(inv, click.container)
        known == {c.slots[s].item : s \in changed} \cup {c.carried.item}
    IN IF known \cap Opaque # {}
       THEN [slots |-> [s \in {} |-> Empty], carried |-> Empty, withheld |-> TRUE]
       ELSE [slots |-> [s \in changed |-> c.slots[s]], carried |-> c.carried, withheld |-> FALSE]

\* service_inventory_command: a refused click is dropped, a refused close is an error.
Serve(state, command) ==
    LET inv == state.inv
        Sent(new, packet) == [state EXCEPT !.inv = new, !.out = Append(@, packet)]
    IN IF state.ended # None THEN state
       ELSE CASE command.kind = "select" -> Sent([inv EXCEPT !.selected = command.slot], command)
              [] command.kind = "close" ->
                   IF inv.open # None /\ inv.open.id = command.id
                   THEN [Sent(CloseContainer(inv), command) EXCEPT !.closed = @ \cup {command.id}]
                   ELSE [state EXCEPT !.ended = [kind |-> "command", id |-> command.id]]
              [] command.kind = "creative" ->
                   Sent(SetCreativeSlot(inv, command.slot, command.stack), command)
              [] command.kind = "cursor" -> [state EXCEPT !.inv = SetCarried(inv, command.stack)]
              [] command.kind = "click" ->
                   LET result == ApplyClick(inv, command.click)
                   IN IF result.ok
                      THEN Sent(result.inv, [kind |-> "click", click |-> command.click,
                                guess |-> Prediction(result.inv, command.click, result.slots)])
                      ELSE [state EXCEPT !.inv = result.inv]

\* service_movement_tick: everything in the mailbox, then one snapshot.
Tick ==
    /\ Running /\ mailbox # <<>>
    /\ LET end == FoldLeft(Serve, [inv |-> net.inv, out |-> <<>>, ended |-> None,
                                   closed |-> net.closed], mailbox)
       IN /\ net' = [net EXCEPT !.inv = end.inv, !.ended = end.ended, !.closed = end.closed]
          /\ up' = up \o end.out
          /\ render' = IF end.ended = None THEN end.inv ELSE render
          /\ excuses' = IF \E i \in DOMAIN end.out : end.out[i].kind = "click"
                                 /\ end.out[i].click.container # Active(net.inv).id
                        THEN excuses \cup {"crossed"} ELSE excuses
    /\ mailbox' = <<>>
    /\ UNCHANGED <<habit, ui, down, server>>

\* A tick that finds no simulation has drained the mailbox all the same.
TickWithoutSimulation ==
    /\ Running /\ mailbox # <<>>
    /\ mailbox' = <<>>
    /\ excuses' = excuses \cup {"lost"}
    /\ UNCHANGED <<habit, ui, render, net, up, down, server>>

\* apply_inventory_packet: an update of a container that is not open is an error, except
\* Close while none is.
Applied(inv, p) ==
    CASE p.kind = "open" -> OpenContainer(inv, NewContainer(p.id, p.menu, NoSlots))
      [] p.kind = "close" -> IF inv.open = None THEN inv ELSE CloseContainer(inv)
      [] p.kind = "content" -> ReplaceContent(inv, p.id, p.state, p.slots, p.carried)
      [] p.kind = "slot" -> SetSlot(inv, p.id, p.state, p.slot, p.stack)
      [] p.kind = "held" -> [inv EXCEPT !.selected = p.slot]
\* Mutant: closing what is closed already is an error.
AcceptableOpenOnly(inv, p) ==
    CASE p.kind = "close" -> inv.open # None
      [] p.kind \in {"content", "slot"} -> Known(inv, p.id)
      [] OTHER -> TRUE
Acceptable(inv, p) ==
    CASE p.kind = "open" -> p.id # PlayerId
      [] p.kind = "close" -> inv.open = None \/ inv.open.id = p.id
      [] p.kind = "content" -> Known(inv, p.id)
      [] p.kind = "slot" -> Known(inv, p.id) /\ p.slot \in DOMAIN Container(inv, p.id).slots
      [] p.kind = "held" -> TRUE
ReadPacket ==
    /\ Running /\ down # <<>>
    /\ IF Acceptable(net.inv, Head(down))
       THEN /\ net' = [net EXCEPT !.inv = Applied(@, Head(down))]
            /\ render' = net'.inv
       ELSE /\ net' = [net EXCEPT !.ended = [kind |-> Head(down).kind, id |-> Head(down).id]]
            /\ UNCHANGED render
    /\ down' = Tail(down)
    /\ excuses' = IF \/ Head(down).kind = "held" /\ Has(up, "select")
                     \/ Head(down).kind \in {"slot", "content"} /\ Has(up, "creative")
                     \/ Head(down).kind = "open" /\ Has(up, "click")
                  THEN excuses \cup {"crossed"} ELSE excuses
    /\ UNCHANGED <<habit, ui, mailbox, up, server>>

(***************************************************************************)
(* The server (external).                                                  *)
(***************************************************************************)
Content(c) ==
    [kind |-> "content", id |-> c.id, state |-> c.state, slots |-> c.slots, carried |-> c.carried]
SetServer(inv, packets) ==
    /\ server' = [server EXCEPT !.inv = inv]
    /\ down' = down \o packets

\* Items on the cursor of a menu that closes go to a free slot of the player, as told.
Closed(inv) ==
    LET free == {i \in PlayerMain .. Offhand : inv.player.slots[i] = Empty}
        slot == Min(free)
        held == inv.player.carried
        bare == [inv EXCEPT !.open = None, !.drag = None]
    IN IF held = Empty \/ free = {} THEN [inv |-> bare, out |-> <<>>]
       ELSE LET put == [bare EXCEPT !.player.slots[slot] = held, !.player.carried = Empty,
                                    !.player.state = @ + 1]
            IN [inv |-> put, out |-> <<[kind |-> "slot", id |-> PlayerId, slot |-> slot,
                                        state |-> put.player.state, stack |-> held]>>]
ExcuseCursor == IF server.inv.player.carried = Empty THEN excuses ELSE excuses \cup {"cursor"}

Receive ==
    /\ up # <<>>
    /\ up' = Tail(up)
    /\ UNCHANGED <<habit, ui, mailbox, render, net>>

\* One state more of the menu that is open, and of the gesture over it.
Counted(inv) ==
    [inv EXCEPT !.player.state = IF inv.open = None THEN @ + 1 ELSE @,
                !.open = IF inv.open = None THEN None ELSE [inv.open EXCEPT !.state = @ + 1],
                !.drag = IF inv.drag = None THEN None ELSE [inv.drag EXCEPT !.state = @ + 1]]

\* A click on the menu the server has open: applied or refused; what the client guessed
\* wrongly, or guessed from an old state, is sent again as a whole.
ReceiveClick ==
    /\ up # <<>> /\ Head(up).kind = "click"
    /\ LET p == Head(up)
           now == [p.click EXCEPT !.state = Active(server.inv).state]
           stale == p.click.state # now.state
       IN IF p.click.container # Active(server.inv).id
          THEN /\ excuses' = excuses \cup {"ignored"}
               /\ UNCHANGED <<server, down>>
          ELSE \E applies \in IF "refuses" \in habit THEN BOOLEAN ELSE {TRUE} :
               LET after == IF applies THEN ApplyClick(server.inv, now).inv ELSE server.inv
                   c == Active(after)
                   new == Counted(after)
                   guessed == [s \in DOMAIN c.slots |->
                                 IF s \in DOMAIN p.guess.slots THEN p.guess.slots[s]
                                 ELSE Active(server.inv).slots[s]]
               IN IF ~stale /\ guessed = c.slots /\ p.guess.carried = c.carried
                  THEN /\ SetServer(after, <<>>)
                       /\ excuses' = CASE Has(down, "open") -> excuses \cup {"crossed"}
                                       [] p.guess.withheld /\ ~applies -> excuses \cup {"withheld"}
                                       [] OTHER -> excuses
                  ELSE /\ SetServer(new, <<Content(Active(new))>>)
                       /\ UNCHANGED excuses
    /\ Receive

ReceiveOther ==
    /\ up # <<>> /\ Head(up).kind # "click"
    /\ LET p == Head(up)
       IN CASE p.kind = "select" ->
                 /\ SetServer([server.inv EXCEPT !.selected = p.slot], <<>>)
                 /\ excuses' = IF Has(down, "held") THEN excuses \cup {"crossed"} ELSE excuses
            [] p.kind = "creative" ->
                 LET set == SetCreativeSlot(server.inv, p.slot, p.stack)
                     shown == [set EXCEPT !.open.state = @ + 1, !.open.slots =
                                [i \in DOMAIN @ |-> IF i < TailStart(set.open) THEN @[i]
                                   ELSE set.player.slots[PlayerMain + i - TailStart(set.open)]]]
                 IN /\ IF set.open = None THEN SetServer(set, <<>>)
                       ELSE SetServer(shown, <<Content(shown.open)>>)
                    /\ excuses' = IF Has(down, "slot") \/ Has(down, "content")
                                  THEN excuses \cup {"crossed"} ELSE excuses
            [] p.kind = "close" ->
                 IF server.inv.open = None \/ server.inv.open.id # p.id
                 THEN UNCHANGED <<server, down, excuses>>
                 ELSE /\ SetServer(Closed(server.inv).inv, Closed(server.inv).out)
                      /\ excuses' = ExcuseCursor
    /\ Receive

Event == Running /\ server.events < MaxEvents[habit]
ByItself(inv, packets) ==
    /\ server' = [server EXCEPT !.inv = inv, !.events = @ + 1,
                                !.opened = IF inv.open = None THEN @ ELSE inv.open.id]
    /\ down' = down \o packets
    /\ UNCHANGED <<habit, ui, mailbox, render, net, up>>

\* A chest, furnace or table is opened; one already open is closed first.
ServerOpens ==
    /\ Event /\ "opens" \in habit
    /\ \E menu \in Menus \cap habit :
        LET closing == Closed(server.inv)
            inv == closing.inv
            id == server.opened + 1
            size == SizeOf(menu)
            slots == [i \in 0 .. size - 1 |->
                        IF i < size - TailSize THEN Empty
                        ELSE inv.player.slots[PlayerMain + i - (size - TailSize)]]
            c == [NewContainer(id, menu, slots) EXCEPT !.state = 1, !.carried = inv.player.carried]
        IN /\ ByItself([inv EXCEPT !.open = c],
                 (IF server.inv.open = None THEN <<>>
                  ELSE <<[kind |-> "close", id |-> server.inv.open.id]>>)
                 \o closing.out
                 \o <<[kind |-> "open", id |-> id, menu |-> menu], Content(c)>>)
           /\ excuses' = ExcuseCursor

ServerCloses ==
    /\ Event /\ "closes" \in habit /\ server.inv.open # None
    /\ ByItself(Closed(server.inv).inv,
                <<[kind |-> "close", id |-> server.inv.open.id]>> \o Closed(server.inv).out)
    /\ excuses' = ExcuseCursor

\* Something else changes a slot of the menu that is open.
ServerSets ==
    /\ Event /\ "sets" \in habit
    /\ LET c == Active(server.inv)
       IN \E slot \in DOMAIN c.slots, item \in Items :
            LET stack == IF c.slots[slot] = Empty THEN Stack(item, 1) ELSE Empty
            IN ByItself(SetSlot(server.inv, c.id, c.state + 1, slot, stack),
                        <<[kind |-> "slot", id |-> c.id, state |-> c.state + 1,
                           slot |-> slot, stack |-> stack]>>)
    /\ UNCHANGED excuses

ServerSelects ==
    /\ Event /\ "hotbar" \in habit
    /\ \E slot \in 0 .. HotbarSize - 1 :
        ByItself([server.inv EXCEPT !.selected = slot], <<[kind |-> "held", slot |-> slot]>>)
    /\ UNCHANGED excuses

\* StartConfiguration and a new login: the session keeps its inventory as it was, the
\* server starts with no menu open and sends the player's.
Rejoined(inv) ==
    [CloseContainer(inv) EXCEPT !.player.state = @ + 1, !.player.carried = Empty]
ExcuseRejoined ==
    IF server.inv.open = None THEN excuses ELSE excuses \cup {"reconfigured"}

Overlay == Click \/ StartDrag \/ DragOver \/ Release \/ PressInventoryKey \/ SelectHotbar
           \/ CreativeInput
Server == ServerOpens \/ ServerCloses \/ ServerSets \/ ServerSelects

(***************************************************************************)
(* Properties.                                                             *)
(***************************************************************************)
Copies == {ui.inv, net.inv, server.inv}
ContainersOf(inv) == {inv.player} \cup (IF inv.open = None THEN {} ELSE {inv.open})
InventoryKinds == {"open", "close", "content", "slot", "held"}
CommandKinds == {"click", "close", "select", "creative", "cursor"}

\* Merging, splitting, spreading and collecting never make a stack exceed its maximum
\* (move_stack_to, pickup, finish_quick_craft, pickup_all).
NoOverfull ==
    \A inv \in Copies : \A c \in ContainersOf(inv) :
        \A stack \in {c.carried} \cup {c.slots[s] : s \in DOMAIN c.slots} :
            stack # Empty => stack.count <= MaxStack[stack.item]

\* A drag in progress belongs to a container that is there, in the state it was started in:
\* finish_quick_craft takes the cursor before it looks up the slots of the gesture.
DragOwned ==
    \A inv \in {ui.inv, net.inv} : inv.drag # None =>
        /\ Known(inv, inv.drag.container)
        /\ inv.drag.state = Container(inv, inv.drag.container).state
        /\ inv.drag.slots \subseteq DOMAIN Container(inv, inv.drag.container).slots

\* The cursor and every slot hold a stack, none overfull; the mailbox keeps
\* MAX_INVENTORY_COMMANDS.
InventoryTypeOK ==
    /\ NoOverfull /\ DragOwned
    /\ \A inv \in Copies : \A c \in ContainersOf(inv) :
        c.carried \in Stacks /\ \A s \in DOMAIN c.slots : c.slots[s] \in Stacks
    /\ \A inv \in Copies : inv.selected \in 0 .. HotbarSize - 1
    /\ Len(mailbox) <= MaxCommands
    /\ \A i \in DOMAIN mailbox : mailbox[i].kind \in CommandKinds
    /\ excuses \subseteq {"lost", "crossed", "ignored", "withheld", "cursor", "reconfigured"}

\* A click predicted by the overlay moves items and neither loses nor makes any, unless it
\* is meant to: throwing, cloning, the Creative screen and the drag of kind 2.
Total(c, item) ==
    LET Held(stack) == IF stack.item = item THEN stack.count ELSE 0
    IN Held(c.carried) + MapThenSumSet(LAMBDA s : Held(c.slots[s]), DOMAIN c.slots)
Conserved ==
    [][/\ ui'.inputs # ui.inputs
       /\ habit \cap {"throw", "clone", "creative"} = {}
       /\ ui.drag = None \/ ui.drag.kind # 2
       => \A item \in Items : Total(Active(ui.inv), item) = Total(Active(ui.inv)', item)]_inventoryVars

\* Once nothing is under way, the overlay, the session and the server hold the same items,
\* hand and menu, and an open menu is on the screen; except after a command was dropped, a
\* choice of hotbar slot or a Creative assignment crossed the server's, a click crossed the
\* opening of a menu, a refused click had its prediction withheld, a menu closed with a stack
\* on the cursor, or a reconfiguration found one open.
Quiet == Running /\ mailbox = <<>> /\ render = None /\ up = <<>> /\ down = <<>>
SameMenu(a, b) == a.id = b.id /\ a.menu = b.menu /\ a.state = b.state /\ a.slots = b.slots
SameInventory(a, b) ==
    /\ a.selected = b.selected
    /\ SameMenu(a.player, b.player)
    /\ (a.open = None) = (b.open = None)
    /\ a.open # None => SameMenu(a.open, b.open)
Converged ==
    Quiet /\ excuses = {} =>
        /\ SameInventory(ui.inv, net.inv) /\ SameInventory(net.inv, server.inv)
        /\ Carried(ui.inv) = Carried(net.inv)
        /\ "creative" \notin habit => Carried(net.inv) = Carried(server.inv)
        /\ net.inv.open # None => ui.visible

\* Of the inventory, only one race ends the session: the user closes a container and updates
\* of it are still on their way, or it is closed a second time or from both sides.
OnlyCrossingsEnd ==
    net.ended # None /\ net.ended.kind \in InventoryKinds \cup {"command"} =>
        CASE net.ended.kind \in {"content", "slot"} -> net.ended.id \in net.closed
          [] net.ended.kind = "command" ->
                \/ net.ended.id \in net.closed
                \/ server.inv.open = None \/ server.inv.open.id # net.ended.id
          [] OTHER -> FALSE
=============================================================================
