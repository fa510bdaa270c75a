--------------------------- MODULE InventoryProofs ---------------------------
(***************************************************************************)
(* The session's inventories and its world keep their bounds: no click, no *)
(* packet and no command, in any order, makes a stack overfull, leaves a   *)
(* gesture without its container or a container without its slots, for     *)
(* every set of items, every size of the menus and every capacity.         *)
(***************************************************************************)
EXTENDS ViewProofs

(***************************************************************************)
(* What fits in the session: commands, updates, the copies.  A container's *)
(* id stands for one menu, for as long as the session lasts.               *)
(***************************************************************************)
CommandFit(p) ==
    /\ p.kind = "click" => ClickFit(p.click)
    /\ p.kind = "select" => p.slot \in Selections
    /\ p.kind = "creative" => p.slot \in {-1} \cup PlayerSlots /\ p.stack \in Fitting
    /\ p.kind = "cursor" => p.stack \in Fitting
SlotsIn(of, id) == IF id = PlayerId THEN PlayerSlots ELSE 0 .. SizeOf(of[id]) - 1
UpdateFit(of, p) ==
    /\ p.kind \in {"open", "close"} => p.id \in DOMAIN of
    /\ p.kind = "open" => p.menu = of[p.id]
    /\ p.kind \in {"content", "slot"} => p.id \in {PlayerId} \cup DOMAIN of /\ p.state \in Nat
    /\ p.kind = "content" => p.slots \in [SlotsIn(of, p.id) -> Fitting] /\ p.carried \in Fitting
    /\ p.kind = "slot" => p.slot \in SlotsIn(of, p.id) /\ p.stack \in Fitting
    /\ p.kind = "held" => p.slot \in Selections
Labelled(of, inv) ==
    inv.open # None => inv.open.id \in DOMAIN of /\ inv.open.menu = of[inv.open.id]
Labels(n) == [1 .. n -> Menus]
CopyFit(of, inv) == InventoryFit(inv) /\ Owned(inv) /\ Labelled(of, inv)

\* The same menu is open, or none, and a content that came is not lost.
SameOpen(new, inv) ==
    /\ (new.open = None) = (inv.open = None)
    /\ inv.open # None => /\ new.open.id = inv.open.id
                          /\ inv.open.slots # NoSlots => new.open.slots # NoSlots

LEMMA KinLabelled ==
  ASSUME NEW of, NEW inv, InventoryFit(inv), NEW new, Kin(new, inv)
  PROVE  /\ SameOpen(new, inv)
         /\ Labelled(of, inv) => Labelled(of, new)
<1>1. Labelled(of, inv) => Labelled(of, new)
  BY DEF Kin, Labelled
<1>2. ASSUME inv.open # None, inv.open.slots # NoSlots PROVE new.open.slots # NoSlots
  <2>1. ContainerFit(inv.open) /\ inv.open.menu \in Menus
    BY <1>2 DEF InventoryFit, OpenFit
  <2>2. DOMAIN inv.open.slots = 0 .. SizeOf(inv.open.menu) - 1 /\ SizeOf(inv.open.menu) \in Nat \ {0}
    <3>1. inv.open.slots \in Filled(inv.open.menu)
      BY <1>2, <2>1 DEF ContainerFit
    <3>2. SizeOf(inv.open.menu) \in Nat \ {0}
      BY <2>1, Sizes DEF Menus
    <3> QED BY <3>1, <3>2 DEF Filled
  <2>3. 0 \in DOMAIN new.open.slots
    BY <1>2, <2>2 DEF Kin
  <2> QED BY <2>3 DEF NoSlots
<1> QED BY <1>1, <1>2 DEF Kin, SameOpen

LEMMA LabelsExtended ==
  ASSUME NEW n \in Nat, NEW m \in Nat, n <= m, NEW of \in Labels(n), NEW new \in Labels(m),
         \A i \in 1 .. n : new[i] = of[i]
  PROVE  /\ \A p : UpdateFit(of, p) => UpdateFit(new, p)
         /\ \A inv : Labelled(of, inv) => Labelled(new, inv)
<1>1. DOMAIN of = 1 .. n /\ DOMAIN new = 1 .. m /\ DOMAIN of \subseteq DOMAIN new
      /\ \A i \in DOMAIN of : new[i] = of[i]
  BY DEF Labels
<1>2. \A id \in {PlayerId} \cup DOMAIN of : SlotsIn(new, id) = SlotsIn(of, id)
  BY <1>1 DEF SlotsIn
<1>3. ASSUME NEW p, UpdateFit(of, p) PROVE UpdateFit(new, p)
  <2>1. p.kind \in {"open", "close"} => p.id \in DOMAIN new
    BY <1>1, <1>3 DEF UpdateFit
  <2>2. p.kind = "open" => p.menu = new[p.id]
    BY <1>1, <1>3 DEF UpdateFit
  <2>3. p.kind \in {"content", "slot"} => p.id \in {PlayerId} \cup DOMAIN new /\ p.state \in Nat
    BY <1>1, <1>3 DEF UpdateFit
  <2>4. p.kind \in {"content", "slot"} => SlotsIn(new, p.id) = SlotsIn(of, p.id)
    BY <1>2, <1>3 DEF UpdateFit
  <2>5. p.kind = "content" => p.slots \in [SlotsIn(new, p.id) -> Fitting] /\ p.carried \in Fitting
    BY <1>3, <2>4 DEF UpdateFit
  <2>6. p.kind = "slot" => p.slot \in SlotsIn(new, p.id) /\ p.stack \in Fitting
    BY <1>3, <2>4 DEF UpdateFit
  <2>7. p.kind = "held" => p.slot \in Selections
    BY <1>3 DEF UpdateFit
  <2> QED BY <2>1, <2>2, <2>3, <2>5, <2>6, <2>7 DEF UpdateFit
<1>4. ASSUME NEW inv, Labelled(of, inv) PROVE Labelled(new, inv)
  BY <1>1, <1>4 DEF Labelled
<1> QED BY <1>3, <1>4

-----------------------------------------------------------------------------
\* service_inventory_command, and the tick that serves the mailbox.

Sends(s, new, closed, packet) ==
    [inv |-> new, out |-> Append(s.out, packet), ended |-> s.ended, closed |-> closed]
Keeps(s, new, ended) == [inv |-> new, out |-> s.out, ended |-> ended, closed |-> s.closed]
ClickPacket(s, command) ==
    LET result == ApplyClick(s.inv, command.click)
    IN [kind |-> "click", click |-> command.click,
        guess |-> Prediction(result.inv, command.click, result.slots)]
LEMMA ServeParts ==
  ASSUME NEW s, Good(s), s.ended = None, NEW command
  PROVE  /\ command.kind = "select" =>
              Serve(s, command) = Sends(s, [s.inv EXCEPT !.selected = command.slot], s.closed, command)
         /\ command.kind = "close" /\ s.inv.open # None /\ s.inv.open.id = command.id =>
              Serve(s, command) = Sends(s, CloseContainer(s.inv), s.closed \cup {command.id}, command)
         /\ command.kind = "close" /\ ~(s.inv.open # None /\ s.inv.open.id = command.id) =>
              Serve(s, command) = Keeps(s, s.inv, [kind |-> "command", id |-> command.id])
         /\ command.kind = "creative" =>
              Serve(s, command)
                = Sends(s, SetCreativeSlot(s.inv, command.slot, command.stack), s.closed, command)
         /\ command.kind = "cursor" =>
              Serve(s, command) = Keeps(s, SetCarried(s.inv, command.stack), None)
         /\ command.kind = "click" =>
              \/ Serve(s, command) = Sends(s, ApplyClick(s.inv, command.click).inv, s.closed,
                                           ClickPacket(s, command))
              \/ Serve(s, command) = Keeps(s, ApplyClick(s.inv, command.click).inv, None)
<1>1. s = [inv |-> s.inv, out |-> s.out, ended |-> s.ended, closed |-> s.closed]
  BY DEF Good
<1>2. \A new : [s EXCEPT !.inv = new] = Keeps(s, new, s.ended)
  <2> TAKE new
  <2>1. [s EXCEPT !.inv = new]
          = [[inv |-> s.inv, out |-> s.out, ended |-> s.ended, closed |-> s.closed] EXCEPT !.inv = new]
    BY <1>1
  <2> QED BY <2>1 DEF Keeps
<1>3. \A new, packet : [s EXCEPT !.inv = new, !.out = Append(@, packet)] = Sends(s, new, s.closed, packet)
  <2> TAKE new, packet
  <2>1. [s EXCEPT !.inv = new, !.out = Append(@, packet)]
          = [[s EXCEPT !.inv = new] EXCEPT !.out = Append(s.out, packet)]
    OBVIOUS
  <2>2. [Keeps(s, new, s.ended) EXCEPT !.out = Append(s.out, packet)] = Sends(s, new, s.closed, packet)
    BY SMTT(30) DEF Keeps, Sends
  <2> QED BY <2>1, <2>2, <1>2
<1>4. \A e : [s EXCEPT !.ended = e] = Keeps(s, s.inv, e)
  <2> TAKE e
  <2>1. [s EXCEPT !.ended = e]
          = [[inv |-> s.inv, out |-> s.out, ended |-> s.ended, closed |-> s.closed] EXCEPT !.ended = e]
    BY <1>1
  <2> QED BY <2>1 DEF Keeps
<1>5. ASSUME command.kind = "select"
      PROVE  Serve(s, command) = Sends(s, [s.inv EXCEPT !.selected = command.slot], s.closed, command)
  BY <1>3, <1>5 DEF Serve
<1>6. ASSUME command.kind = "close", s.inv.open # None /\ s.inv.open.id = command.id
      PROVE  Serve(s, command) = Sends(s, CloseContainer(s.inv), s.closed \cup {command.id}, command)
  <2>1. Serve(s, command) = [[s EXCEPT !.inv = CloseContainer(s.inv), !.out = Append(@, command)]
                             EXCEPT !.closed = @ \cup {command.id}]
    BY <1>6 DEF Serve
  <2>2. Serve(s, command) = [Sends(s, CloseContainer(s.inv), s.closed, command)
                             EXCEPT !.closed = @ \cup {command.id}]
    BY <2>1, <1>3
  <2> QED BY <2>2 DEF Sends
<1>7. ASSUME command.kind = "close", ~(s.inv.open # None /\ s.inv.open.id = command.id)
      PROVE  Serve(s, command) = Keeps(s, s.inv, [kind |-> "command", id |-> command.id])
  <2>1. Serve(s, command) = [s EXCEPT !.ended = [kind |-> "command", id |-> command.id]]
    BY <1>7 DEF Serve
  <2> QED BY <2>1, <1>4
<1>8. ASSUME command.kind = "creative"
      PROVE  Serve(s, command)
               = Sends(s, SetCreativeSlot(s.inv, command.slot, command.stack), s.closed, command)
  BY <1>3, <1>8 DEF Serve
<1>9. ASSUME command.kind = "cursor"
      PROVE  Serve(s, command) = Keeps(s, SetCarried(s.inv, command.stack), None)
  BY <1>2, <1>9 DEF Serve
<1>10. ASSUME command.kind = "click"
       PROVE  \/ Serve(s, command) = Sends(s, ApplyClick(s.inv, command.click).inv, s.closed,
                                           ClickPacket(s, command))
              \/ Serve(s, command) = Keeps(s, ApplyClick(s.inv, command.click).inv, None)
  <2> DEFINE result == ApplyClick(s.inv, command.click)
             packet == ClickPacket(s, command)
  <2>1. Serve(s, command) = IF result.ok THEN [s EXCEPT !.inv = result.inv, !.out = Append(@, packet)]
                            ELSE [s EXCEPT !.inv = result.inv]
    BY <1>10 DEF Serve, ClickPacket
  <2> HIDE DEF result, packet
  <2>2. Serve(s, command) = Sends(s, result.inv, s.closed, packet)
        \/ Serve(s, command) = Keeps(s, result.inv, None)
    BY <2>1, <1>2, <1>3
  <2> QED BY <2>2 DEF result, packet
<1> QED BY <1>5, <1>6, <1>7, <1>8, <1>9, <1>10

\* What serving leaves of an inventory and what it says: the menu is open still, or this
\* closed it; a refused close ends it.
SentFit(out) == \A i \in DOMAIN out : CommandFit(out[i])
Served(of, inv, closed, closes, s) ==
    /\ Good(s) /\ CopyFit(of, s.inv) /\ SentFit(s.out)
    /\ \/ s.closed = closed /\ SameOpen(s.inv, inv)
       \/ inv.open # None /\ s.inv.open = None /\ s.closed = closed \cup {inv.open.id}
    /\ s.ended # None => s.ended.id \in closes /\ ~(s.inv.open # None /\ s.inv.open.id = s.ended.id)

LEMMA SameOpenChains ==
  ASSUME NEW a, NEW b, NEW c, SameOpen(a, b), SameOpen(b, c)
  PROVE  SameOpen(a, c)
BY DEF SameOpen

LEMMA SendsServed ==
  ASSUME NEW of, NEW inv, NEW closed, NEW closes, NEW s, Served(of, inv, closed, closes, s),
         s.ended = None, NEW new, CopyFit(of, new), NEW packet, CommandFit(packet),
         packet.kind \in SentKinds, NEW after,
         \/ after = s.closed /\ SameOpen(new, s.inv)
         \/ s.inv.open # None /\ new.open = None /\ after = s.closed \cup {s.inv.open.id}
  PROVE  Served(of, inv, closed, closes, Sends(s, new, after, packet))
<1> DEFINE r == Sends(s, new, after, packet)
<1>1. r.inv = new /\ r.out = Append(s.out, packet) /\ r.ended = None /\ r.closed = after
      /\ r = [inv |-> r.inv, out |-> r.out, ended |-> r.ended, closed |-> r.closed]
  BY DEF Sends
<1> HIDE DEF r
<1>2. IsSeq(s.out) /\ (\A i \in DOMAIN s.out : s.out[i].kind \in SentKinds) /\ SentFit(s.out)
  BY DEF Served, Good
<1>3. IsSeq(r.out) /\ (\A i \in DOMAIN r.out : r.out[i].kind \in SentKinds) /\ SentFit(r.out)
  <2>1. /\ IsSeq(r.out) /\ DOMAIN r.out = 1 .. Len(s.out) + 1 /\ DOMAIN s.out = 1 .. Len(s.out)
        /\ Len(s.out) \in Nat /\ (\A i \in 1 .. Len(s.out) : r.out[i] = s.out[i])
        /\ r.out[Len(s.out) + 1] = packet
    BY <1>1, <1>2, Appended
  <2>2. \A i \in DOMAIN r.out : i \in DOMAIN s.out \/ i = Len(s.out) + 1
    BY <2>1
  <2> QED BY <1>2, <2>1, <2>2 DEF SentFit
<1>4. Good(r)
  BY <1>1, <1>3 DEF Good
<1>5. \/ r.closed = closed /\ SameOpen(r.inv, inv)
      \/ inv.open # None /\ r.inv.open = None /\ r.closed = closed \cup {inv.open.id}
  <2>1. CASE s.closed = closed /\ SameOpen(s.inv, inv)
    <3>1. CASE after = s.closed /\ SameOpen(new, s.inv)
      BY <1>1, <2>1, <3>1, SameOpenChains
    <3>2. CASE s.inv.open # None /\ new.open = None /\ after = s.closed \cup {s.inv.open.id}
      BY <1>1, <2>1, <3>2 DEF SameOpen
    <3> QED BY <3>1, <3>2
  <2>2. CASE inv.open # None /\ s.inv.open = None /\ s.closed = closed \cup {inv.open.id}
    BY <1>1, <2>2 DEF SameOpen
  <2> QED BY <2>1, <2>2 DEF Served
<1>6. CopyFit(of, r.inv)
  BY <1>1
<1> QED BY <1>1, <1>3, <1>4, <1>5, <1>6 DEF Served, r

LEMMA KeepsServed ==
  ASSUME NEW of, NEW inv, NEW closed, NEW closes, NEW s, Served(of, inv, closed, closes, s),
         NEW new, CopyFit(of, new), SameOpen(new, s.inv), NEW ended,
         ended # None => /\ ended.kind = "command" /\ ended.id \in closes
                         /\ ~(new.open # None /\ new.open.id = ended.id)
  PROVE  Served(of, inv, closed, closes, Keeps(s, new, ended))
<1> DEFINE r == Keeps(s, new, ended)
<1>1. r.inv = new /\ r.out = s.out /\ r.ended = ended /\ r.closed = s.closed
      /\ r = [inv |-> r.inv, out |-> r.out, ended |-> r.ended, closed |-> r.closed]
  BY DEF Keeps
<1> HIDE DEF r
<1>2. IsSeq(s.out) /\ (\A i \in DOMAIN s.out : s.out[i].kind \in SentKinds) /\ SentFit(s.out)
  BY DEF Served, Good
<1>3. Good(r)
  BY <1>1, <1>2 DEF Good
<1>4. \/ r.closed = closed /\ SameOpen(r.inv, inv)
      \/ inv.open # None /\ r.inv.open = None /\ r.closed = closed \cup {inv.open.id}
  <2>1. CASE s.closed = closed /\ SameOpen(s.inv, inv)
    BY <1>1, <2>1, SameOpenChains
  <2>2. CASE inv.open # None /\ s.inv.open = None /\ s.closed = closed \cup {inv.open.id}
    BY <1>1, <2>2 DEF SameOpen
  <2> QED BY <2>1, <2>2 DEF Served
<1> QED BY <1>1, <1>2, <1>3, <1>4 DEF Served, r

LEMMA ServeServed ==
  ASSUME NEW of, NEW inv, NEW closed, NEW closes, NEW s, Served(of, inv, closed, closes, s),
         NEW command, command.kind \in CommandKinds, CommandFit(command),
         command.kind = "close" => command.id \in closes
  PROVE  Served(of, inv, closed, closes, Serve(s, command))
<1>1. CASE s.ended # None
  <2>1. Serve(s, command) = s
    BY <1>1 DEF Serve
  <2> QED BY <2>1
<1>2. CASE s.ended = None
  <2>1. Good(s) /\ InventoryFit(s.inv) /\ Owned(s.inv) /\ Labelled(of, s.inv)
    BY DEF Served, CopyFit
  <2>2. SameOpen(s.inv, s.inv)
    BY DEF SameOpen
  <2>3. CASE command.kind = "select"
    <3> DEFINE new == [s.inv EXCEPT !.selected = command.slot]
    <3>1. Kin(new, s.inv) /\ Owned(new)
      BY <2>1, <2>3, SelectedFits DEF CommandFit
    <3>2. Serve(s, command) = Sends(s, new, s.closed, command)
      BY <1>2, <2>1, <2>3, ServeParts
    <3> HIDE DEF new
    <3>3. CopyFit(of, new) /\ SameOpen(new, s.inv)
      BY <2>1, <3>1, KinLabelled DEF CopyFit, Kin
    <3>4. command.kind \in SentKinds
      BY <2>3 DEF SentKinds, CommandKinds
    <3> QED BY <1>2, <3>2, <3>3, <3>4, SendsServed
  <2>4. CASE command.kind = "close" /\ s.inv.open # None /\ s.inv.open.id = command.id
    <3> DEFINE new == CloseContainer(s.inv)
    <3>1. InventoryFit(new) /\ new.open = None /\ new.drag = None
      BY <2>1, ClosedContainerFits
    <3>2. Serve(s, command) = Sends(s, new, s.closed \cup {s.inv.open.id}, command)
      BY <1>2, <2>1, <2>4, ServeParts
    <3> HIDE DEF new
    <3>3. CopyFit(of, new)
      BY <3>1 DEF CopyFit, Owned, Labelled
    <3>4. command.kind \in SentKinds
      BY <2>4 DEF SentKinds, CommandKinds
    <3> QED BY <1>2, <2>4, <3>1, <3>2, <3>3, <3>4, SendsServed
  <2>5. CASE command.kind = "close" /\ ~(s.inv.open # None /\ s.inv.open.id = command.id)
    <3> DEFINE ended == [kind |-> "command", id |-> command.id]
    <3>1. Serve(s, command) = Keeps(s, s.inv, ended)
      BY <1>2, <2>1, <2>5, ServeParts
    <3>2. ended.kind = "command" /\ ended.id = command.id
      OBVIOUS
    <3> HIDE DEF ended
    <3>3. CopyFit(of, s.inv)
      BY DEF Served
    <3> QED BY <2>2, <2>5, <3>1, <3>2, <3>3, KeepsServed
  <2>6. CASE command.kind = "creative"
    <3> DEFINE new == SetCreativeSlot(s.inv, command.slot, command.stack)
    <3>1. Undisturbed(new, s.inv)
      BY <2>1, <2>6, SetCreativeSlotFits DEF CommandFit
    <3>2. Serve(s, command) = Sends(s, new, s.closed, command)
      BY <1>2, <2>1, <2>6, ServeParts
    <3> HIDE DEF new
    <3>3. Kin(new, s.inv) /\ Owned(new)
      BY <2>1, <3>1, UndisturbedOwned, Kinship
    <3>4. CopyFit(of, new) /\ SameOpen(new, s.inv)
      BY <2>1, <3>3, KinLabelled DEF CopyFit, Kin
    <3>5. command.kind \in SentKinds
      BY <2>6 DEF SentKinds, CommandKinds
    <3> QED BY <1>2, <3>2, <3>4, <3>5, SendsServed
  <2>7. CASE command.kind = "cursor"
    <3> DEFINE new == SetCarried(s.inv, command.stack)
    <3>1. Undisturbed(new, s.inv)
      BY <2>1, <2>7, SetCarriedFits DEF CommandFit
    <3>2. Serve(s, command) = Keeps(s, new, None)
      BY <1>2, <2>1, <2>7, ServeParts
    <3> HIDE DEF new
    <3>3. Kin(new, s.inv) /\ Owned(new)
      BY <2>1, <3>1, UndisturbedOwned, Kinship
    <3>4. CopyFit(of, new) /\ SameOpen(new, s.inv)
      BY <2>1, <3>3, KinLabelled DEF CopyFit, Kin
    <3> QED BY <3>2, <3>4, KeepsServed
  <2>8. CASE command.kind = "click"
    <3> DEFINE new == ApplyClick(s.inv, command.click).inv
               packet == ClickPacket(s, command)
    <3>1. ClickFit(command.click)
      BY <2>8 DEF CommandFit
    <3>2. Kin(new, s.inv) /\ Owned(new)
      BY <2>1, <3>1, ApplyClickFits
    <3>3. \/ Serve(s, command) = Sends(s, new, s.closed, packet)
          \/ Serve(s, command) = Keeps(s, new, None)
      BY <1>2, <2>1, <2>8, ServeParts
    <3>4. packet.kind = "click" /\ packet.click = command.click
      BY DEF ClickPacket
    <3> HIDE DEF new, packet
    <3>5. CopyFit(of, new) /\ SameOpen(new, s.inv)
      BY <2>1, <3>2, KinLabelled DEF CopyFit, Kin
    <3>6. packet.kind \in SentKinds /\ CommandFit(packet)
      BY <3>1, <3>4 DEF SentKinds, CommandKinds, CommandFit
    <3> QED BY <1>2, <3>3, <3>5, <3>6, SendsServed, KeepsServed
  <2> QED BY <2>3, <2>4, <2>5, <2>6, <2>7, <2>8 DEF CommandKinds
<1> QED BY <1>1, <1>2

LEMMA AllServed ==
  ASSUME NEW of, NEW inv, NEW closed, NEW closes, NEW state, Served(of, inv, closed, closes, state),
         NEW commands, IsSeq(commands),
         \A i \in DOMAIN commands :
            /\ commands[i].kind \in CommandKinds /\ CommandFit(commands[i])
            /\ commands[i].kind = "close" => commands[i].id \in closes
  PROVE  Served(of, inv, closed, closes, FoldLeft(Serve, state, commands))
<1> DEFINE S == DOMAIN commands
<1>1. S = 1 .. Len(commands) /\ Len(commands) \in Nat
  BY DEF IsSeq
<1>2. S \subseteq Int /\ IsFiniteSet(S)
  BY <1>1, FS_Interval
<1> DEFINE h == CHOOSE g : Services(g, SUBSET S, state, commands)
<1>3. Services(h, SUBSET S, state, commands)
  BY <1>2, ServicesExist
<1>4. FoldLeft(Serve, state, commands) = h[S]
  BY Zenon DEF FoldLeft, MapThenFoldSet, Services
<1> HIDE DEF h
<1>5. \A s \in SUBSET S : h[s] = IF s = {} THEN state ELSE Serve(h[s \ {Max(s)}], commands[Max(s)])
  <2> HIDE DEF S
  <2> QED BY <1>3 DEF Services
<1> DEFINE Met == {s \in SUBSET S : Served(of, inv, closed, closes, h[s])}
<1>6. {} \in Met
  BY <1>5
<1>7. ASSUME NEW s \in SUBSET S, s # {}, s \ {Max(s)} \in Met PROVE s \in Met
  <2>1. Max(s) \in S
    <3>1. IsFiniteSet(s) /\ s \subseteq Int
      BY <1>2, FS_Subset
    <3> QED BY <1>7, <3>1, GreatestOfFinite
  <2>2. Served(of, inv, closed, closes, h[s \ {Max(s)}])
    BY <1>7
  <2>3. Served(of, inv, closed, closes, Serve(h[s \ {Max(s)}], commands[Max(s)]))
    BY <2>1, <2>2, ServeServed
  <2>4. h[s] = Serve(h[s \ {Max(s)}], commands[Max(s)])
    BY <1>5, <1>7
  <2> QED BY <2>3, <2>4
<1> HIDE DEF Met
<1>8. S \in Met
  <2> HIDE DEF S
  <2> QED BY <1>2, <1>6, <1>7, Climbs
<1>9. Served(of, inv, closed, closes, h[S])
  BY <1>8 DEF Met
<1> QED BY <1>4, <1>9

-----------------------------------------------------------------------------
\* The invariant: every copy, every packet and every command fits.

Drags == [container : Nat, state : Nat, kind : {0, 1, 2}, visited : SUBSET Int]
OverlayFit(of, u) ==
    /\ u = [inv |-> u.inv, visible |-> u.visible, drag |-> u.drag, inputs |-> u.inputs]
    /\ CopyFit(of, u.inv) /\ (u.drag # None => u.drag \in Drags)
SessionFit(of, n) ==
    n = [inv |-> n.inv, ended |-> n.ended, closed |-> n.closed] /\ CopyFit(of, n.inv)
MenuServed(inv, opened) ==
    inv.open # None => inv.open.id = opened /\ inv.open.slots # NoSlots
ServerFit(of, s) ==
    /\ s = [inv |-> s.inv, opened |-> s.opened, events |-> s.events]
    /\ InventoryFit(s.inv) /\ Labelled(of, s.inv) /\ MenuServed(s.inv, s.opened)
RenderFit(of, r) == r # None => CopyFit(of, r)
MailboxFit(m) == Len(m) <= MaxCommands /\ \A i \in DOMAIN m : CommandFit(m[i])
UpFit(packets) == \A i \in DOMAIN packets : packets[i].kind \in SentKinds => CommandFit(packets[i])
DownFit(of, packets) ==
    \A i \in DOMAIN packets : packets[i].kind \in InventoryKinds => UpdateFit(of, packets[i])
AllFit(of) ==
    /\ OverlayFit(of, ui) /\ SessionFit(of, net) /\ RenderFit(of, render)
    /\ ServerFit(of, server) /\ MailboxFit(mailbox) /\ UpFit(up) /\ DownFit(of, down)
Excuses == {"lost", "crossed", "ignored", "withheld", "cursor", "reconfigured"}
Fits ==
    /\ server.opened \in Nat /\ excuses \subseteq Excuses
    /\ \E of \in Labels(server.opened) : AllFit(of)

HasOpen(inv, id) == inv.open # None /\ inv.open.id = id
Commanded(commands, inv) ==
    /\ CommandsOnly(commands)
    /\ \A i \in DOMAIN commands :
        CommandFit(commands[i]) /\ (commands[i].kind = "close" => HasOpen(inv, commands[i].id))
OverlayEffect(of) ==
    /\ UNCHANGED <<habit, render, net, up, down, server>>
    /\ OverlayFit(of, ui') /\ SameOpen(ui'.inv, ui.inv)
    /\ excuses' \in {excuses, excuses \cup {"lost"}}
    /\ \/ mailbox' = mailbox
       \/ \E commands : /\ Commanded(commands, ui.inv) /\ mailbox' = mailbox \o commands
                        /\ Len(mailbox) + Len(commands) <= MaxCommands

LEMMA OverlayParts ==
  ASSUME NEW of, OverlayFit(of, ui)
  PROVE  /\ ui = [inv |-> ui.inv, visible |-> ui.visible, drag |-> ui.drag, inputs |-> ui.inputs]
         /\ InventoryFit(ui.inv) /\ Owned(ui.inv) /\ Labelled(of, ui.inv)
         /\ ui.drag # None => ui.drag \in Drags
BY DEF OverlayFit, CopyFit

LEMMA OverlayMade ==
  ASSUME NEW of, NEW inv, CopyFit(of, inv), NEW drag, drag # None => drag \in Drags,
         NEW visible, NEW inputs, NEW u,
         u = [inv |-> inv, visible |-> visible, drag |-> drag, inputs |-> inputs]
  PROVE  OverlayFit(of, u) /\ u.inv = inv
<1>1. u.inv = inv /\ u.visible = visible /\ u.drag = drag /\ u.inputs = inputs
  OBVIOUS
<1> QED BY <1>1 DEF OverlayFit

LEMMA ActedEffect ==
  ASSUME MailboxOK, NEW of, OverlayFit(of, ui), NEW commands, Commanded(commands, ui.inv), Send(commands),
         NEW new, OverlayFit(of, new), SameOpen(new.inv, ui.inv), Acted(new)
  PROVE  OverlayEffect(of)
<1>1. UNCHANGED <<habit, render, net, up, down, server>>
  BY DEF Acted
<1>2. new = [inv |-> new.inv, visible |-> new.visible, drag |-> new.drag, inputs |-> new.inputs]
      /\ CopyFit(of, new.inv) /\ (new.drag # None => new.drag \in Drags)
  BY DEF OverlayFit
<1>3. ui' = [inv |-> new.inv, visible |-> new.visible, drag |-> new.drag, inputs |-> ui.inputs + 1]
  BY <1>2 DEF Acted
<1>4. OverlayFit(of, ui') /\ ui'.inv = new.inv
  BY <1>2, <1>3, OverlayMade
<1>5. CommandsOnly(commands) /\ IsSeq(mailbox) /\ IsSeq(commands)
  BY DEF Commanded, CommandsOnly, MailboxOK
<1>6. excuses' \in {excuses, excuses \cup {"lost"}}
  BY <1>5, SendSome
<1>7. PICK n \in Int : /\ n <= Len(commands) /\ n <= MaxCommands - Len(mailbox)
                       /\ mailbox' = mailbox \o SubSeq(commands, 1, n)
  BY <1>5, SendSome
<1>8. Commanded(SubSeq(commands, 1, n), ui.inv)
  <2>1. CommandsOnly(SubSeq(commands, 1, n))
    BY <1>5, <1>7, PrefixCommands
  <2>2. DOMAIN SubSeq(commands, 1, n) = 1 .. n
        /\ \A i \in 1 .. n : i \in DOMAIN commands /\ SubSeq(commands, 1, n)[i] = commands[i]
    BY <1>5, <1>7, Prefixed
  <2> QED BY <2>1, <2>2 DEF Commanded
<1>9. \/ mailbox' = mailbox
      \/ Len(mailbox) + Len(SubSeq(commands, 1, n)) <= MaxCommands
  <2>1. Len(mailbox) \in Nat /\ MaxCommands \in Nat
    BY <1>5, SeqParts, ExchangeAssumption
  <2>2. CASE n <= 0
    <3>1. mailbox' = mailbox \o <<>>
      BY <1>5, <1>7, <2>2, Prefixed
    <3>2. mailbox \in Seq(Range(mailbox))
      BY <1>5 DEF IsSeq
    <3> QED BY <3>1, <3>2
  <2>3. CASE n > 0
    <3>1. Len(SubSeq(commands, 1, n)) = n
      BY <1>5, <1>7, <2>3, Prefixed
    <3> QED BY <1>7, <2>1, <3>1
  <2> QED BY <1>7, <2>2, <2>3
<1> QED BY <1>1, <1>4, <1>6, <1>7, <1>8, <1>9 DEF OverlayEffect

LEMMA ShortCommanded ==
  ASSUME NEW inv
  PROVE  /\ Commanded(<<>>, inv)
         /\ \A p : p.kind \in CommandKinds /\ CommandFit(p) /\ (p.kind = "close" => HasOpen(inv, p.id))
                     => Commanded(<<p>>, inv)
<1>1. Commanded(<<>>, inv)
  BY ShortCommands, Short DEF Commanded
<1>2. ASSUME NEW p, p.kind \in CommandKinds, CommandFit(p), p.kind = "close" => HasOpen(inv, p.id)
      PROVE  Commanded(<<p>>, inv)
  BY <1>2, ShortCommands, Short DEF Commanded
<1> QED BY <1>1, <1>2

LEMMA CommandedJoined ==
  ASSUME NEW inv, NEW s, Commanded(s, inv), NEW t, Commanded(t, inv)
  PROVE  Commanded(s \o t, inv)
<1> DEFINE Right(p) == CommandFit(p) /\ (p.kind = "close" => HasOpen(inv, p.id))
<1>1. CommandsOnly(s) /\ CommandsOnly(t) /\ IsSeq(s) /\ IsSeq(t)
      /\ (\A i \in DOMAIN s : Right(s[i])) /\ (\A i \in DOMAIN t : Right(t[i]))
  BY DEF Commanded, CommandsOnly
<1> HIDE DEF Right
<1>2. CommandsOnly(s \o t)
  BY <1>1, CommandsJoined
<1>3. \A i \in DOMAIN (s \o t) : Right((s \o t)[i])
  <2> TAKE i \in DOMAIN (s \o t)
  <2>1. DOMAIN (s \o t) = 1 .. Len(s) + Len(t) /\ DOMAIN s = 1 .. Len(s) /\ DOMAIN t = 1 .. Len(t)
    BY <1>1, Joined
  <2>2. \/ i \in 1 .. Len(s) /\ (s \o t)[i] = s[i]
        \/ i - Len(s) \in 1 .. Len(t) /\ (s \o t)[i] = t[i - Len(s)]
    <3>1. i \in 1 .. Len(s) + Len(t)
      BY <2>1
    <3> QED BY <1>1, <3>1, Joined
  <2> QED BY <1>1, <2>1, <2>2
<1> QED BY <1>2, <1>3 DEF Commanded, Right

LEMMA ActiveFits ==
  ASSUME NEW inv, InventoryFit(inv)
  PROVE  /\ ContainerFit(Active(inv)) /\ Active(inv).id \in Nat /\ Active(inv).state \in Nat
         /\ DOMAIN Active(inv).slots \subseteq Int /\ Active(inv).carried \in Fitting
         /\ Active(inv).slots \in [DOMAIN Active(inv).slots -> Fitting]
         /\ Known(inv, Active(inv).id) /\ Container(inv, Active(inv).id) = Active(inv)
         /\ Carried(inv) = Active(inv).carried
         /\ inv.open = None => Active(inv) = inv.player /\ Active(inv).id = PlayerId
         /\ inv.open # None => Active(inv) = inv.open /\ Active(inv).id = inv.open.id
                               /\ inv.open.id # PlayerId
<1>1. ContainerFit(Active(inv))
  BY DEF InventoryFit, PlayerFit, OpenFit, Active
<1>2. Active(inv).id \in Nat /\ Active(inv).state \in Nat /\ DOMAIN Active(inv).slots \subseteq Int
      /\ Active(inv).carried \in Fitting
      /\ Active(inv).slots \in [DOMAIN Active(inv).slots -> Fitting]
  BY <1>1, SlotsOf
<1>3. CASE inv.open = None
  BY <1>1, <1>2, <1>3 DEF InventoryFit, PlayerFit, Active, Known, Container, Carried
<1>4. CASE inv.open # None
  BY <1>1, <1>2, <1>4 DEF InventoryFit, OpenFit, Active, Known, Container, Carried
<1> QED BY <1>3, <1>4

LEMMA NewClickFits ==
  ASSUME InventoryFit(ui.inv), NEW kind \in ClickKinds, NEW slot \in Int, NEW button \in Nat,
         kind = "swap" => button \in Selections, NEW drag \in {0, 1, 2}
  PROVE  ClickFit(NewClick(kind, slot, button, drag))
<1>1. Active(ui.inv).id \in Nat /\ Active(ui.inv).state \in Nat
  BY ActiveFits
<1> QED BY <1>1 DEF NewClick, ClickFit

LEMMA ClickedEffect ==
  ASSUME MailboxOK, NEW of, OverlayFit(of, ui), NEW click, ClickFit(click),
         NEW drag, drag # None => drag \in Drags, Clicked(click, drag)
  PROVE  OverlayEffect(of)
<1> DEFINE inv == ApplyClick(ui.inv, click).inv
           new == [ui EXCEPT !.inv = inv, !.drag = drag]
           p == [kind |-> "click", click |-> click]
<1>1. InventoryFit(ui.inv) /\ Owned(ui.inv) /\ Labelled(of, ui.inv)
      /\ ui = [inv |-> ui.inv, visible |-> ui.visible, drag |-> ui.drag, inputs |-> ui.inputs]
  BY OverlayParts
<1>2. Kin(inv, ui.inv) /\ Owned(inv)
  BY <1>1, ApplyClickFits
<1>3. Send(<<p>>) /\ Acted(new)
  BY DEF Clicked
<1>4. p.kind = "click" /\ p.click = click
  OBVIOUS
<1> HIDE DEF inv, p
<1>5. new = [inv |-> inv, visible |-> ui.visible, drag |-> drag, inputs |-> ui.inputs]
  <2> DEFINE mid == [ui EXCEPT !.inv = inv]
  <2>1. mid = [inv |-> inv, visible |-> ui.visible, drag |-> ui.drag, inputs |-> ui.inputs]
    BY <1>1
  <2>2. new = [mid EXCEPT !.drag = drag]
    OBVIOUS
  <2> HIDE DEF mid, new
  <2> QED BY <2>1, <2>2
<1> HIDE DEF new
<1>6. CopyFit(of, inv) /\ SameOpen(inv, ui.inv)
  BY <1>1, <1>2, KinLabelled DEF CopyFit, Kin
<1>7. OverlayFit(of, new) /\ new.inv = inv
  BY <1>5, <1>6, OverlayMade
<1>8. Commanded(<<p>>, ui.inv)
  <2>1. p.kind \in CommandKinds /\ CommandFit(p) /\ (p.kind = "close" => HasOpen(ui.inv, p.id))
    BY <1>4 DEF CommandKinds, CommandFit
  <2> QED BY <2>1, ShortCommanded
<1> QED BY <1>3, <1>6, <1>7, <1>8, ActedEffect

LEMMA ClicksFit ==
  ASSUME MailboxOK, NEW of, OverlayFit(of, ui), Click \/ StartDrag \/ DragOver \/ Release
  PROVE  OverlayEffect(of)
<1>1. InventoryFit(ui.inv) /\ (ui.drag # None => ui.drag \in Drags)
  BY OverlayParts
<1>2. /\ Active(ui.inv).id \in Nat /\ Active(ui.inv).state \in Nat
      /\ DOMAIN Active(ui.inv).slots \subseteq Int /\ HotbarSize \in Nat
  BY <1>1, ActiveFits, InventoryAssumption
<1>3. Outside \in Int
  BY DEF Outside
<1>4. CASE Click
  <2>1. PICK kind \in {"pickup", "quick_move", "swap", "throw", "pickup_all", "clone"} :
          \E slot \in Slots, button \in Buttons(kind) :
            Clicked(NewClick(kind, slot, button, 0), ui.drag)
    BY <1>4 DEF Click
  <2>2. PICK slot \in Slots, button \in Buttons(kind) :
          Clicked(NewClick(kind, slot, button, 0), ui.drag)
    BY <2>1
  <2>3. kind \in ClickKinds /\ slot \in Int
    BY <1>2, <2>1, <2>2 DEF ClickKinds, Slots
  <2>4. button \in Nat /\ (kind = "swap" => button \in Selections)
    <3>1. CASE kind = "swap"
      BY <1>2, <2>2, <3>1 DEF Buttons, Selections
    <3>2. CASE kind # "swap"
      BY <2>2, <2>1, <3>2 DEF Buttons
    <3> QED BY <3>1, <3>2
  <2>5. ClickFit(NewClick(kind, slot, button, 0))
    BY <1>1, <2>3, <2>4, NewClickFits
  <2> QED BY <1>1, <2>2, <2>5, ClickedEffect
<1>5. CASE StartDrag
  <2> DEFINE Drag(kind) == [container |-> Active(ui.inv).id, state |-> Active(ui.inv).state,
                            kind |-> kind, visited |-> {}]
  <2>1. PICK kind \in {0, 1, 2} : Clicked(NewClick("drag_start", Outside, 0, kind), Drag(kind))
    BY <1>5 DEF StartDrag
  <2>2. Drag(kind) \in Drags
    BY <1>2 DEF Drags
  <2> HIDE DEF Drag
  <2>3. ClickFit(NewClick("drag_start", Outside, 0, kind))
    BY <1>1, <1>3, NewClickFits DEF ClickKinds
  <2> QED BY <2>1, <2>2, <2>3, ClickedEffect
<1>6. CASE DragOver
  <2>1. ui.drag # None
    BY <1>6 DEF DragOver
  <2>2. PICK slot \in Slots :
          Clicked(NewClick("drag_add", slot, 0, ui.drag.kind),
                  [ui.drag EXCEPT !.visited = @ \cup {slot}])
    BY <1>6 DEF DragOver
  <2>3. slot \in Int /\ ui.drag \in Drags
    BY <1>1, <1>2, <2>1, <2>2 DEF Slots
  <2>4. [ui.drag EXCEPT !.visited = @ \cup {slot}] \in Drags /\ ui.drag.kind \in {0, 1, 2}
    BY <2>3 DEF Drags
  <2>5. ClickFit(NewClick("drag_add", slot, 0, ui.drag.kind))
    BY <1>1, <2>3, <2>4, NewClickFits DEF ClickKinds
  <2> QED BY <2>2, <2>4, <2>5, ClickedEffect
<1>7. CASE Release
  <2>1. ui.drag # None /\ Clicked(NewClick("drag_end", Outside, 0, ui.drag.kind), None)
    BY <1>7 DEF Release
  <2>2. ui.drag.kind \in {0, 1, 2}
    BY <1>1, <2>1 DEF Drags
  <2>3. ClickFit(NewClick("drag_end", Outside, 0, ui.drag.kind))
    BY <1>1, <1>3, <2>2, NewClickFits DEF ClickKinds
  <2> QED BY <2>1, <2>3, ClickedEffect
<1> QED BY <1>4, <1>5, <1>6, <1>7

LEMMA KeysFit ==
  ASSUME MailboxOK, NEW of, OverlayFit(of, ui), PressInventoryKey \/ SelectHotbar
  PROVE  OverlayEffect(of)
<1>1. InventoryFit(ui.inv) /\ Owned(ui.inv) /\ Labelled(of, ui.inv) /\ CopyFit(of, ui.inv)
      /\ ui = [inv |-> ui.inv, visible |-> ui.visible, drag |-> ui.drag, inputs |-> ui.inputs]
      /\ (ui.drag # None => ui.drag \in Drags)
  BY OverlayParts DEF CopyFit
<1>2. SameOpen(ui.inv, ui.inv)
  BY DEF SameOpen
<1>3. CASE PressInventoryKey
  <2> DEFINE commands == IF ui.inv.open = None THEN <<>>
                         ELSE <<[kind |-> "close", id |-> ui.inv.open.id]>>
             New(visible) == [ui EXCEPT !.visible = visible, !.drag = None]
  <2>1. \E visible : Acted(New(visible)) /\ (Send(commands) \/ Send(<<>>))
    BY <1>3 DEF PressInventoryKey
  <2>2. PICK visible : Acted(New(visible)) /\ (Send(commands) \/ Send(<<>>))
    BY <2>1
  <2>3. Commanded(commands, ui.inv)
    <3> DEFINE p == [kind |-> "close", id |-> ui.inv.open.id]
    <3>1. p.kind \in CommandKinds /\ CommandFit(p) /\ p.id = ui.inv.open.id
      BY DEF CommandKinds, CommandFit
    <3>2. CASE ui.inv.open = None
      BY <3>2, ShortCommanded
    <3>3. CASE ui.inv.open # None
      <4>1. commands = <<p>>
        BY <3>3
      <4> HIDE DEF commands, p
      <4> QED BY <3>1, <3>3, <4>1, ShortCommanded DEF HasOpen
    <3> QED BY <3>2, <3>3
  <2>4. New(visible) = [inv |-> ui.inv, visible |-> visible, drag |-> None, inputs |-> ui.inputs]
    <3> DEFINE mid == [ui EXCEPT !.visible = visible]
    <3>1. mid = [inv |-> ui.inv, visible |-> visible, drag |-> ui.drag, inputs |-> ui.inputs]
      BY <1>1
    <3>2. New(visible) = [mid EXCEPT !.drag = None]
      OBVIOUS
    <3> HIDE DEF mid, New
    <3> QED BY <3>1, <3>2
  <2> HIDE DEF commands, New
  <2>5. OverlayFit(of, New(visible)) /\ New(visible).inv = ui.inv
    BY <1>1, <2>4, OverlayMade
  <2> QED BY <1>2, <2>2, <2>3, <2>5, ShortCommanded, ActedEffect
<1>4. CASE SelectHotbar
  <2>1. PICK slot \in Selections : /\ Send(<<[kind |-> "select", slot |-> slot]>>)
                                   /\ Acted([ui EXCEPT !.inv.selected = slot])
    BY <1>4 DEF SelectHotbar, Selections
  <2> DEFINE p == [kind |-> "select", slot |-> slot]
             inv == [ui.inv EXCEPT !.selected = slot]
             new == [ui EXCEPT !.inv.selected = slot]
  <2>2. Commanded(<<p>>, ui.inv)
    <3>1. p.kind \in CommandKinds /\ CommandFit(p) /\ p.kind # "close"
      BY DEF CommandKinds, CommandFit
    <3> HIDE DEF p
    <3> QED BY <3>1, ShortCommanded
  <2>3. Kin(inv, ui.inv) /\ Owned(inv)
    BY <1>1, SelectedFits
  <2>4. new = [inv |-> inv, visible |-> ui.visible, drag |-> ui.drag, inputs |-> ui.inputs]
    BY <1>1
  <2> HIDE DEF p, inv, new
  <2>5. CopyFit(of, inv) /\ SameOpen(inv, ui.inv)
    BY <1>1, <2>3, KinLabelled DEF CopyFit, Kin
  <2>6. OverlayFit(of, new) /\ new.inv = inv
    BY <1>1, <2>4, <2>5, OverlayMade
  <2>7. Send(<<p>>) /\ Acted(new)
    BY <2>1 DEF p, new
  <2> QED BY <2>2, <2>5, <2>6, <2>7, ActedEffect
<1> QED BY <1>3, <1>4

\* The Creative screen's assignments: each leaves all but the player's slots.
Assignments == [slot : {-1} \cup PlayerSlots, stack : Fitting]
Assigned(base, changes) ==
    FoldLeft(LAMBDA inv, c : SetCreativeSlot(inv, c.slot, c.stack), base, changes)
LEMMA AssignedStays ==
  ASSUME NEW base, NEW changes \in Seq(Assignments), NEW X, base \in X,
         \A x \in X, c \in Assignments : SetCreativeSlot(x, c.slot, c.stack) \in X
  PROVE  Assigned(base, changes) \in X
<1> DEFINE S == DOMAIN changes
           To(x, c) == SetCreativeSlot(x, c.slot, c.stack)
<1>1. S = 1 .. Len(changes) /\ Len(changes) \in Nat /\ \A i \in S : changes[i] \in Assignments
  OBVIOUS
<1>2. S \subseteq Int /\ IsFiniteSet(S)
  BY <1>1, FS_Interval
<1>3. \A x \in X, i \in S : To(x, changes[i]) \in X
  BY <1>1
<1> HIDE DEF To
<1> DEFINE g == [p \in S \X X |-> To(p[2], changes[p[1]])]
<1>4. g \in [S \X X -> X]
  BY <1>3
<1>5. \A i \in S, x \in X : g[<<i, x>>] = To(x, changes[i])
  OBVIOUS
<1> HIDE DEF g, S
<1>6. PICK h : Folds(h, SUBSET S, base, g) /\ \A s \in SUBSET S : h[s] \in X
  BY <1>2, <1>4, FoldExists
<1> DEFINE Runs(f) == f = [s \in SUBSET S |-> IF s = {} THEN base
                             ELSE To(f[s \ {Max(s)}], changes[Max(s)])]
<1>7. Runs(h)
  <2>1. \A s \in SUBSET S : s # {} => g[<<Max(s), h[s \ {Max(s)}]>>]
                                        = To(h[s \ {Max(s)}], changes[Max(s)])
    BY <1>2, <1>5, <1>6, Greatest
  <2> QED BY <1>6, <2>1 DEF Folds
<1> DEFINE k == CHOOSE f : Runs(f)
<1>8. Runs(k)
  <2> HIDE DEF Runs
  <2> QED BY <1>7
<1>9. Assigned(base, changes) = k[S]
  BY Zenon DEF Assigned, FoldLeft, MapThenFoldSet, To, S
<1> HIDE DEF k
<1>10. k[S] \in X
  <2>1. k[{}] \in X
    BY <1>8
  <2>2. ASSUME NEW s \in SUBSET S, s # {}, k[s \ {Max(s)}] \in X PROVE k[s] \in X
    <3>1. k[s] = To(k[s \ {Max(s)}], changes[Max(s)])
      BY <1>8, <2>2
    <3> HIDE DEF Runs
    <3>2. Max(s) \in S
      BY <1>2, <2>2, Greatest
    <3> QED BY <1>3, <2>2, <3>1, <3>2
  <2> HIDE DEF Runs
  <2> QED BY <1>2, <2>1, <2>2, StaysIn
<1> QED BY <1>9, <1>10

LEMMA AssignedFits ==
  ASSUME NEW base, InventoryFit(base), NEW changes \in Seq(Assignments)
  PROVE  Undisturbed(Assigned(base, changes), base)
<1> DEFINE D == DOMAIN base.player.slots
           With(f) == [base EXCEPT !.player.slots = f]
           X == {With(f) : f \in [D -> Fitting]}
<1>1. D = PlayerSlots /\ base.player.slots \in [D -> Fitting]
  BY PlayerSlotsOf
<1>2. \A f \in [D -> Fitting] : Undisturbed(With(f), base) /\ With(f).player.slots = f
  BY TailPut
<1>3. base \in X
  <2>1. base = With(base.player.slots)
    <3>1. /\ base = [player |-> base.player, open |-> base.open, selected |-> base.selected,
                     drag |-> base.drag]
          /\ base.player = [id |-> base.player.id, menu |-> base.player.menu,
                            state |-> base.player.state, carried |-> base.player.carried,
                            slots |-> base.player.slots]
      BY SlotsOf DEF InventoryFit, PlayerFit
    <3> DEFINE p == [base.player EXCEPT !.slots = base.player.slots]
    <3>2. p = base.player
      BY <3>1
    <3>3. With(base.player.slots) = [base EXCEPT !.player = p]
      OBVIOUS
    <3> HIDE DEF p, With
    <3>4. [base EXCEPT !.player = base.player] = base
      BY <3>1
    <3> QED BY <3>2, <3>3, <3>4
  <2> HIDE DEF With
  <2> QED BY <1>1, <2>1
<1>4. ASSUME NEW f \in [D -> Fitting], NEW c \in Assignments
      PROVE  SetCreativeSlot(With(f), c.slot, c.stack) \in X
  <2>1. c.slot \in {-1} \cup D /\ c.stack \in Fitting
    BY <1>1 DEF Assignments
  <2>2. CASE c.slot = -1
    BY <2>2 DEF SetCreativeSlot
  <2>3. CASE c.slot # -1
    <3> DEFINE e == [f EXCEPT ![c.slot] = c.stack]
    <3>1. e \in [D -> Fitting]
      BY <2>1, <2>3
    <3>2. SetCreativeSlot(With(f), c.slot, c.stack) = [With(f) EXCEPT !.player.slots[c.slot] = c.stack]
      BY <2>3 DEF SetCreativeSlot
    <3>3. [With(f) EXCEPT !.player.slots[c.slot] = c.stack] = [With(f) EXCEPT !.player.slots = e]
      <4>1. With(f).player.slots = f
        BY <1>2
      <4> HIDE DEF With
      <4> QED BY <4>1
    <3>4. [With(f) EXCEPT !.player.slots = e] = With(e)
      <4> HIDE DEF e
      <4> QED OBVIOUS
    <3> HIDE DEF e, With
    <3> QED BY <3>1, <3>2, <3>3, <3>4
  <2> HIDE DEF X
  <2> QED BY <2>2, <2>3
<1>5. \A x \in X, c \in Assignments : SetCreativeSlot(x, c.slot, c.stack) \in X
  BY <1>4
<1> HIDE DEF X
<1>6. Assigned(base, changes) \in X
  BY <1>3, <1>5, AssignedStays
<1> QED BY <1>2, <1>6 DEF X

LEMMA Assignable ==
  /\ \A slot \in {-1} \cup PlayerSlots, stack \in Fitting : Assign(slot, stack) \in Assignments
  /\ <<>> \in Seq(Assignments)
  /\ \A p \in Assignments : <<p>> \in Seq(Assignments)
  /\ \A p \in Assignments, q \in Assignments : <<p, q>> \in Seq(Assignments)
<1>1. \A slot \in {-1} \cup PlayerSlots, stack \in Fitting : Assign(slot, stack) \in Assignments
  BY DEF Assign, Assignments
<1>2. \A R : /\ <<>> \in Seq(R)
             /\ \A p \in R : <<p>> \in Seq(R)
             /\ \A p \in R, q \in R : <<p, q>> \in Seq(R)
  OBVIOUS
<1> QED BY <1>1, <1>2

LEMMA DifferingFits ==
  ASSUME NEW old, NEW new \in [PlayerSlots -> Fitting]
  PROVE  Differing(old, new) \in Seq(Assignments)
<1>1. \A i \in 0 .. Offhand : Assign(i, new[i]) \in Assignments
  <2>1. \A i \in PlayerSlots : new[i] \in Fitting
    OBVIOUS
  <2> QED BY <2>1, Assignable DEF PlayerSlots
<1> QED BY <1>1, Listed

LEMMA SynchronizeFits ==
  ASSUME MailboxOK, NEW of, OverlayFit(of, ui), NEW carried \in Fitting,
         NEW changes \in Seq(Assignments), Synchronize(carried, changes)
  PROVE  OverlayEffect(of)
<1> DEFINE cursor == IF carried = Carried(ui.inv) THEN <<>>
                     ELSE <<[kind |-> "cursor", stack |-> carried]>>
           Set(c) == [kind |-> "creative", slot |-> c.slot, stack |-> c.stack]
           sets == [i \in DOMAIN changes |-> Set(changes[i])]
           held == SetCarried(ui.inv, carried)
           inv == Assigned(held, changes)
           new == [ui EXCEPT !.inv = inv]
<1>1. InventoryFit(ui.inv) /\ Owned(ui.inv) /\ Labelled(of, ui.inv)
      /\ ui = [inv |-> ui.inv, visible |-> ui.visible, drag |-> ui.drag, inputs |-> ui.inputs]
      /\ (ui.drag # None => ui.drag \in Drags)
  BY OverlayParts
<1>2. Send(cursor \o sets) /\ Acted(new)
  BY DEF Synchronize, Assigned
<1>3. Undisturbed(held, ui.inv) /\ InventoryFit(held)
  BY <1>1, SetCarriedFits DEF Undisturbed, Kin
<1>4. Commanded(cursor, ui.inv)
  <2> DEFINE p == [kind |-> "cursor", stack |-> carried]
  <2>1. p.kind \in CommandKinds /\ CommandFit(p) /\ p.kind # "close"
    BY DEF CommandKinds, CommandFit
  <2>2. cursor = <<>> \/ cursor = <<p>>
    OBVIOUS
  <2> HIDE DEF cursor, p
  <2> QED BY <2>1, <2>2, ShortCommanded
<1>5. Commanded(sets, ui.inv)
  <2> DEFINE R == {Set(c) : c \in Assignments}
  <2>1. Len(changes) \in Nat /\ DOMAIN changes = 1 .. Len(changes)
        /\ \A i \in DOMAIN changes : changes[i] \in Assignments
    OBVIOUS
  <2>2. \A c \in Assignments : /\ Set(c).kind \in CommandKinds /\ CommandFit(Set(c))
                               /\ Set(c).kind # "close"
    BY DEF CommandKinds, CommandFit, Assignments
  <2> HIDE DEF Set
  <2>3. sets \in [1 .. Len(changes) -> R]
    BY <2>1
  <2>4. DOMAIN sets = DOMAIN changes /\ \A i \in DOMAIN changes : sets[i] = Set(changes[i])
    OBVIOUS
  <2> HIDE DEF sets, R
  <2>5. sets \in Seq(R)
    BY <2>1, <2>3
  <2>6. IsSeq(sets)
    BY <2>5, SeqMade
  <2>7. CommandsOnly(sets)
    BY <2>1, <2>2, <2>4, <2>6 DEF CommandsOnly
  <2> QED BY <2>1, <2>2, <2>4, <2>7 DEF Commanded
<1>6. Undisturbed(inv, held)
  BY <1>3, AssignedFits
<1> HIDE DEF cursor, sets, held, inv
<1>7. Undisturbed(inv, ui.inv)
  BY <1>3, <1>6, Kinship
<1>8. Kin(inv, ui.inv) /\ Owned(inv)
  BY <1>1, <1>7, UndisturbedOwned, Kinship
<1>9. CopyFit(of, inv) /\ SameOpen(inv, ui.inv)
  BY <1>1, <1>8, KinLabelled DEF CopyFit, Kin
<1>10. new = [inv |-> inv, visible |-> ui.visible, drag |-> ui.drag, inputs |-> ui.inputs]
  BY <1>1
<1> HIDE DEF new
<1>11. OverlayFit(of, new) /\ new.inv = inv
  BY <1>1, <1>9, <1>10, OverlayMade
<1>12. Commanded(cursor \o sets, ui.inv)
  BY <1>4, <1>5, CommandedJoined
<1> QED BY <1>2, <1>9, <1>11, <1>12, ActedEffect

\* The Creative screen works on the player's own slots.
LEMMA CreativePlace ==
  ASSUME NEW of, OverlayFit(of, ui), Creative
  PROVE  /\ InventoryFit(ui.inv) /\ Owned(ui.inv) /\ Labelled(of, ui.inv)
         /\ ui.inv.open = None /\ Active(ui.inv) = ui.inv.player
         /\ Carried(ui.inv) = ui.inv.player.carried /\ Carried(ui.inv) \in Fitting
         /\ ContainerFit(ui.inv.player) /\ ui.inv.player.slots \in [PlayerSlots -> Fitting]
         /\ DOMAIN ui.inv.player.slots = PlayerSlots
<1>1. InventoryFit(ui.inv) /\ Owned(ui.inv) /\ Labelled(of, ui.inv) /\ ui.inv.open = None
  BY OverlayParts DEF Creative
<1>2. Active(ui.inv) = ui.inv.player /\ Carried(ui.inv) = Active(ui.inv).carried
      /\ Carried(ui.inv) \in Fitting
  BY <1>1, ActiveFits
<1> QED BY <1>1, <1>2, PlayerSlotsOf

LEMMA CreativePlaces ==
  /\ CreativeSlots \subseteq PlayerSlots /\ CreativeHotbar \subseteq PlayerSlots
  /\ PlayerSlots \subseteq Int /\ Offhand - Helmet + 1 \in Nat
  /\ \A i \in 1 .. Offhand - Helmet + 1 : Helmet + i - 1 \in PlayerSlots
BY InventoryAssumption
   DEF CreativeSlots, CreativeHotbar, PlayerSlots, Offhand, PlayerHotbar, PlayerMain, Helmet

LEMMA CreativeSlotsFit ==
  ASSUME MailboxOK, NEW of, OverlayFit(of, ui), CreativeSlotClick \/ CreativeSpread
  PROVE  OverlayEffect(of)
<1>1. CASE CreativeSlotClick
  <2>1. Creative
    BY <1>1 DEF CreativeSlotClick
  <2> DEFINE Result(kind, slot, button) == ApplyClick(ui.inv, NewClick(kind, slot, button, 0)).inv
  <2>2. PICK kind \in {"pickup", "quick_move", "pickup_all", "clone"} :
          \E slot \in CreativeSlots, button \in Buttons(kind) :
            Synchronize(Carried(Result(kind, slot, button)),
                        Differing(ui.inv.player.slots, Result(kind, slot, button).player.slots))
    BY <1>1 DEF CreativeSlotClick
  <2>3. PICK slot \in CreativeSlots, button \in Buttons(kind) :
            Synchronize(Carried(Result(kind, slot, button)),
                        Differing(ui.inv.player.slots, Result(kind, slot, button).player.slots))
    BY <2>2
  <2>4. button \in Nat /\ kind \in ClickKinds /\ kind # "swap"
    BY <2>2, <2>3 DEF Buttons, ClickKinds
  <2>5. ClickFit(NewClick(kind, slot, button, 0))
    BY <2>1, <2>3, <2>4, CreativePlace, CreativePlaces, NewClickFits
  <2> DEFINE after == Result(kind, slot, button)
  <2>6. InventoryFit(after)
    BY <2>1, <2>5, CreativePlace, ApplyClickFits DEF Kin
  <2> HIDE DEF Result
  <2>7. Carried(after) \in Fitting /\ after.player.slots \in [PlayerSlots -> Fitting]
    BY <2>6, ActiveFits, PlayerSlotsOf
  <2> HIDE DEF after
  <2>8. Synchronize(Carried(after), Differing(ui.inv.player.slots, after.player.slots))
    BY <2>3 DEF after
  <2>9. Differing(ui.inv.player.slots, after.player.slots) \in Seq(Assignments)
    BY <2>7, DifferingFits
  <2> QED BY <2>7, <2>8, <2>9, SynchronizeFits
<1>2. CASE CreativeSpread
  <2>1. Creative
    BY <1>2 DEF CreativeSpread
  <2> DEFINE Result(kind, slots) == Spread(ui.inv.player, [kind |-> kind, slots |-> slots])
  <2>2. PICK kind \in {0, 1, 2} :
          \E slots \in SUBSET CreativeSlots :
            Synchronize(Result(kind, slots).carried,
                        Differing(ui.inv.player.slots, Result(kind, slots).slots))
    BY <1>2 DEF CreativeSpread
  <2>3. PICK slots \in SUBSET CreativeSlots :
            Synchronize(Result(kind, slots).carried,
                        Differing(ui.inv.player.slots, Result(kind, slots).slots))
    BY <2>2
  <2> DEFINE drag == [kind |-> kind, slots |-> slots]
             after == Result(kind, slots)
  <2>4. drag.kind \in {0, 1, 2} /\ drag.slots \subseteq DOMAIN ui.inv.player.slots
    BY <2>1, <2>3, CreativePlace, CreativePlaces
  <2>5. after = Spread(ui.inv.player, drag)
    OBVIOUS
  <2> HIDE DEF drag, after
  <2>6. Reslotted(after, ui.inv.player)
    BY <2>1, <2>4, <2>5, CreativePlace, SpreadFits
  <2>7. ContainerFit(after) /\ DOMAIN after.slots = PlayerSlots
    BY <2>1, <2>6, CreativePlace DEF Reslotted, Alike
  <2>8. after.carried \in Fitting /\ after.slots \in [PlayerSlots -> Fitting]
    BY <2>7, SlotsOf
  <2>9. Synchronize(after.carried, Differing(ui.inv.player.slots, after.slots))
    BY <2>3 DEF after
  <2>10. Differing(ui.inv.player.slots, after.slots) \in Seq(Assignments)
    BY <2>8, DifferingFits
  <2> QED BY <2>8, <2>9, <2>10, SynchronizeFits
<1> QED BY <1>1, <1>2

LEMMA CreativeKeyFits ==
  ASSUME MailboxOK, NEW of, OverlayFit(of, ui), CreativeKey
  PROVE  OverlayEffect(of)
<1> DEFINE there == ui.inv.player.slots
           held == Carried(ui.inv)
           size == Offhand - Helmet + 1
           emptied == [i \in 1 .. size |-> Assign(Helmet + i - 1, Empty)]
<1>1. Creative
  BY DEF CreativeKey
<1>2. held \in Fitting /\ there \in [PlayerSlots -> Fitting]
  BY <1>1, CreativePlace
<1>3. CreativeSlots \subseteq PlayerSlots /\ CreativeHotbar \subseteq PlayerSlots
  BY CreativePlaces
<1>4. emptied \in Seq(Assignments)
  <2>1. size \in Nat /\ \A i \in 1 .. size : Assign(Helmet + i - 1, Empty) \in Assignments
    BY CreativePlaces, Assignable, EmptyFits
  <2> HIDE DEF size
  <2>2. emptied \in [1 .. size -> Assignments]
    BY <2>1
  <2> HIDE DEF emptied
  <2> QED BY <2>1, <2>2
<1>5. ASSUME NEW slot \in CreativeSlots, NEW other \in CreativeHotbar
      PROVE  <<Assign(slot, there[other]), Assign(other, there[slot])>> \in Seq(Assignments)
  <2>1. slot \in PlayerSlots /\ other \in PlayerSlots
        /\ there[slot] \in Fitting /\ there[other] \in Fitting
    BY <1>2, <1>3
  <2>2. Assign(slot, there[other]) \in Assignments /\ Assign(other, there[slot]) \in Assignments
    BY <2>1, Assignable
  <2> QED BY <2>2, Assignable
<1>6. ASSUME NEW slot \in CreativeSlots, there[slot] # Empty, NEW n \in {1, there[slot].count}
      PROVE  <<Assign(slot, Stack(there[slot].item, there[slot].count - n)),
               Assign(-1, Stack(there[slot].item, n))>> \in Seq(Assignments)
  <2> DEFINE s == there[slot]
  <2>1. slot \in PlayerSlots /\ s \in Fitting
    BY <1>2, <1>3
  <2>2. s # Empty /\ n \in {1, s.count}
    BY <1>6
  <2> HIDE DEF s
  <2>3. s.item \in Items /\ s.count \in Nat \ {0} /\ s.count <= MaxStack[s.item]
        /\ MaxStack[s.item] \in Nat
    BY <2>1, <2>2, FittingParts
  <2>4. n \in Nat /\ n <= MaxStack[s.item] /\ s.count - n \in Nat
        /\ s.count - n <= MaxStack[s.item]
    BY <2>2, <2>3
  <2>5. Stack(s.item, s.count - n) \in Fitting /\ Stack(s.item, n) \in Fitting
    BY <2>3, <2>4, StackFits
  <2>6. Assign(slot, Stack(s.item, s.count - n)) \in Assignments
        /\ Assign(-1, Stack(s.item, n)) \in Assignments
    BY <2>1, <2>5, Assignable
  <2>7. <<Assign(slot, Stack(s.item, s.count - n)), Assign(-1, Stack(s.item, n))>>
          \in Seq(Assignments)
    BY <2>6, Assignable
  <2> QED BY <2>7 DEF s
<1>7. ASSUME NEW slot \in CreativeHotbar PROVE <<Assign(slot, Empty)>> \in Seq(Assignments)
  <2>1. Assign(slot, Empty) \in Assignments
    BY <1>3, EmptyFits, Assignable
  <2> QED BY <2>1, Assignable
<1>8. \/ \E changes \in Seq(Assignments) : Synchronize(held, changes)
      \/ Synchronize(Empty, <<>>)
  BY <1>4, <1>5, <1>6, <1>7 DEF CreativeKey
<1> HIDE DEF there, held, emptied
<1> QED BY <1>2, <1>8, EmptyFits, Assignable, SynchronizeFits

LEMMA PickedFits ==
  ASSUME NEW input \in {"primary", "secondary", "quick_move", "clone"}, NEW held \in Fitting,
         NEW item \in Items
  PROVE  Picked(input, held, item) \in Fitting
<1>1. MaxStack[item] \in Nat \ {0} /\ item # None
  BY InventoryAssumption
<1>2. Stack(item, 1) \in Fitting /\ Stack(item, MaxStack[item]) \in Fitting /\ Empty \in Fitting
  <2>1. 1 \in Nat /\ 1 <= MaxStack[item] /\ MaxStack[item] \in Nat
        /\ MaxStack[item] <= MaxStack[item]
    BY <1>1
  <2> QED BY <2>1, StackFits, EmptyFits
<1>3. CASE held = Empty
  <2>1. Picked(input, held, item) \in {Stack(item, 1), Stack(item, MaxStack[item])}
    BY <1>3 DEF Picked
  <2> QED BY <1>2, <2>1
<1>4. CASE held # Empty
  <2>1. held.item \in Items /\ held.count \in Nat \ {0} /\ held.count <= MaxStack[held.item]
        /\ MaxStack[held.item] \in Nat
    BY <1>4, FittingParts
  <2>2. CASE input = "clone"
    BY <1>4, <2>2 DEF Picked
  <2>3. CASE input = "secondary"
    <3>1. Stack(held.item, held.count - 1) \in Fitting
      <4>1. held.count - 1 \in Nat /\ held.count - 1 <= MaxStack[held.item]
        BY <2>1
      <4> QED BY <2>1, <4>1, StackFits
    <3>2. Picked(input, held, item) = Stack(held.item, held.count - 1)
      BY <1>4, <2>3 DEF Picked
    <3> QED BY <3>1, <3>2
  <2>4. CASE input \in {"primary", "quick_move"} /\ held.item # item
    <3>1. Picked(input, held, item) = Empty
      BY <1>4, <2>4 DEF Picked
    <3> QED BY <1>2, <3>1
  <2>5. CASE input = "primary" /\ held.item = item
    <3>1. Picked(input, held, item) = IF Full(held) THEN held ELSE Stack(item, held.count + 1)
      BY <1>4, <2>5 DEF Picked
    <3>2. ASSUME ~Full(held) PROVE Stack(item, held.count + 1) \in Fitting
      <4>1. held.count + 1 \in Nat /\ held.count + 1 <= MaxStack[item]
        BY <2>1, <2>5, <3>2 DEF Full, Room
      <4> QED BY <4>1, StackFits
    <3> QED BY <3>1, <3>2
  <2>6. CASE input = "quick_move" /\ held.item = item
    <3>1. Picked(input, held, item) = Stack(item, MaxStack[item])
      BY <1>4, <2>6 DEF Picked
    <3> QED BY <1>2, <3>1
  <2> QED BY <2>2, <2>3, <2>4, <2>5, <2>6
<1> QED BY <1>3, <1>4

LEMMA CreativePickFits ==
  ASSUME MailboxOK, NEW of, OverlayFit(of, ui), CreativePick \/ CreativeCopy
  PROVE  OverlayEffect(of)
<1>1. Creative
  BY DEF CreativePick, CreativeCopy
<1>2. Carried(ui.inv) \in Fitting
  BY <1>1, CreativePlace
<1>3. CASE CreativePick
  <2>1. \E carried \in Fitting : Synchronize(carried, <<>>)
    BY <1>2, <1>3, PickedFits DEF CreativePick
  <2> QED BY <2>1, Assignable, SynchronizeFits
<1>4. CASE CreativeCopy
  <2>1. PICK item \in Items :
          LET full == Stack(item, MaxStack[item])
          IN \E change \in {Assign(-1, Stack(item, 1)), Assign(-1, full)}
                            \cup {Assign(slot, full) : slot \in CreativeHotbar} :
               Synchronize(Carried(ui.inv), <<change>>)
    BY <1>4 DEF CreativeCopy
  <2>2. Stack(item, 1) \in Fitting /\ Stack(item, MaxStack[item]) \in Fitting
    <3>1. 1 <= MaxStack[item] /\ MaxStack[item] \in Nat
      BY <2>1, InventoryAssumption
    <3> QED BY <2>1, <3>1, StackFits
  <2>3. \A slot \in {-1} \cup CreativeHotbar : slot \in {-1} \cup PlayerSlots
    BY CreativePlaces
  <2>4. \E change \in Assignments : Synchronize(Carried(ui.inv), <<change>>)
    BY <2>1, <2>2, <2>3, Assignable
  <2> QED BY <1>2, <2>4, Assignable, SynchronizeFits
<1> QED BY <1>3, <1>4

LEMMA CreativeDropFits ==
  ASSUME MailboxOK, NEW of, OverlayFit(of, ui), CreativeDrop
  PROVE  OverlayEffect(of)
<1> DEFINE a == [kind |-> "creative", slot |-> -1, stack |-> Carried(ui.inv)]
           b == [kind |-> "cursor", stack |-> Empty]
           inv == SetCarried(ui.inv, Empty)
           new == [ui EXCEPT !.inv = inv]
<1>1. InventoryFit(ui.inv) /\ Owned(ui.inv) /\ Labelled(of, ui.inv)
      /\ ui = [inv |-> ui.inv, visible |-> ui.visible, drag |-> ui.drag, inputs |-> ui.inputs]
      /\ (ui.drag # None => ui.drag \in Drags)
  BY OverlayParts
<1>2. Carried(ui.inv) \in Fitting
  BY CreativePlace DEF CreativeDrop
<1>3. Send(<<a, b>>) /\ Acted(new)
  BY DEF CreativeDrop
<1>4. /\ a.kind \in CommandKinds /\ CommandFit(a) /\ a.kind # "close"
      /\ b.kind \in CommandKinds /\ CommandFit(b) /\ b.kind # "close"
  BY <1>2, EmptyFits DEF CommandKinds, CommandFit
<1>5. Undisturbed(inv, ui.inv)
  BY <1>1, EmptyFits, SetCarriedFits
<1>6. new = [inv |-> inv, visible |-> ui.visible, drag |-> ui.drag, inputs |-> ui.inputs]
  BY <1>1
<1> HIDE DEF a, b, inv, new
<1>7. Kin(inv, ui.inv) /\ Owned(inv)
  BY <1>1, <1>5, UndisturbedOwned, Kinship
<1>8. CopyFit(of, inv) /\ SameOpen(inv, ui.inv)
  BY <1>1, <1>7, KinLabelled DEF CopyFit, Kin
<1>9. OverlayFit(of, new) /\ new.inv = inv
  BY <1>1, <1>6, <1>8, OverlayMade
<1>10. Commanded(<<a, b>>, ui.inv)
  BY <1>4, ShortCommands, Short DEF Commanded
<1> QED BY <1>3, <1>8, <1>9, <1>10, ActedEffect

LEMMA OverlayFits ==
  ASSUME MailboxOK, NEW of, OverlayFit(of, ui), Overlay
  PROVE  OverlayEffect(of)
<1>1. CASE CreativeInput
  BY <1>1, CreativeSlotsFit, CreativeKeyFits, CreativePickFits, CreativeDropFits DEF CreativeInput
<1>2. CASE ~CreativeInput
  BY <1>2, ClicksFit, KeysFit DEF Overlay
<1> QED BY <1>1, <1>2

-----------------------------------------------------------------------------
\* The network task: updates of the inventory and ticks.

LEMMA LabelIds ==
  ASSUME NEW n \in Nat, NEW of \in Labels(n)
  PROVE  /\ DOMAIN of = 1 .. n /\ DOMAIN of \subseteq Nat \ {0} /\ PlayerId \notin DOMAIN of
         /\ \A id \in DOMAIN of : /\ id \in Nat /\ id # PlayerId /\ 1 <= id /\ id <= n
                                  /\ of[id] \in Menus /\ SizeOf(of[id]) \in Nat \ {0}
                                  /\ SlotsIn(of, id) = 0 .. SizeOf(of[id]) - 1
         /\ SlotsIn(of, PlayerId) = PlayerSlots
<1>1. DOMAIN of = 1 .. n /\ \A id \in DOMAIN of : of[id] \in Menus
  BY DEF Labels
<1>2. \A id \in 1 .. n : id \in Nat /\ id # 0 /\ 1 <= id /\ id <= n
  OBVIOUS
<1>3. PlayerId = 0
  BY DEF PlayerId
<1>4. \A menu \in Menus : SizeOf(menu) \in Nat \ {0}
  BY Sizes
<1>5. \A id \in DOMAIN of : SlotsIn(of, id) = 0 .. SizeOf(of[id]) - 1
  BY <1>1, <1>2, <1>3 DEF SlotsIn
<1>6. SlotsIn(of, PlayerId) = PlayerSlots
  BY DEF SlotsIn
<1> QED BY <1>1, <1>2, <1>3, <1>4, <1>5, <1>6

\* The slots of a container the client knows are those the server says.
LEMMA SlotsKnown ==
  ASSUME NEW n \in Nat, NEW of \in Labels(n), NEW inv, InventoryFit(inv), Labelled(of, inv),
         NEW id \in {PlayerId} \cup DOMAIN of, Known(inv, id)
  PROVE  /\ Filled(Container(inv, id).menu) = [SlotsIn(of, id) -> Fitting]
         /\ id = PlayerId => DOMAIN Container(inv, id).slots = SlotsIn(of, id)
         /\ id # PlayerId /\ inv.open.slots # NoSlots =>
              DOMAIN Container(inv, id).slots = SlotsIn(of, id)
<1>1. CASE id = PlayerId
  <2>1. Container(inv, id) = inv.player /\ inv.player.menu = "player"
    BY <1>1 DEF Container, InventoryFit, PlayerFit
  <2>2. SizeOf("player") - 1 = Offhand /\ SlotsIn(of, id) = PlayerSlots
    <3>1. SizeOf("player") = Offhand + 1 /\ Offhand \in Int
      BY Sizes
    <3>2. SlotsIn(of, id) = PlayerSlots
      BY <1>1, LabelIds
    <3> QED BY <3>1, <3>2
  <2>3. Filled("player") = [PlayerSlots -> Fitting]
    BY <2>2 DEF Filled, PlayerSlots
  <2>4. DOMAIN inv.player.slots = PlayerSlots
    BY PlayerSlotsOf
  <2> QED BY <1>1, <2>1, <2>2, <2>3, <2>4
<1>2. CASE id # PlayerId
  <2>1. Container(inv, id) = inv.open /\ inv.open # None /\ inv.open.id = id /\ inv.open.menu = of[id]
    BY <1>2 DEF Container, Known, Labelled
  <2>2. SlotsIn(of, id) = 0 .. SizeOf(of[id]) - 1
    BY <1>2, LabelIds
  <2>3. Filled(of[id]) = [SlotsIn(of, id) -> Fitting]
    BY <2>2 DEF Filled
  <2>4. inv.open.slots # NoSlots => inv.open.slots \in Filled(of[id])
    BY <2>1 DEF InventoryFit, OpenFit, ContainerFit
  <2> QED BY <1>2, <2>1, <2>3, <2>4
<1> QED BY <1>1, <1>2

LEMMA AppliedFits ==
  ASSUME NEW n \in Nat, NEW of \in Labels(n), NEW inv, CopyFit(of, inv), NEW p,
         p.kind \in InventoryKinds, UpdateFit(of, p), Acceptable(inv, p), NEW new,
         new = Applied(inv, p)
  PROVE  /\ CopyFit(of, new)
         /\ p.kind = "open" => HasOpen(new, p.id)
         /\ p.kind = "close" => new.open = None
         /\ p.kind \in {"content", "slot", "held"} => SameOpen(new, inv)
         /\ p.kind = "content" /\ p.id # PlayerId => HasOpen(new, p.id) /\ new.open.slots # NoSlots
<1>1. InventoryFit(inv) /\ Owned(inv) /\ Labelled(of, inv)
  BY DEF CopyFit
<1>2. CASE p.kind = "open"
  <2> DEFINE c == NewContainer(p.id, p.menu, NoSlots)
  <2>1. p.id \in DOMAIN of /\ p.menu = of[p.id]
    BY <1>2 DEF UpdateFit
  <2>2. p.id \in Nat /\ p.id # PlayerId /\ p.menu \in Menus
    BY <2>1, LabelIds
  <2>3. c \in Containers /\ c.slots = NoSlots /\ c.id = p.id /\ c.menu = p.menu
    BY <2>2, EmptyFits DEF NewContainer, Containers
  <2> HIDE DEF c
  <2>4. ContainerFit(c)
    BY <2>3 DEF ContainerFit
  <2>5. InventoryFit(OpenContainer(inv, c)) /\ OpenContainer(inv, c).open = c
        /\ OpenContainer(inv, c).drag = None
    BY <1>1, <2>2, <2>3, <2>4, OpenedFits
  <2>6. new = OpenContainer(inv, c) /\ c # None
    BY <1>2, <2>4, NoContainer DEF Applied, c
  <2>7. CopyFit(of, new)
    BY <2>1, <2>3, <2>5, <2>6 DEF CopyFit, Owned, Labelled
  <2> QED BY <1>2, <2>3, <2>5, <2>6, <2>7 DEF HasOpen
<1>3. CASE p.kind = "close"
  <2>1. CASE inv.open = None
    <3>1. new = inv
      BY <1>3, <2>1 DEF Applied
    <3> QED BY <1>3, <2>1, <3>1
  <2>2. CASE inv.open # None
    <3>1. new = CloseContainer(inv)
      BY <1>3, <2>2 DEF Applied
    <3>2. InventoryFit(new) /\ new.open = None /\ new.drag = None
      BY <1>1, <3>1, ClosedContainerFits
    <3> QED BY <1>3, <3>2 DEF CopyFit, Owned, Labelled
  <2> QED BY <2>1, <2>2
<1>4. ASSUME Kin(new, inv), Owned(new) PROVE CopyFit(of, new) /\ SameOpen(new, inv)
  BY <1>1, <1>4, KinLabelled DEF CopyFit, Kin
<1>5. CASE p.kind = "content"
  <2>1. Known(inv, p.id) /\ p.id \in {PlayerId} \cup DOMAIN of /\ p.state \in Nat
        /\ p.carried \in Fitting /\ p.slots \in [SlotsIn(of, p.id) -> Fitting]
    BY <1>5 DEF Acceptable, UpdateFit
  <2>2. p.slots \in Filled(Container(inv, p.id).menu)
    BY <1>1, <2>1, SlotsKnown
  <2>3. new = ReplaceContent(inv, p.id, p.state, p.slots, p.carried)
    BY <1>5 DEF Applied
  <2>4. Kin(new, inv) /\ Owned(new) /\ (p.id # PlayerId => DOMAIN p.slots \subseteq DOMAIN new.open.slots)
    BY <1>1, <2>1, <2>2, <2>3, ReplaceContentFits
  <2>5. ASSUME p.id # PlayerId PROVE HasOpen(new, p.id) /\ new.open.slots # NoSlots
    <3>1. inv.open # None /\ inv.open.id = p.id
      BY <2>1, <2>5 DEF Known
    <3>2. HasOpen(new, p.id)
      BY <2>4, <3>1 DEF Kin, HasOpen
    <3>3. 0 \in DOMAIN p.slots
      <4>1. SlotsIn(of, p.id) = 0 .. SizeOf(of[p.id]) - 1 /\ SizeOf(of[p.id]) \in Nat \ {0}
        BY <2>1, <2>5, LabelIds
      <4> QED BY <2>1, <4>1
    <3> QED BY <2>4, <2>5, <3>2, <3>3 DEF NoSlots
  <2> QED BY <1>4, <1>5, <2>4, <2>5
<1>6. CASE p.kind = "slot"
  <2>1. Known(inv, p.id) /\ p.state \in Nat /\ p.slot \in DOMAIN Container(inv, p.id).slots
        /\ p.stack \in Fitting
    BY <1>6 DEF Acceptable, UpdateFit
  <2>2. new = SetSlot(inv, p.id, p.state, p.slot, p.stack)
    BY <1>6 DEF Applied
  <2>3. Kin(new, inv) /\ Owned(new)
    BY <1>1, <2>1, <2>2, SetSlotFits
  <2> QED BY <1>4, <1>6, <2>3
<1>7. CASE p.kind = "held"
  <2>1. p.slot \in Selections
    BY <1>7 DEF UpdateFit
  <2>2. new = [inv EXCEPT !.selected = p.slot]
    BY <1>7 DEF Applied
  <2>3. Kin(new, inv) /\ Owned(new)
    BY <1>1, <2>1, <2>2, SelectedFits
  <2> QED BY <1>4, <1>7, <2>3
<1> QED BY <1>2, <1>3, <1>5, <1>6, <1>7 DEF InventoryKinds

\* InventoryOverlay::replace.
LEMMA TakeUpdateFits ==
  ASSUME NEW of, OverlayFit(of, ui), RenderFit(of, render), TakeUpdate
  PROVE  OverlayFit(of, ui') /\ ui'.inv = render
<1> DEFINE visible == render.open # None \/ (ui.visible /\ ~(ui.inv.open # None))
           drag == Replaced(render).drag
           a == [ui EXCEPT !.inv = render]
           b == [a EXCEPT !.visible = visible]
<1>1. ui = [inv |-> ui.inv, visible |-> ui.visible, drag |-> ui.drag, inputs |-> ui.inputs]
      /\ (ui.drag # None => ui.drag \in Drags)
  BY OverlayParts
<1>2. CopyFit(of, render) /\ ui' = Replaced(render)
  BY DEF TakeUpdate, RenderFit
<1>3. PICK d \in {ui.drag, None} : Replaced(render) = [b EXCEPT !.drag = d]
  BY DEF Replaced
<1>4. a = [inv |-> render, visible |-> ui.visible, drag |-> ui.drag, inputs |-> ui.inputs]
  BY <1>1
<1> HIDE DEF a, visible
<1>5. b = [inv |-> render, visible |-> visible, drag |-> ui.drag, inputs |-> ui.inputs]
  BY <1>4
<1> HIDE DEF b
<1>6. ui' = [inv |-> render, visible |-> visible, drag |-> d, inputs |-> ui.inputs]
  BY <1>2, <1>3, <1>5
<1>7. CopyFit(of, render) /\ (d # None => d \in Drags)
  BY <1>1, <1>2, <1>3
<1> HIDE DEF drag
<1> QED BY <1>6, <1>7, OverlayMade

LEMMA UpFitJoined ==
  ASSUME NEW s, IsSeq(s), UpFit(s), NEW t, IsSeq(t), UpFit(t)
  PROVE  UpFit(s \o t)
<1>1. DOMAIN (s \o t) = 1 .. Len(s) + Len(t) /\ DOMAIN s = 1 .. Len(s) /\ DOMAIN t = 1 .. Len(t)
  BY Joined
<1>2. ASSUME NEW i \in DOMAIN (s \o t)
      PROVE  (s \o t)[i].kind \in SentKinds => CommandFit((s \o t)[i])
  <2>1. \/ i \in 1 .. Len(s) /\ (s \o t)[i] = s[i]
        \/ i - Len(s) \in 1 .. Len(t) /\ (s \o t)[i] = t[i - Len(s)]
    <3>1. i \in 1 .. Len(s) + Len(t)
      BY <1>1
    <3> QED BY <3>1, Joined
  <2> QED BY <1>1, <2>1 DEF UpFit
<1> QED BY <1>2 DEF UpFit

Closes(commands) ==
    {commands[i].id : i \in {k \in DOMAIN commands : commands[k].kind = "close"}}
TickEffect(of) ==
    /\ UNCHANGED <<habit, ui, down, server>> /\ mailbox' = <<>> /\ Running
    /\ SessionFit(of, net') /\ render' \in {render, net'.inv} /\ UpFit(up')
    /\ excuses' \in {excuses, excuses \cup {"crossed"}}
    /\ \/ net'.closed = net.closed /\ SameOpen(net'.inv, net.inv)
       \/ net.inv.open # None /\ net'.inv.open = None /\ net'.closed = net.closed \cup {net.inv.open.id}
    /\ net'.ended # None => /\ net'.ended.kind = "command" /\ net'.ended.id \in Closes(mailbox)
                            /\ ~HasOpen(net'.inv, net'.ended.id)
LEMMA TickFits ==
  ASSUME NEW of, SessionFit(of, net), MailboxFit(mailbox), MailboxOK, UpFit(up), IsSeq(up), Tick
  PROVE  TickEffect(of)
<1> DEFINE start == [inv |-> net.inv, out |-> <<>>, ended |-> None, closed |-> net.closed]
           end == FoldLeft(Serve, start, mailbox)
<1>1. /\ Running /\ mailbox' = <<>> /\ UNCHANGED <<habit, ui, down, server>>
      /\ net' = [net EXCEPT !.inv = end.inv, !.ended = end.ended, !.closed = end.closed]
      /\ up' = up \o end.out /\ render' \in {render, end.inv}
      /\ excuses' \in {excuses, excuses \cup {"crossed"}}
  BY DEF Tick
<1>2. Served(of, net.inv, net.closed, Closes(mailbox), start)
  <2>1. start.inv = net.inv /\ start.out = <<>> /\ start.ended = None /\ start.closed = net.closed
        /\ start = [inv |-> start.inv, out |-> start.out, ended |-> start.ended,
                    closed |-> start.closed]
    OBVIOUS
  <2> HIDE DEF start
  <2>2. Good(start) /\ SentFit(start.out)
    BY <2>1, Short DEF Good, SentFit
  <2>3. CopyFit(of, net.inv)
    BY DEF SessionFit
  <2>4. SameOpen(net.inv, net.inv)
    BY DEF SameOpen
  <2> QED BY <2>1, <2>2, <2>3, <2>4 DEF Served
<1> HIDE DEF start
<1>3. \A i \in DOMAIN mailbox :
        /\ mailbox[i].kind \in CommandKinds /\ CommandFit(mailbox[i])
        /\ mailbox[i].kind = "close" => mailbox[i].id \in Closes(mailbox)
  BY DEF MailboxFit, MailboxOK, Closes
<1>4. IsSeq(mailbox)
  BY DEF MailboxOK
<1>5. Served(of, net.inv, net.closed, Closes(mailbox), end)
  BY <1>2, <1>3, <1>4, AllServed
<1> HIDE DEF end
<1>6. net' = [inv |-> end.inv, ended |-> end.ended, closed |-> end.closed]
  <2> DEFINE a == [net EXCEPT !.inv = end.inv]
             b == [a EXCEPT !.ended = end.ended]
  <2>1. net = [inv |-> net.inv, ended |-> net.ended, closed |-> net.closed]
    BY DEF SessionFit
  <2>2. a = [inv |-> end.inv, ended |-> net.ended, closed |-> net.closed]
    BY <2>1
  <2>3. net' = [b EXCEPT !.closed = end.closed]
    BY <1>1
  <2> HIDE DEF a
  <2>4. b = [inv |-> end.inv, ended |-> end.ended, closed |-> net.closed]
    BY <2>2
  <2> HIDE DEF b
  <2> QED BY <2>3, <2>4
<1>7. net'.inv = end.inv /\ net'.ended = end.ended /\ net'.closed = end.closed
      /\ net' = [inv |-> net'.inv, ended |-> net'.ended, closed |-> net'.closed]
  BY <1>6
<1>8. CopyFit(of, end.inv) /\ IsSeq(end.out) /\ SentFit(end.out)
      /\ (end.ended # None => end.ended.kind = "command")
  BY <1>5 DEF Served, Good
<1>9. SessionFit(of, net')
  BY <1>7, <1>8 DEF SessionFit
<1>10. UpFit(up')
  <2>1. UpFit(end.out)
    BY <1>8 DEF UpFit, SentFit
  <2> QED BY <1>1, <1>8, <2>1, UpFitJoined
<1>11. \/ net'.closed = net.closed /\ SameOpen(net'.inv, net.inv)
       \/ net.inv.open # None /\ net'.inv.open = None /\ net'.closed = net.closed \cup {net.inv.open.id}
  BY <1>5, <1>7 DEF Served
<1>12. net'.ended # None => /\ net'.ended.kind = "command" /\ net'.ended.id \in Closes(mailbox)
                            /\ ~HasOpen(net'.inv, net'.ended.id)
  BY <1>5, <1>7, <1>8 DEF Served, HasOpen
<1>13. render' \in {render, net'.inv}
  BY <1>1, <1>7
<1> QED BY <1>1, <1>9, <1>10, <1>11, <1>12, <1>13 DEF TickEffect

\* One update is read: applied, or the end of the session.
ReadEffect(of) ==
    /\ UNCHANGED <<habit, ui, mailbox, up, server>>
    /\ Running /\ down # <<>> /\ down' = Tail(down)
    /\ excuses' \in {excuses, excuses \cup {"crossed"}}
    /\ SessionFit(of, net') /\ net'.closed = net.closed
    /\ \/ /\ Acceptable(net.inv, Head(down)) /\ net'.inv = Applied(net.inv, Head(down))
          /\ net'.ended = None /\ render' = net'.inv
       \/ /\ ~Acceptable(net.inv, Head(down)) /\ net'.inv = net.inv /\ render' = render
          /\ net'.ended = [kind |-> Head(down).kind, id |-> Head(down).id]
LEMMA ReadFits ==
  ASSUME NEW n \in Nat, NEW of \in Labels(n), SessionFit(of, net), DownFit(of, down), IsSeq(down),
         Reads(InventoryKinds), ReadPacket
  PROVE  ReadEffect(of)
<1> DEFINE p == Head(down)
<1>1. /\ UNCHANGED <<habit, ui, mailbox, up, server>>
      /\ Running /\ down # <<>> /\ down' = Tail(down)
      /\ excuses' \in {excuses, excuses \cup {"crossed"}}
  BY DEF ReadPacket
<1>2. p.kind \in InventoryKinds /\ UpdateFit(of, p)
  <2>1. 1 \in DOMAIN down /\ p = down[1]
    BY <1>1, Popped
  <2>2. p.kind \in InventoryKinds
    BY DEF Reads
  <2> QED BY <2>1, <2>2 DEF DownFit
<1>3. net = [inv |-> net.inv, ended |-> net.ended, closed |-> net.closed] /\ CopyFit(of, net.inv)
      /\ net.ended = None
  BY <1>1 DEF SessionFit, Running
<1>4. CASE Acceptable(net.inv, p)
  <2> DEFINE new == Applied(net.inv, p)
  <2>1. net' = [net EXCEPT !.inv = new] /\ render' = net'.inv
    BY <1>4 DEF ReadPacket
  <2>2. CopyFit(of, new)
    BY <1>2, <1>3, <1>4, AppliedFits
  <2> HIDE DEF new, p
  <2>3. net' = [inv |-> new, ended |-> None, closed |-> net.closed]
    BY <1>3, <2>1
  <2>4. net'.inv = new /\ net'.ended = None /\ net'.closed = net.closed
    BY <2>3
  <2>5. SessionFit(of, net')
    BY <2>2, <2>3, <2>4 DEF SessionFit
  <2> QED BY <1>1, <1>4, <2>1, <2>4, <2>5 DEF ReadEffect, new, p
<1>5. CASE ~Acceptable(net.inv, p)
  <2> DEFINE ended == [kind |-> p.kind, id |-> p.id]
  <2>1. net' = [net EXCEPT !.ended = ended] /\ render' = render
    BY <1>5 DEF ReadPacket
  <2> HIDE DEF ended, p
  <2>2. net' = [inv |-> net.inv, ended |-> ended, closed |-> net.closed]
    BY <1>3, <2>1
  <2>3. net'.inv = net.inv /\ net'.ended = ended /\ net'.closed = net.closed
    BY <2>2
  <2>4. SessionFit(of, net')
    BY <1>3, <2>2, <2>3 DEF SessionFit
  <2> QED BY <1>1, <1>5, <2>1, <2>3, <2>4 DEF ReadEffect, ended, p
<1> QED BY <1>4, <1>5

-----------------------------------------------------------------------------
\* The server's menus: what it says fits, and which menu it says it of.

OfMenu(p) == p.kind \in {"open", "content", "slot", "close"} /\ p.id # PlayerId
Said(of, said) == UpdatesOnly(said) /\ DownFit(of, said)
OfNone(said) == \A i \in DOMAIN said : ~OfMenu(said[i])

LEMMA ShortSaid ==
  ASSUME NEW of
  PROVE  /\ Said(of, <<>>) /\ OfNone(<<>>)
         /\ \A p : p.kind \in InventoryKinds /\ UpdateFit(of, p) => Said(of, <<p>>)
         /\ \A p : ~OfMenu(p) => OfNone(<<p>>)
         /\ \A p, q : p.kind \in InventoryKinds /\ UpdateFit(of, p) /\ q.kind \in InventoryKinds
                       /\ UpdateFit(of, q) => Said(of, <<p, q>>)
<1>1. Said(of, <<>>) /\ OfNone(<<>>)
  BY Short, ShortUpdates DEF Said, OfNone, DownFit
<1>2. \A p : p.kind \in InventoryKinds /\ UpdateFit(of, p) => Said(of, <<p>>)
  <2> TAKE p
  <2> QED BY Short, ShortUpdates DEF Said, DownFit
<1>3. \A p : ~OfMenu(p) => OfNone(<<p>>)
  <2> TAKE p
  <2> QED BY Short DEF OfNone
<1>4. \A p, q : p.kind \in InventoryKinds /\ UpdateFit(of, p) /\ q.kind \in InventoryKinds
                  /\ UpdateFit(of, q) => Said(of, <<p, q>>)
  <2> TAKE p, q
  <2> QED BY Short, ShortUpdates DEF Said, DownFit
<1> QED BY <1>1, <1>2, <1>3, <1>4

LEMMA DownFitJoined ==
  ASSUME NEW of, NEW s, IsSeq(s), DownFit(of, s), NEW t, IsSeq(t), DownFit(of, t)
  PROVE  DownFit(of, s \o t)
<1>1. DOMAIN (s \o t) = 1 .. Len(s) + Len(t) /\ DOMAIN s = 1 .. Len(s) /\ DOMAIN t = 1 .. Len(t)
  BY Joined
<1>2. ASSUME NEW i \in DOMAIN (s \o t)
      PROVE  (s \o t)[i].kind \in InventoryKinds => UpdateFit(of, (s \o t)[i])
  <2>1. \/ i \in 1 .. Len(s) /\ (s \o t)[i] = s[i]
        \/ i - Len(s) \in 1 .. Len(t) /\ (s \o t)[i] = t[i - Len(s)]
    <3>1. i \in 1 .. Len(s) + Len(t)
      BY <1>1
    <3> QED BY <3>1, Joined
  <2> QED BY <1>1, <2>1 DEF DownFit
<1> QED BY <1>2 DEF DownFit

LEMMA DownFitPopped ==
  ASSUME NEW of, NEW s, IsSeq(s), s # <<>>, DownFit(of, s)
  PROVE  DownFit(of, Tail(s)) /\ (Head(s).kind \in InventoryKinds => UpdateFit(of, Head(s)))
BY Popped DEF DownFit

LEMMA UpFitPopped ==
  ASSUME NEW s, IsSeq(s), s # <<>>, UpFit(s)
  PROVE  UpFit(Tail(s)) /\ (Head(s).kind \in SentKinds => CommandFit(Head(s)))
BY Popped DEF UpFit

\* The content of a menu of the server fits.
LEMMA ContentFits ==
  ASSUME NEW n \in Nat, NEW of \in Labels(n), NEW inv, InventoryFit(inv), Labelled(of, inv),
         NEW opened, MenuServed(inv, opened)
  PROVE  /\ UpdateFit(of, Content(inv.player)) /\ ~OfMenu(Content(inv.player))
         /\ inv.open # None => UpdateFit(of, Content(inv.open)) /\ Content(inv.open).id = inv.open.id
         /\ \A c : Content(c).kind = "content"
<1> DEFINE p == Content(inv.player)
           q == Content(inv.open)
<1>1. p.kind = "content" /\ p.id = inv.player.id /\ p.state = inv.player.state
      /\ p.slots = inv.player.slots /\ p.carried = inv.player.carried
  BY DEF Content
<1>2. q.kind = "content" /\ q.id = inv.open.id /\ q.state = inv.open.state
      /\ q.slots = inv.open.slots /\ q.carried = inv.open.carried
  BY DEF Content
<1>3. \A c : Content(c).kind = "content"
  BY DEF Content
<1> HIDE DEF p, q
<1>4. UpdateFit(of, p) /\ ~OfMenu(p)
  <2>1. inv.player.id = PlayerId /\ inv.player.state \in Nat /\ inv.player.carried \in Fitting
        /\ inv.player.slots \in [PlayerSlots -> Fitting]
    BY PlayerSlotsOf DEF InventoryFit, PlayerFit
  <2>2. SlotsIn(of, PlayerId) = PlayerSlots
    BY LabelIds
  <2> QED BY <1>1, <2>1, <2>2 DEF UpdateFit, OfMenu
<1>5. ASSUME inv.open # None PROVE UpdateFit(of, q) /\ q.id = inv.open.id
  <2>1. ContainerFit(inv.open) /\ inv.open.slots # NoSlots
    BY <1>5 DEF InventoryFit, OpenFit, MenuServed
  <2>2. inv.open.id \in DOMAIN of /\ inv.open.menu = of[inv.open.id]
    BY <1>5 DEF Labelled
  <2>3. SlotsIn(of, inv.open.id) = 0 .. SizeOf(of[inv.open.id]) - 1
    BY <2>2, LabelIds
  <2>4. inv.open.slots \in [SlotsIn(of, inv.open.id) -> Fitting]
    BY <2>1, <2>2, <2>3 DEF ContainerFit, Filled
  <2>5. inv.open.state \in Nat /\ inv.open.carried \in Fitting
    BY <2>1, SlotsOf
  <2> QED BY <1>2, <2>2, <2>4, <2>5 DEF UpdateFit
<1> QED BY <1>3, <1>4, <1>5 DEF p, q

\* Another copy of the same menu.
LEMMA ServerMade ==
  ASSUME NEW of, NEW inv, InventoryFit(inv), Labelled(of, inv), NEW opened, MenuServed(inv, opened),
         NEW new, Kin(new, inv)
  PROVE  InventoryFit(new) /\ Labelled(of, new) /\ MenuServed(new, opened) /\ SameOpen(new, inv)
<1>1. SameOpen(new, inv) /\ Labelled(of, new)
  BY KinLabelled
<1>2. MenuServed(new, opened)
  BY <1>1 DEF MenuServed, SameOpen
<1> QED BY <1>1, <1>2 DEF Kin

\* The server keeps its menu and says of that menu, or of none; or it closes it and says so
\* at most of that one, first.
Goodbye(inv, first) ==
    first = <<>> \/ (inv.open # None /\ first = <<[kind |-> "close", id |-> inv.open.id]>>)
Speaks(of, new, inv) ==
    \/ /\ SameOpen(new, inv)
       /\ \E said : /\ down' = down \o said /\ Said(of, said)
                    /\ \A i \in DOMAIN said : OfMenu(said[i]) =>
                         said[i].kind \in {"content", "slot"} /\ HasOpen(inv, said[i].id)
    \/ /\ new.open = None
       /\ \E first, said : /\ down' = (down \o first) \o said /\ Said(of, said) /\ OfNone(said)
                           /\ Goodbye(inv, first)
HandledEffect(of) ==
    /\ UNCHANGED <<habit, ui, mailbox, render, net>> /\ excuses' \in SUBSET (excuses \cup Excuses)
    /\ ServerFit(of, server') /\ server'.opened = server.opened
    /\ Speaks(of, server'.inv, server.inv)

LEMMA ServerPut ==
  ASSUME NEW of, ServerFit(of, server), NEW new, NEW events,
         \/ server' = [server EXCEPT !.inv = new]
         \/ server' = [inv |-> new, opened |-> server.opened, events |-> events],
         InventoryFit(new), Labelled(of, new), MenuServed(new, server.opened)
  PROVE  ServerFit(of, server') /\ server'.inv = new /\ server'.opened = server.opened
<1>1. server = [inv |-> server.inv, opened |-> server.opened, events |-> server.events]
  BY DEF ServerFit
<1>2. PICK e \in {server.events, events} :
        server' = [inv |-> new, opened |-> server.opened, events |-> e]
  <2>1. [server EXCEPT !.inv = new] = [inv |-> new, opened |-> server.opened, events |-> server.events]
    BY <1>1
  <2> QED BY <2>1
<1>3. server'.inv = new /\ server'.opened = server.opened /\ server'.events = e
  BY <1>2
<1> QED BY <1>2, <1>3 DEF ServerFit

LEMMA StatePut ==
  ASSUME NEW c, ContainerFit(c), NEW state \in Nat
  PROVE  Alike([c EXCEPT !.state = state], c)
<1>1. c = [id |-> c.id, menu |-> c.menu, state |-> c.state, carried |-> c.carried, slots |-> c.slots]
      /\ c.carried \in Fitting /\ c.slots \in [DOMAIN c.slots -> Fitting]
  BY SlotsOf
<1>2. [c EXCEPT !.state = state]
        = [id |-> c.id, menu |-> c.menu, state |-> state, carried |-> c.carried, slots |-> c.slots]
  BY <1>1
<1> QED BY <1>1, <1>2, AlikeMade

LEMMA CountedFits ==
  ASSUME NEW inv, InventoryFit(inv)
  PROVE  Kin(Counted(inv), inv)
<1> DEFINE s == IF inv.open = None THEN inv.player.state + 1 ELSE inv.player.state
           p == [inv.player EXCEPT !.state = s]
           o == IF inv.open = None THEN None ELSE [inv.open EXCEPT !.state = inv.open.state + 1]
           d == IF inv.drag = None THEN None ELSE [inv.drag EXCEPT !.state = inv.drag.state + 1]
           a == [inv EXCEPT !.player = p]
           b == [a EXCEPT !.open = o]
           new == [b EXCEPT !.drag = d]
<1>1. Alike(p, inv.player)
  <2>1. inv.player.state \in Nat /\ ContainerFit(inv.player) /\ s \in Nat
    BY PlayerSlotsOf
  <2> HIDE DEF s
  <2> QED BY <2>1, StatePut
<1>2. /\ Kin(a, inv) /\ a.player = p /\ a.open = inv.open /\ a.drag = inv.drag
  <2> HIDE DEF p
  <2> QED BY <1>1, PlayerReplaced
<1>3. Kin(b, a) /\ b.player = p /\ b.drag = inv.drag
  <2>1. InventoryFit(a)
    BY <1>2 DEF Kin
  <2>2. CASE inv.open = None
    <3>1. b = a
      <4> HIDE DEF p
      <4> QED BY <1>2, <2>1, <2>2 DEF InventoryFit
    <3> HIDE DEF a, b
    <3>2. Undisturbed(a, a)
      BY <2>1, Kinship
    <3> QED BY <1>2, <3>1, <3>2, Kinship
  <2>3. CASE inv.open # None
    <3>1. ContainerFit(inv.open) /\ inv.open.state \in Nat
      <4>1. ContainerFit(inv.open)
        BY <2>3 DEF InventoryFit, OpenFit
      <4> QED BY <4>1, SlotsOf
    <3>2. Alike(o, inv.open)
      <4>1. o = [inv.open EXCEPT !.state = inv.open.state + 1]
        BY <2>3
      <4>2. inv.open.state + 1 \in Nat
        BY <3>1
      <4> HIDE DEF o
      <4> QED BY <3>1, <4>1, <4>2, StatePut
    <3> HIDE DEF a, o
    <3> QED BY <1>2, <2>1, <2>3, <3>2, OpenReplaced
  <2> QED BY <2>2, <2>3
<1>4. Kin(new, b)
  <2>1. InventoryFit(b)
    BY <1>3 DEF Kin
  <2>2. DragFit(b.player, b.open, d)
    <3>1. CASE inv.drag = None
      BY <3>1 DEF DragFit
    <3>2. CASE inv.drag # None
      <4>1. DragFit(b.player, b.open, inv.drag)
        <5> HIDE DEF b
        <5> QED BY <1>3, <2>1 DEF InventoryFit
      <4>2. inv.drag \in Gestures
        BY <3>2, <4>1 DEF DragFit
      <4>3. d \in Gestures /\ d.container = inv.drag.container /\ d.slots = inv.drag.slots
        BY <3>2, <4>2 DEF Gestures
      <4> HIDE DEF d, b
      <4> QED BY <3>2, <4>1, <4>3 DEF DragFit
    <3> QED BY <3>1, <3>2
  <2> HIDE DEF b, d
  <2> QED BY <2>1, <2>2, DragReplaced
<1>5. Counted(inv) = new
  <2>1. inv = [player |-> inv.player, open |-> inv.open, selected |-> inv.selected, drag |-> inv.drag]
    BY DEF InventoryFit
  <2>2. Counted(inv)
          = [[[inv EXCEPT !.player.state = IF inv.open = None THEN @ + 1 ELSE @]
              EXCEPT !.open = o] EXCEPT !.drag = d]
    BY DEF Counted
  <2>3. [inv EXCEPT !.player.state = IF inv.open = None THEN @ + 1 ELSE @] = a
    BY <2>1
  <2> HIDE DEF a, o, d
  <2> QED BY <2>2, <2>3
<1> HIDE DEF new, a, b
<1> QED BY <1>2, <1>3, <1>4, <1>5, Kinship

LEMMA SameOpenSelf == \A inv : SameOpen(inv, inv)
BY DEF SameOpen

\* Nothing is said, or the content of the menu.
LEMMA SetServerFits ==
  ASSUME NEW n \in Nat, NEW of \in Labels(n), ServerFit(of, server), IsSeq(down),
         NEW new, Kin(new, server.inv), NEW said,
         said = <<>> \/ said = <<Content(Active(new))>>, SetServer(new, said),
         UNCHANGED <<habit, ui, mailbox, render, net>>, excuses' \in SUBSET (excuses \cup Excuses)
  PROVE  HandledEffect(of)
<1>1. InventoryFit(new) /\ Labelled(of, new) /\ MenuServed(new, server.opened)
      /\ SameOpen(new, server.inv)
  BY ServerMade DEF ServerFit
<1>2. ServerFit(of, server') /\ server'.inv = new /\ server'.opened = server.opened
  BY <1>1, ServerPut DEF SetServer
<1>3. down' = down \o said
  BY DEF SetServer
<1>4. CASE said = <<>>
  <2>1. Said(of, said) /\ OfNone(said)
    BY <1>4, ShortSaid
  <2>2. \A i \in DOMAIN said : OfMenu(said[i]) =>
          said[i].kind \in {"content", "slot"} /\ HasOpen(server.inv, said[i].id)
    BY <2>1 DEF OfNone
  <2>3. Speaks(of, server'.inv, server.inv)
    BY <1>1, <1>2, <1>3, <2>1, <2>2 DEF Speaks
  <2> QED BY <1>2, <2>3 DEF HandledEffect
<1>5. CASE said = <<Content(Active(new))>>
  <2> DEFINE p == Content(Active(new))
  <2>1. UpdateFit(of, p) /\ p.kind = "content" /\ (OfMenu(p) => HasOpen(server.inv, p.id))
    <3>1. /\ UpdateFit(of, Content(new.player)) /\ ~OfMenu(Content(new.player))
          /\ new.open # None => UpdateFit(of, Content(new.open)) /\ Content(new.open).id = new.open.id
      BY <1>1, ContentFits
    <3>2. p.kind = "content"
      BY DEF Content
    <3>3. CASE new.open = None
      <4>1. Active(new) = new.player
        BY <3>3 DEF Active
      <4> QED BY <3>1, <3>2, <4>1
    <3>4. CASE new.open # None
      <4>1. Active(new) = new.open
        BY <3>4 DEF Active
      <4>2. p.id = new.open.id
        BY <3>1, <3>4, <4>1
      <4>3. HasOpen(server.inv, p.id)
        BY <1>1, <3>4, <4>2 DEF SameOpen, HasOpen
      <4> HIDE DEF p
      <4>4. UpdateFit(of, p)
        BY <3>1, <3>4, <4>1 DEF p
      <4> QED BY <3>2, <4>3, <4>4
    <3> QED BY <3>3, <3>4
  <2>2. said = <<p>>
    BY <1>5
  <2> HIDE DEF p
  <2>3. Said(of, <<p>>)
    BY <2>1, ShortSaid DEF InventoryKinds
  <2>4. \A i \in DOMAIN <<p>> : OfMenu(<<p>>[i]) =>
          <<p>>[i].kind \in {"content", "slot"} /\ HasOpen(server.inv, <<p>>[i].id)
    BY <2>1, Short
  <2>5. Speaks(of, server'.inv, server.inv)
    BY <1>1, <1>2, <1>3, <2>2, <2>3, <2>4 DEF Speaks
  <2> QED BY <1>2, <2>5 DEF HandledEffect
<1> QED BY <1>4, <1>5

LEMMA NothingHandled ==
  ASSUME NEW of, ServerFit(of, server), IsSeq(down), UNCHANGED <<server, down>>,
         UNCHANGED <<habit, ui, mailbox, render, net>>, excuses' \in SUBSET (excuses \cup Excuses)
  PROVE  HandledEffect(of)
<1>1. down' = down \o <<>> /\ Said(of, <<>>) /\ OfNone(<<>>)
  BY NothingSaid, ShortSaid
<1>2. \A i \in DOMAIN <<>> : OfMenu(<<>>[i]) =>
        <<>>[i].kind \in {"content", "slot"} /\ HasOpen(server.inv, <<>>[i].id)
  BY Short
<1>3. SameOpen(server.inv, server.inv)
  BY SameOpenSelf
<1>4. Speaks(of, server'.inv, server.inv)
  BY <1>1, <1>2, <1>3 DEF Speaks
<1> QED BY <1>4 DEF HandledEffect

LEMMA ReceiveClickFits ==
  ASSUME NEW n \in Nat, NEW of \in Labels(n), ServerFit(of, server), IsSeq(down), IsSeq(up),
         UpFit(up), excuses \subseteq Excuses, ReceiveClick
  PROVE  HandledEffect(of)
<1> DEFINE p == Head(up)
           now == [p.click EXCEPT !.state = Active(server.inv).state]
<1>1. up # <<>> /\ p.kind = "click" /\ UNCHANGED <<habit, ui, mailbox, render, net>>
  BY DEF ReceiveClick, Receive
<1>2. ClickFit(p.click)
  <2>1. CommandFit(p)
    BY <1>1, UpFitPopped DEF SentKinds, CommandKinds
  <2> QED BY <1>1, <2>1 DEF CommandFit
<1>3. excuses' \in SUBSET (excuses \cup Excuses)
  <2>1. excuses' \in {excuses, excuses \cup {"ignored"}, excuses \cup {"crossed"},
                      excuses \cup {"withheld"}}
    BY DEF ReceiveClick
  <2> QED BY <2>1 DEF Excuses
<1>4. InventoryFit(server.inv)
  BY DEF ServerFit
<1>5. ClickFit(now)
  <2>1. Active(server.inv).state \in Nat
    BY <1>4, ActiveFits
  <2> HIDE DEF p
  <2>2. now.kind = p.click.kind /\ now.button = p.click.button
        /\ now \in [container : Nat, state : Nat, kind : ClickKinds, slot : Int, button : Nat,
                    drag : {0, 1, 2}]
    BY <1>2, <2>1 DEF ClickFit
  <2> HIDE DEF now
  <2> QED BY <1>2, <2>2 DEF ClickFit
<1>6. CASE p.click.container # Active(server.inv).id
  <2>1. UNCHANGED <<server, down>>
    BY <1>6 DEF ReceiveClick
  <2> QED BY <1>1, <1>3, <2>1, NothingHandled
<1>7. CASE p.click.container = Active(server.inv).id
  <2>1. PICK after \in {server.inv, ApplyClick(server.inv, now).inv} :
          SetServer(after, <<>>) \/ SetServer(Counted(after), <<Content(Active(Counted(after)))>>)
    BY <1>7, ZenonT(60) DEF ReceiveClick
  <2>2. Kin(after, server.inv)
    <3>1. Kin(ApplyClick(server.inv, now).inv, server.inv)
      BY <1>4, <1>5, ApplyClickFits
    <3>2. Kin(server.inv, server.inv)
      BY <1>4, Kinship
    <3> QED BY <2>1, <3>1, <3>2
  <2>3. CASE SetServer(after, <<>>)
    BY <1>1, <1>3, <2>2, <2>3, SetServerFits
  <2>4. CASE SetServer(Counted(after), <<Content(Active(Counted(after)))>>)
    <3>1. Kin(Counted(after), server.inv)
      <4>1. InventoryFit(after)
        BY <2>2 DEF Kin
      <4> QED BY <2>2, <4>1, CountedFits, Kinship
    <3> QED BY <1>1, <1>3, <2>4, <3>1, SetServerFits
  <2> QED BY <2>1, <2>3, <2>4
<1> QED BY <1>6, <1>7

\* What a Creative assignment shows of the menu that is open.
LEMMA ShownFits ==
  ASSUME NEW set, InventoryFit(set), set.open # None, set.open.slots # NoSlots, NEW shown,
         shown = [set EXCEPT !.open.state = @ + 1, !.open.slots =
                   [i \in DOMAIN @ |-> IF i < TailStart(set.open) THEN @[i]
                                       ELSE set.player.slots[PlayerMain + i - TailStart(set.open)]]]
  PROVE  Kin(shown, set)
<1> DEFINE o == set.open
           first == TailStart(o)
           slots == [i \in DOMAIN o.slots |-> IF i < first THEN o.slots[i]
                                              ELSE set.player.slots[PlayerMain + i - first]]
           c == [o EXCEPT !.state = o.state + 1, !.slots = slots]
<1>1. ContainerFit(o) /\ o.menu \in Menus /\ o.state \in Nat /\ o.carried \in Fitting
      /\ o.slots \in [DOMAIN o.slots -> Fitting]
  BY SlotsOf DEF InventoryFit, OpenFit
<1>2. slots \in [DOMAIN o.slots -> Fitting]
  <2> DEFINE size == SizeOf(o.menu)
             D == DOMAIN o.slots
  <2>1. /\ size \in Nat /\ TailSize \in Nat \ {0} /\ size > TailSize /\ PlayerMain \in Nat
        /\ Offhand = PlayerMain + TailSize
    BY <1>1, Sizes
  <2>2. D = 0 .. size - 1 /\ Size(o) = size
    BY <1>1, SlotsOf
  <2>3. first = size - TailSize
    BY <1>1, <2>2 DEF TailStart, Menus
  <2>4. \A i \in D : ~(i < first) => PlayerMain + i - first \in PlayerSlots
    <3> HIDE DEF first, size, D
    <3> QED BY <2>1, <2>2, <2>3 DEF PlayerSlots
  <2>5. set.player.slots \in [PlayerSlots -> Fitting]
    BY PlayerSlotsOf
  <2> HIDE DEF first, D, size, o
  <2>6. \A i \in D : ~(i < first) => set.player.slots[PlayerMain + i - first] \in Fitting
    BY <2>4, <2>5
  <2> QED BY <1>1, <2>6 DEF D
<1>3. Alike(c, o)
  <2>1. c = [id |-> o.id, menu |-> o.menu, state |-> o.state + 1, carried |-> o.carried,
             slots |-> slots]
    <3> HIDE DEF slots, o
    <3> QED BY <1>1, Restated
  <2> HIDE DEF slots, o, c
  <2> QED BY <1>1, <1>2, <2>1, AlikeMade
<1>4. shown = [set EXCEPT !.open = c]
  <2> DEFINE a == [o EXCEPT !.state = o.state + 1]
             m == [set EXCEPT !.open = a]
  <2>1. set = [player |-> set.player, open |-> o, selected |-> set.selected, drag |-> set.drag]
    BY DEF InventoryFit
  <2>2. o = [id |-> o.id, menu |-> o.menu, state |-> o.state, carried |-> o.carried, slots |-> o.slots]
    BY <1>1, SlotsOf
  <2>3. shown = [[set EXCEPT !.open.state = @ + 1] EXCEPT !.open.slots = slots]
    OBVIOUS
  <2>4. [set EXCEPT !.open.state = @ + 1] = m
    BY <2>1
  <2>5. m.open = a /\ m = [player |-> set.player, open |-> a, selected |-> set.selected,
                           drag |-> set.drag]
    <3> HIDE DEF a, o
    <3> QED BY <2>1
  <2>6. shown = [m EXCEPT !.open.slots = slots]
    <3> HIDE DEF m, slots
    <3> QED BY <2>3, <2>4
  <2> HIDE DEF m, a, slots, o
  <2>7. shown = [player |-> set.player, open |-> [a EXCEPT !.slots = slots],
                 selected |-> set.selected, drag |-> set.drag]
    BY <2>5, <2>6
  <2>8. [a EXCEPT !.slots = slots] = c
    BY DEF a
  <2> HIDE DEF c
  <2>9. [set EXCEPT !.open = c] = [player |-> set.player, open |-> c, selected |-> set.selected,
                                    drag |-> set.drag]
    BY <2>1
  <2> QED BY <2>7, <2>8, <2>9
<1> HIDE DEF c
<1> QED BY <1>3, <1>4, OpenReplaced

\* The server closes its menu.
LEMMA ClosedSaid ==
  ASSUME NEW n \in Nat, NEW of \in Labels(n), NEW inv, InventoryFit(inv)
  PROVE  Said(of, Closed(inv).out) /\ OfNone(Closed(inv).out)
<1>1. CASE Closed(inv).out = <<>>
  BY <1>1, ShortSaid
<1>2. CASE \E slot \in PlayerSlots, state \in Nat, stack \in Fitting :
             Closed(inv).out = <<[kind |-> "slot", id |-> PlayerId, slot |-> slot,
                                  state |-> state, stack |-> stack]>>
  <2>1. PICK slot \in PlayerSlots, state \in Nat, stack \in Fitting :
             Closed(inv).out = <<[kind |-> "slot", id |-> PlayerId, slot |-> slot,
                                  state |-> state, stack |-> stack]>>
    BY <1>2
  <2> DEFINE p == [kind |-> "slot", id |-> PlayerId, slot |-> slot, state |-> state,
                   stack |-> stack]
  <2>2. p.kind = "slot" /\ p.id = PlayerId /\ p.slot = slot /\ p.state = state /\ p.stack = stack
    OBVIOUS
  <2>3. Closed(inv).out = <<p>>
    BY <2>1
  <2> HIDE DEF p
  <2>4. UpdateFit(of, p) /\ ~OfMenu(p) /\ p.kind \in InventoryKinds
    BY <2>1, <2>2, LabelIds DEF UpdateFit, OfMenu, InventoryKinds
  <2> QED BY <2>3, <2>4, ShortSaid
<1> QED BY <1>1, <1>2, ClosedFits

LEMMA ClosedSpeaks ==
  ASSUME NEW n \in Nat, NEW of \in Labels(n), NEW inv, InventoryFit(inv), NEW first, Goodbye(inv, first),
         IsSeq(down), down' = (down \o first) \o Closed(inv).out
  PROVE  Speaks(of, Closed(inv).inv, inv)
<1>1. Closed(inv).inv.open = None
  BY ClosedFits
<1>2. Said(of, Closed(inv).out) /\ OfNone(Closed(inv).out)
  BY ClosedSaid
<1> QED BY <1>1, <1>2 DEF Speaks

LEMMA ClosedServed ==
  ASSUME NEW of, NEW inv, InventoryFit(inv), NEW opened
  PROVE  InventoryFit(Closed(inv).inv) /\ Labelled(of, Closed(inv).inv)
         /\ MenuServed(Closed(inv).inv, opened) /\ Closed(inv).inv.open = None
BY ClosedFits DEF Labelled, MenuServed

LEMMA ReceiveOtherFits ==
  ASSUME NEW n \in Nat, NEW of \in Labels(n), ServerFit(of, server), IsSeq(down), IsSeq(up),
         UpFit(up), Head(up).kind \in SentKinds, ReceiveOther
  PROVE  HandledEffect(of)
<1> DEFINE p == Head(up)
<1>1. up # <<>> /\ p.kind # "click" /\ UNCHANGED <<habit, ui, mailbox, render, net>>
  BY DEF ReceiveOther, Receive
<1>2. p.kind \in {"select", "creative", "close"} /\ CommandFit(p)
  BY <1>1, UpFitPopped DEF SentKinds, CommandKinds
<1>3. InventoryFit(server.inv) /\ Labelled(of, server.inv) /\ MenuServed(server.inv, server.opened)
  BY DEF ServerFit
<1>4. excuses' \in SUBSET (excuses \cup Excuses)
  <2>1. excuses' \in {excuses, excuses \cup {"crossed"}, excuses \cup {"cursor"}}
    <3> HIDE DEF p
    <3> QED BY <1>2 DEF ReceiveOther, ExcuseCursor, p
  <2> QED BY <2>1, SMTT(30) DEF Excuses
<1>5. CASE p.kind = "select"
  <2>1. SetServer([server.inv EXCEPT !.selected = p.slot], <<>>)
    BY <1>5 DEF ReceiveOther
  <2>2. p.slot \in Selections
    BY <1>2, <1>5 DEF CommandFit
  <2>3. Kin([server.inv EXCEPT !.selected = p.slot], server.inv)
    BY <1>3, <2>2, SelectedFits
  <2> QED BY <1>1, <1>4, <2>1, <2>3, SetServerFits
<1>6. CASE p.kind = "creative"
  <2> DEFINE set == SetCreativeSlot(server.inv, p.slot, p.stack)
             shown == [set EXCEPT !.open.state = @ + 1, !.open.slots =
                        [i \in DOMAIN @ |-> IF i < TailStart(set.open) THEN @[i]
                           ELSE set.player.slots[PlayerMain + i - TailStart(set.open)]]]
  <2>1. IF set.open = None THEN SetServer(set, <<>>) ELSE SetServer(shown, <<Content(shown.open)>>)
    BY <1>6 DEF ReceiveOther
  <2>2. p.slot \in {-1} \cup PlayerSlots /\ p.stack \in Fitting
    BY <1>2, <1>6 DEF CommandFit
  <2>3. Kin(set, server.inv)
    <3>1. Undisturbed(set, server.inv)
      BY <1>3, <2>2, SetCreativeSlotFits
    <3> QED BY <3>1, Kinship
  <2>4. ASSUME set.open # None
        PROVE  Kin(shown, server.inv) /\ Active(shown) = shown.open
    <3>1. InventoryFit(set) /\ SameOpen(set, server.inv)
      BY <1>3, <2>3, KinLabelled DEF Kin
    <3>2. set.open.slots # NoSlots
      BY <1>3, <2>4, <3>1 DEF SameOpen, MenuServed
    <3> DEFINE new == shown
    <3> HIDE DEF set
    <3>3. Kin(new, set)
      BY <2>4, <3>1, <3>2, ShownFits
    <3> HIDE DEF new
    <3>4. Kin(new, server.inv) /\ new.open # None
      BY <2>3, <2>4, <3>3, Kinship DEF Kin
    <3>5. Active(new) = new.open
      BY <3>4 DEF Active
    <3> QED BY <3>4, <3>5 DEF new
  <2> HIDE DEF set, shown, p
  <2>5. CASE set.open = None
    BY <1>1, <1>4, <2>1, <2>3, <2>5, SetServerFits
  <2>6. CASE set.open # None
    <3>1. SetServer(shown, <<Content(Active(shown))>>)
      BY <2>1, <2>4, <2>6
    <3> QED BY <1>1, <1>4, <2>4, <2>6, <3>1, SetServerFits
  <2> QED BY <2>5, <2>6, SMTT(30)
<1>7. CASE p.kind = "close"
  <2>1. CASE server.inv.open = None \/ server.inv.open.id # p.id
    <3>1. UNCHANGED <<server, down>>
      BY <1>7, <2>1 DEF ReceiveOther
    <3> QED BY <1>1, <1>4, <3>1, NothingHandled
  <2>2. CASE ~(server.inv.open = None \/ server.inv.open.id # p.id)
    <3> DEFINE new == Closed(server.inv).inv
               out == Closed(server.inv).out
    <3>1. SetServer(new, out)
      BY <1>7, <2>2 DEF ReceiveOther
    <3>2. server' = [server EXCEPT !.inv = new] /\ down' = down \o out
      BY <3>1 DEF SetServer
    <3>3. down' = (down \o <<>>) \o out /\ Goodbye(server.inv, <<>>)
      BY <3>2, NothingSaid DEF Goodbye
    <3>4. Speaks(of, new, server.inv)
      BY <1>3, <3>3, ClosedSpeaks
    <3>5. InventoryFit(new) /\ Labelled(of, new) /\ MenuServed(new, server.opened)
      BY <1>3, ClosedServed
    <3> HIDE DEF new, out
    <3>6. ServerFit(of, server') /\ server'.inv = new /\ server'.opened = server.opened
      BY <3>2, <3>5, ServerPut
    <3> QED BY <1>1, <1>4, <3>4, <3>6 DEF HandledEffect
  <2> QED BY <2>1, <2>2
<1> QED BY <1>2, <1>5, <1>6, <1>7, SMTT(30)

\* The server acts by itself, and its menu stays the one it opened last.
LEMMA ByItselfPut ==
  ASSUME NEW of, ServerFit(of, server), NEW new, InventoryFit(new), Labelled(of, new),
         MenuServed(new, server.opened), NEW packets, ByItself(new, packets)
  PROVE  /\ ServerFit(of, server') /\ server'.inv = new /\ server'.opened = server.opened
         /\ down' = down \o packets /\ UNCHANGED <<habit, ui, mailbox, render, net, up>>
<1> DEFINE opened == IF new.open = None THEN server.opened ELSE new.open.id
           a == [server EXCEPT !.inv = new]
           b == [a EXCEPT !.events = @ + 1]
<1>1. server = [inv |-> server.inv, opened |-> server.opened, events |-> server.events]
  BY DEF ServerFit
<1>2. opened = server.opened
  BY DEF MenuServed
<1>3. /\ server' = [b EXCEPT !.opened = opened]
      /\ down' = down \o packets /\ UNCHANGED <<habit, ui, mailbox, render, net, up>>
  BY DEF ByItself
<1> HIDE DEF opened
<1>4. a = [inv |-> new, opened |-> server.opened, events |-> server.events]
  BY <1>1
<1> HIDE DEF a
<1>5. b = [inv |-> new, opened |-> server.opened, events |-> server.events + 1]
  BY <1>4
<1> HIDE DEF b
<1>6. server' = [inv |-> new, opened |-> server.opened, events |-> server.events + 1]
  BY <1>2, <1>3, <1>5
<1>7. ServerFit(of, server') /\ server'.inv = new /\ server'.opened = server.opened
  BY <1>6, ServerPut
<1> QED BY <1>3, <1>7

LEMMA Regrouped ==
  ASSUME NEW s, IsSeq(s), NEW t, IsSeq(t), NEW u, IsSeq(u)
  PROVE  (s \o t) \o u = s \o (t \o u)
<1> DEFINE R == Range(s) \cup Range(t) \cup Range(u)
<1>1. s \in Seq(R) /\ t \in Seq(R) /\ u \in Seq(R)
  BY DEF IsSeq
<1> HIDE DEF R
<1> QED BY <1>1, ConcatAssociative

\* The same, as a fact to be used of sequences about which much else is known.
Groups(s, t, u) == (s \o t) \o u = s \o (t \o u)
LEMMA GroupsAll == \A s, t, u : IsSeq(s) /\ IsSeq(t) /\ IsSeq(u) => Groups(s, t, u)
BY Regrouped DEF Groups

LEMMA GoodbyeSaid ==
  ASSUME NEW n \in Nat, NEW of \in Labels(n), NEW inv, Labelled(of, inv), NEW first, Goodbye(inv, first)
  PROVE  Said(of, first) /\ IsSeq(first)
<1>1. CASE first = <<>>
  BY <1>1, ShortSaid, Short
<1>2. CASE inv.open # None /\ first = <<[kind |-> "close", id |-> inv.open.id]>>
  <2> DEFINE p == [kind |-> "close", id |-> inv.open.id]
  <2>1. p.kind = "close" /\ p.id = inv.open.id
    OBVIOUS
  <2>2. first = <<p>>
    BY <1>2
  <2> HIDE DEF p
  <2>3. p.kind \in InventoryKinds /\ UpdateFit(of, p)
    BY <1>2, <2>1 DEF InventoryKinds, UpdateFit, Labelled
  <2> QED BY <2>2, <2>3, ShortSaid, Short
<1> QED BY <1>1, <1>2 DEF Goodbye

LEMMA ServerClosesFits ==
  ASSUME NEW n \in Nat, NEW of \in Labels(n), ServerFit(of, server), IsSeq(down),
         excuses \subseteq Excuses, ServerCloses
  PROVE  HandledEffect(of) /\ up' = up
<1> DEFINE new == Closed(server.inv).inv
           out == Closed(server.inv).out
           first == <<[kind |-> "close", id |-> server.inv.open.id]>>
<1>1. ByItself(new, first \o out) /\ server.inv.open # None
  BY DEF ServerCloses
<1>2. InventoryFit(server.inv) /\ Labelled(of, server.inv)
  BY DEF ServerFit
<1>3. InventoryFit(new) /\ Labelled(of, new) /\ MenuServed(new, server.opened)
  BY <1>2, ClosedServed
<1>4. Goodbye(server.inv, first)
  BY <1>1 DEF Goodbye
<1>5. IsSeq(out) /\ IsSeq(first)
  BY <1>2, <1>4, ClosedUpdate, GoodbyeSaid DEF UpdatesOnly
<1> HIDE DEF first
<1>6. excuses' \in SUBSET (excuses \cup Excuses)
  <2>1. excuses' \in {excuses, excuses \cup {"cursor"}}
    BY DEF ServerCloses, ExcuseCursor
  <2> QED BY <2>1 DEF Excuses
<1> DEFINE packets == first \o out
<1>7. packets = first \o out
  OBVIOUS
<1> HIDE DEF new, packets, out
<1>8. ServerFit(of, server') /\ server'.inv = new /\ server'.opened = server.opened
      /\ down' = down \o packets /\ UNCHANGED <<habit, ui, mailbox, render, net, up>>
  BY <1>1, <1>3, <1>7, ByItselfPut
<1>9. down' = (down \o first) \o out
  <2>1. (down \o first) \o out = down \o packets
    BY <1>5, <1>7, Regrouped
  <2> QED BY <1>8, <2>1
<1>10. Speaks(of, new, server.inv)
  BY <1>2, <1>4, <1>9, ClosedSpeaks DEF new, out
<1> QED BY <1>6, <1>8, <1>10 DEF HandledEffect

LEMMA ServerSelectsFits ==
  ASSUME NEW n \in Nat, NEW of \in Labels(n), ServerFit(of, server), IsSeq(down), ServerSelects
  PROVE  HandledEffect(of) /\ up' = up
<1>1. PICK slot \in Selections :
        ByItself([server.inv EXCEPT !.selected = slot], <<[kind |-> "held", slot |-> slot]>>)
  BY DEF ServerSelects, Selections
<1> DEFINE new == [server.inv EXCEPT !.selected = slot]
           p == [kind |-> "held", slot |-> slot]
<1>2. p.kind = "held" /\ p.slot = slot
  OBVIOUS
<1>3. InventoryFit(server.inv) /\ Labelled(of, server.inv) /\ MenuServed(server.inv, server.opened)
  BY DEF ServerFit
<1>4. Kin(new, server.inv)
  BY <1>3, SelectedFits
<1>5. ByItself(new, <<p>>)
  BY <1>1
<1> HIDE DEF new, p
<1>6. InventoryFit(new) /\ Labelled(of, new) /\ MenuServed(new, server.opened) /\ SameOpen(new, server.inv)
  BY <1>3, <1>4, ServerMade
<1>7. ServerFit(of, server') /\ server'.inv = new /\ server'.opened = server.opened
      /\ down' = down \o <<p>> /\ UNCHANGED <<habit, ui, mailbox, render, net, up>>
  BY <1>5, <1>6, ByItselfPut
<1>8. Said(of, <<p>>) /\ OfNone(<<p>>)
  BY <1>2, ShortSaid DEF InventoryKinds, UpdateFit, OfMenu
<1>9. \A i \in DOMAIN <<p>> : OfMenu(<<p>>[i]) =>
        <<p>>[i].kind \in {"content", "slot"} /\ HasOpen(server.inv, <<p>>[i].id)
  BY <1>8 DEF OfNone
<1>10. Speaks(of, server'.inv, server.inv)
  BY <1>6, <1>7, <1>8, <1>9 DEF Speaks
<1>11. excuses' \in SUBSET (excuses \cup Excuses)
  BY DEF ServerSelects
<1> QED BY <1>7, <1>10, <1>11 DEF HandledEffect

LEMMA ServerSetsFits ==
  ASSUME NEW n \in Nat, NEW of \in Labels(n), ServerFit(of, server), IsSeq(down), ServerSets
  PROVE  HandledEffect(of) /\ up' = up
<1> DEFINE c == Active(server.inv)
<1>1. PICK slot \in DOMAIN c.slots, item \in Items :
        LET stack == IF c.slots[slot] = Empty THEN Stack(item, 1) ELSE Empty
        IN ByItself(SetSlot(server.inv, c.id, c.state + 1, slot, stack),
                    <<[kind |-> "slot", id |-> c.id, state |-> c.state + 1,
                       slot |-> slot, stack |-> stack]>>)
  BY DEF ServerSets
<1> DEFINE stack == IF c.slots[slot] = Empty THEN Stack(item, 1) ELSE Empty
           new == SetSlot(server.inv, c.id, c.state + 1, slot, stack)
           p == [kind |-> "slot", id |-> c.id, state |-> c.state + 1, slot |-> slot,
                 stack |-> stack]
<1>2. p.kind = "slot" /\ p.id = c.id /\ p.state = c.state + 1 /\ p.slot = slot /\ p.stack = stack
  OBVIOUS
<1>3. InventoryFit(server.inv) /\ Labelled(of, server.inv) /\ MenuServed(server.inv, server.opened)
  BY DEF ServerFit
<1>4. stack \in Fitting
  <2>1. MaxStack[item] \in Nat \ {0}
    BY InventoryAssumption
  <2>2. Stack(item, 1) \in Fitting
    BY <2>1, StackFits
  <2> QED BY <2>2, EmptyFits
<1>5. /\ Known(server.inv, c.id) /\ Container(server.inv, c.id) = c /\ c.state \in Nat
      /\ server.inv.open = None => c.id = PlayerId
      /\ server.inv.open # None => c.id = server.inv.open.id /\ c.id # PlayerId
  BY <1>3, ActiveFits
<1>6. c.id \in {PlayerId} \cup DOMAIN of
  BY <1>3, <1>5 DEF Labelled
<1>7. slot \in SlotsIn(of, c.id)
  <2>1. c.id # PlayerId => server.inv.open.slots # NoSlots
    BY <1>3, <1>5 DEF MenuServed
  <2>2. DOMAIN Container(server.inv, c.id).slots = SlotsIn(of, c.id)
    BY <1>3, <1>5, <1>6, <2>1, SlotsKnown
  <2> QED BY <1>5, <2>2
<1>8. ByItself(new, <<p>>)
  BY <1>1
<1>9. Kin(new, server.inv)
  <2>1. c.state + 1 \in Nat /\ slot \in DOMAIN Container(server.inv, c.id).slots
    BY <1>5
  <2> HIDE DEF stack, c
  <2> QED BY <1>3, <1>4, <1>5, <2>1, SetSlotFits
<1>10. UpdateFit(of, p) /\ p.kind \in InventoryKinds
       /\ (OfMenu(p) => HasOpen(server.inv, p.id))
  <2>1. c.state + 1 \in Nat
    BY <1>5
  <2> HIDE DEF p, stack, c
  <2> QED BY <1>2, <1>4, <1>5, <1>6, <1>7, <2>1 DEF UpdateFit, InventoryKinds, OfMenu, HasOpen
<1> HIDE DEF new, p, stack, c
<1>11. InventoryFit(new) /\ Labelled(of, new) /\ MenuServed(new, server.opened) /\ SameOpen(new, server.inv)
  BY <1>3, <1>9, ServerMade
<1>12. ServerFit(of, server') /\ server'.inv = new /\ server'.opened = server.opened
       /\ down' = down \o <<p>> /\ UNCHANGED <<habit, ui, mailbox, render, net, up>>
  BY <1>8, <1>11, ByItselfPut
<1>13. Said(of, <<p>>)
  BY <1>10, ShortSaid
<1>14. \A i \in DOMAIN <<p>> : OfMenu(<<p>>[i]) =>
         <<p>>[i].kind \in {"content", "slot"} /\ HasOpen(server.inv, <<p>>[i].id)
  BY <1>2, <1>10, Short
<1>15. Speaks(of, server'.inv, server.inv)
  BY <1>11, <1>12, <1>13, <1>14 DEF Speaks
<1>16. excuses' \in SUBSET (excuses \cup Excuses)
  BY DEF ServerSets
<1> QED BY <1>12, <1>15, <1>16 DEF HandledEffect

\* A menu is opened: its id is the next, and from now on stands for it.
OpensEffect(of) ==
    /\ UNCHANGED <<habit, ui, mailbox, render, net, up>> /\ Running
    /\ excuses' \in SUBSET (excuses \cup Excuses)
    /\ server'.opened = server.opened + 1 /\ server'.inv.open # None
    /\ \E new \in Labels(server.opened + 1) :
        /\ \A i \in 1 .. server.opened : new[i] = of[i]
        /\ ServerFit(new, server')
        /\ \E first, said, open, content :
            /\ Goodbye(server.inv, first) /\ Said(of, said) /\ OfNone(said)
            /\ open.kind = "open" /\ open.id = server.opened + 1 /\ UpdateFit(new, open)
            /\ content.kind = "content" /\ content.id = server.opened + 1 /\ UpdateFit(new, content)
            /\ down' = ((down \o first) \o said) \o <<open, content>>

\* The slots of a new menu: empty, and the player's.
LEMMA NewMenuSlots ==
  ASSUME NEW inv, InventoryFit(inv), NEW menu \in Menus, NEW slots,
         slots = [i \in 0 .. SizeOf(menu) - 1 |->
                    IF i < SizeOf(menu) - TailSize THEN Empty
                    ELSE inv.player.slots[PlayerMain + i - (SizeOf(menu) - TailSize)]]
  PROVE  slots \in Filled(menu) /\ slots # NoSlots
<1> DEFINE size == SizeOf(menu)
<1>1. size \in Nat /\ TailSize \in Nat \ {0} /\ size > TailSize /\ PlayerMain \in Nat
      /\ Offhand = PlayerMain + TailSize
  <2>1. size \in Nat /\ size > TailSize
    BY Sizes
  <2>2. TailSize \in Nat \ {0} /\ GridSize \in Nat
    BY Sizes
  <2>3. PlayerMain = GridSize + 2 /\ Offhand = PlayerMain + TailSize
    BY Sizes
  <2> QED BY <2>1, <2>2, <2>3
<1>2. inv.player.slots \in [PlayerSlots -> Fitting]
  BY PlayerSlotsOf
<1>3. slots = [i \in 0 .. size - 1 |->
                 IF i < size - TailSize THEN Empty
                 ELSE inv.player.slots[PlayerMain + i - (size - TailSize)]]
  OBVIOUS
<1> HIDE DEF size
<1>4. \A i \in 0 .. size - 1 : ~(i < size - TailSize) =>
        PlayerMain + i - (size - TailSize) \in PlayerSlots
  BY <1>1 DEF PlayerSlots
<1>5. \A i \in 0 .. size - 1 : ~(i < size - TailSize) =>
        inv.player.slots[PlayerMain + i - (size - TailSize)] \in Fitting
  BY <1>2, <1>4
<1>6. slots \in [0 .. size - 1 -> Fitting]
  BY <1>3, <1>5, EmptyFits
<1>7. slots \in Filled(menu)
  BY <1>6 DEF Filled, size
<1>8. slots # NoSlots
  <2>1. 0 \in 0 .. size - 1 /\ DOMAIN slots = 0 .. size - 1
    BY <1>1, <1>6
  <2>2. DOMAIN NoSlots = {}
    BY DEF NoSlots
  <2> QED BY <2>1, <2>2
<1> QED BY <1>7, <1>8

LEMMA NewMenuFits ==
  ASSUME NEW menu \in Menus, NEW id \in Nat, NEW slots \in Filled(menu), NEW held \in Fitting, NEW c,
         c = [id |-> id, menu |-> menu, state |-> 1, slots |-> slots, carried |-> held]
  PROVE  ContainerFit(c) /\ c.id = id /\ c.menu = menu /\ c.slots = slots
<1>1. slots \in {NoSlots} \cup Filled("player") \cup Filled("chest") \cup Filled("furnace")
               \cup Filled("crafting")
  BY DEF Menus
<1>2. menu \in Menus \cup {"player"}
  OBVIOUS
<1>3. c \in Containers
  BY <1>1, <1>2 DEF Containers
<1> QED BY <1>3 DEF ContainerFit

LEMMA ServerOpensFits ==
  ASSUME server.opened \in Nat, NEW of \in Labels(server.opened), ServerFit(of, server), IsSeq(down),
         excuses \subseteq Excuses, ServerOpens
  PROVE  OpensEffect(of)
<1> DEFINE n == server.opened
           inv == Closed(server.inv).inv
           out == Closed(server.inv).out
           first == IF server.inv.open = None THEN <<>>
                    ELSE <<[kind |-> "close", id |-> server.inv.open.id]>>
<1>1. PICK menu \in Menus :
        LET size == SizeOf(menu)
            slots == [i \in 0 .. size - 1 |->
                        IF i < size - TailSize THEN Empty
                        ELSE inv.player.slots[PlayerMain + i - (size - TailSize)]]
            c == [NewContainer(n + 1, menu, slots) EXCEPT !.state = 1, !.carried = inv.player.carried]
        IN ByItself([inv EXCEPT !.open = c],
                    first \o out \o <<[kind |-> "open", id |-> n + 1, menu |-> menu], Content(c)>>)
  BY DEF ServerOpens
<1> DEFINE slots == [i \in 0 .. SizeOf(menu) - 1 |->
                      IF i < SizeOf(menu) - TailSize THEN Empty
                      ELSE inv.player.slots[PlayerMain + i - (SizeOf(menu) - TailSize)]]
           c == [NewContainer(n + 1, menu, slots) EXCEPT !.state = 1, !.carried = inv.player.carried]
           open == [kind |-> "open", id |-> n + 1, menu |-> menu]
           after == [inv EXCEPT !.open = c]
<1>2. ByItself(after, (first \o out) \o <<open, Content(c)>>)
  BY <1>1
<1>3. InventoryFit(server.inv) /\ Labelled(of, server.inv)
      /\ server = [inv |-> server.inv, opened |-> n, events |-> server.events]
  BY DEF ServerFit
<1>4. InventoryFit(inv) /\ inv.drag = None
  BY <1>3, ClosedFits
<1>5. n + 1 \in Nat /\ n + 1 # PlayerId
  BY DEF PlayerId
<1>6. ContainerFit(c) /\ c.id = n + 1 /\ c.menu = menu /\ c.slots # NoSlots
  <2> DEFINE held == inv.player.carried
             a == [NewContainer(n + 1, menu, slots) EXCEPT !.state = 1]
  <2>1. held \in Fitting
    BY <1>4, PlayerSlotsOf
  <2>2. slots \in Filled(menu) /\ slots # NoSlots
    <3> HIDE DEF inv
    <3>1. InventoryFit(inv)
      BY <1>4
    <3> QED BY <3>1, NewMenuSlots
  <2>3. c = [a EXCEPT !.carried = held]
    OBVIOUS
  <2> HIDE DEF slots, held, n
  <2>4. a = [id |-> n + 1, menu |-> menu, state |-> 1, slots |-> slots, carried |-> Empty]
    BY DEF NewContainer
  <2> HIDE DEF a, c
  <2>5. c = [id |-> n + 1, menu |-> menu, state |-> 1, slots |-> slots, carried |-> held]
    BY <2>3, <2>4
  <2>6. n + 1 \in Nat
    BY <1>5
  <2> QED BY <2>1, <2>2, <2>5, <2>6, NewMenuFits
<1>7. open.kind = "open" /\ open.id = n + 1 /\ open.menu = menu
  OBVIOUS
<1>8. Goodbye(server.inv, first)
  BY DEF Goodbye
<1>9. IsSeq(first) /\ IsSeq(out)
  BY <1>3, <1>8, GoodbyeSaid, ClosedUpdate DEF UpdatesOnly
<1>10. Said(of, out) /\ OfNone(out)
  BY <1>3, ClosedSaid
<1> HIDE DEF c, open, inv, out, first
<1>11. InventoryFit(after) /\ after.open = c /\ c # None
  BY <1>4, <1>5, <1>6, OpenedFits, NoContainer
<1> DEFINE new == [i \in 1 .. n + 1 |-> IF i = n + 1 THEN menu ELSE of[i]]
<1>12. new \in Labels(n + 1) /\ (\A i \in 1 .. n : new[i] = of[i]) /\ new[n + 1] = menu
       /\ DOMAIN new = 1 .. n + 1
  <2>1. of \in [1 .. n -> Menus]
    BY DEF Labels
  <2> HIDE DEF n
  <2>2. n \in Nat
    BY DEF n
  <2> QED BY <2>1, <2>2 DEF Labels
<1> HIDE DEF new, after
<1>13. Labelled(new, after)
  BY <1>6, <1>11, <1>12 DEF Labelled
<1>14. MenuServed(after, n + 1)
  BY <1>6, <1>11 DEF MenuServed
<1>15. UpdateFit(new, open)
  BY <1>7, <1>12 DEF UpdateFit
<1>16. UpdateFit(new, Content(c)) /\ Content(c).id = n + 1 /\ Content(c).kind = "content"
  BY <1>5, <1>6, <1>11, <1>12, <1>13, <1>14, ContentFits
<1>17. /\ server' = [inv |-> after, opened |-> n + 1, events |-> server.events + 1]
       /\ down' = down \o ((first \o out) \o <<open, Content(c)>>)
       /\ UNCHANGED <<habit, ui, mailbox, render, net, up>>
  <2> DEFINE opened == IF after.open = None THEN server.opened ELSE after.open.id
             a == [server EXCEPT !.inv = after]
             b == [a EXCEPT !.events = @ + 1]
  <2>1. opened = n + 1
    BY <1>6, <1>11
  <2>2. /\ server' = [b EXCEPT !.opened = opened]
        /\ down' = down \o ((first \o out) \o <<open, Content(c)>>)
        /\ UNCHANGED <<habit, ui, mailbox, render, net, up>>
    BY <1>2 DEF ByItself
  <2> HIDE DEF opened
  <2>3. a = [inv |-> after, opened |-> n, events |-> server.events]
    BY <1>3
  <2> HIDE DEF a
  <2>4. b = [inv |-> after, opened |-> n, events |-> server.events + 1]
    BY <2>3
  <2> HIDE DEF b
  <2> QED BY <2>1, <2>2, <2>4
<1>18. server'.inv = after /\ server'.opened = n + 1 /\ server'.events = server.events + 1
  BY <1>17
<1>19. ServerFit(new, server')
  <2>1. server' = [inv |-> server'.inv, opened |-> server'.opened, events |-> server'.events]
    BY <1>17, <1>18
  <2> QED BY <1>11, <1>13, <1>14, <1>18, <2>1 DEF ServerFit
<1>20. down' = ((down \o first) \o out) \o <<open, Content(c)>>
  <2>1. (down \o first) \o out = down \o (first \o out)
    <3>1. Groups(down, first, out)
      BY <1>9, GroupsAll, Zenon
    <3> QED BY <3>1, Zenon DEF Groups
  <2> DEFINE last == <<open, Content(c)>>
             both == first \o out
  <2>2. IsSeq(last) /\ IsSeq(both)
    BY <1>9, Short, Joined
  <2>3. down' = down \o (both \o last)
    BY <1>17, Zenon
  <2> HIDE DEF last
  <2>4. down \o (both \o last) = (down \o both) \o last
    <3> HIDE DEF both
    <3>1. Groups(down, both, last)
      BY <2>2, GroupsAll, Zenon
    <3> QED BY <3>1, Zenon DEF Groups
  <2>5. down' = ((down \o first) \o out) \o last
    BY <2>1, <2>3, <2>4
  <2> QED BY <2>5 DEF last
<1>21. excuses' \in SUBSET (excuses \cup Excuses)
  <2>1. excuses' \in {excuses, excuses \cup {"cursor"}}
    BY DEF ServerOpens, ExcuseCursor
  <2> QED BY <2>1 DEF Excuses
<1>22. Running
  BY DEF ServerOpens, Event
<1> DEFINE content == Content(c)
<1>23. content.kind = "content" /\ content.id = n + 1 /\ UpdateFit(new, content)
       /\ down' = ((down \o first) \o out) \o <<open, content>>
  BY <1>16, <1>20
<1> HIDE DEF content
<1>24. \E hello, said, opening, told :
         /\ Goodbye(server.inv, hello) /\ Said(of, said) /\ OfNone(said)
         /\ opening.kind = "open" /\ opening.id = n + 1 /\ UpdateFit(new, opening)
         /\ told.kind = "content" /\ told.id = n + 1 /\ UpdateFit(new, told)
         /\ down' = ((down \o hello) \o said) \o <<opening, told>>
  BY <1>7, <1>8, <1>10, <1>15, <1>23
<1>25. server'.opened = n + 1 /\ server'.inv.open # None
  BY <1>11, <1>18
<1> QED BY <1>12, <1>17, <1>19, <1>21, <1>22, <1>24, <1>25 DEF OpensEffect

-----------------------------------------------------------------------------
\* The rest of the session leaves the inventories alone: what it reads and says is not
\* of them.

Worldly(s) == IsSeq(s) /\ \A i \in DOMAIN s : s[i].kind \notin InventoryKinds \cup SentKinds
Reasons == {"entities", "chunks", "lifecycle", "baseline", "stale"}
EndsBy(reason) == net' = [net EXCEPT !.ended = [kind |-> reason, id |-> 0]]
ClientStep ==
    /\ UNCHANGED <<habit, mailbox, render, server, excuses>>
    /\ ui' = ui \/ ui' = [ui EXCEPT !.inputs = @ + 1]
    /\ net' = net \/ \E reason \in Reasons : EndsBy(reason)
    /\ \E out : Worldly(out) /\ up' = up \o out
    /\ down' = down \/ (down # <<>> /\ down' = Tail(down) /\ Head(down).kind \notin InventoryKinds)

LEMMA ShortWorldly ==
  /\ Worldly(<<>>)
  /\ \A p : p.kind \notin InventoryKinds \cup SentKinds => Worldly(<<p>>)
  /\ \A p, q : p.kind \notin InventoryKinds \cup SentKinds /\ q.kind \notin InventoryKinds \cup SentKinds
                => Worldly(<<p, q>>)
<1>1. Worldly(<<>>)
  BY Short DEF Worldly
<1>2. ASSUME NEW p, p.kind \notin InventoryKinds \cup SentKinds PROVE Worldly(<<p>>)
  BY <1>2, Short DEF Worldly
<1>3. ASSUME NEW p, NEW q, p.kind \notin InventoryKinds \cup SentKinds,
             q.kind \notin InventoryKinds \cup SentKinds
      PROVE  Worldly(<<p, q>>)
  BY <1>3, Short DEF Worldly
<1> QED BY <1>1, <1>2, <1>3

LEMMA WorldlyJoined ==
  ASSUME NEW s, Worldly(s), NEW t, Worldly(t)
  PROVE  Worldly(s \o t)
<1>1. IsSeq(s) /\ IsSeq(t)
  BY DEF Worldly
<1>2. IsSeq(s \o t) /\ DOMAIN (s \o t) = 1 .. Len(s) + Len(t) /\ DOMAIN s = 1 .. Len(s)
      /\ DOMAIN t = 1 .. Len(t)
  BY <1>1, Joined
<1>3. ASSUME NEW i \in DOMAIN (s \o t) PROVE (s \o t)[i].kind \notin InventoryKinds \cup SentKinds
  <2>1. \/ i \in 1 .. Len(s) /\ (s \o t)[i] = s[i]
        \/ i - Len(s) \in 1 .. Len(t) /\ (s \o t)[i] = t[i - Len(s)]
    <3>1. i \in 1 .. Len(s) + Len(t)
      BY <1>2
    <3> QED BY <1>1, <3>1, Joined
  <2> QED BY <1>2, <2>1 DEF Worldly
<1> QED BY <1>2, <1>3 DEF Worldly

LEMMA WorldlyFits ==
  ASSUME NEW of, NEW s, Worldly(s)
  PROVE  IsSeq(s) /\ UpFit(s) /\ DownFit(of, s) /\ OfNone(s)
<1>1. \A i \in DOMAIN s : s[i].kind \notin InventoryKinds /\ s[i].kind \notin SentKinds
  BY DEF Worldly
<1>2. \A i \in DOMAIN s : ~OfMenu(s[i])
  BY <1>1 DEF OfMenu, InventoryKinds
<1> QED BY <1>1, <1>2 DEF Worldly, UpFit, DownFit, OfNone

LEMMA FrameTaken ==
  ASSUME IsSeq(up), Took, down # <<>>, Frame.kind \notin InventoryKinds,
         net' = net \/ \E reason \in Reasons : EndsBy(reason),
         NEW out, Worldly(out), Answer(out)
  PROVE  ClientStep
BY DEF Took, WithoutInventory, Answer, Frame, ClientStep

LEMMA WorldClientStep ==
  ASSUME IsSeq(up), WorldClient
  PROVE  ClientStep
<1> DEFINE Lasts == net' = net \/ \E reason \in Reasons : EndsBy(reason)
<1>1. ASSUME NEW w, NEW t, Goes(w, t) PROVE Lasts
  BY <1>1 DEF Goes
<1>2. ASSUME NEW reason \in Reasons, Ends(reason) PROVE Lasts
  BY <1>2 DEF Ends, EndsBy
<1>3. "entities" \in Reasons /\ "chunks" \in Reasons /\ "lifecycle" \in Reasons /\ "baseline" \in Reasons
  BY DEF Reasons
<1>4. \A p : Refusal(p) # "none" => Refusal(p) \in Reasons
  BY DEF Refusal, Reasons
<1> DEFINE Went == \E w, t : Goes(w, t)
           Ended == \E reason \in Reasons : Ends(reason)
<1>5. Went \/ Ended => Lasts
  BY <1>1, <1>2
<1> HIDE DEF Lasts
<1>6. CASE ReadEntity
  <2>1. Frame.kind \in EntityKinds /\ down # <<>> /\ Answer(<<>>) /\ Took
    BY <1>6 DEF ReadEntity, Reads, Frame
  <2>2. Went \/ Ended
    BY <1>3, <1>6, ZenonT(60) DEF ReadEntity
  <2>3. Frame.kind \notin InventoryKinds
    BY <2>1 DEF EntityKinds, InventoryKinds
  <2> QED BY <1>5, <2>1, <2>2, <2>3, ShortWorldly, FrameTaken DEF Lasts
<1>7. CASE ReadChunk
  <2>1. Frame.kind = "chunk" /\ down # <<>> /\ Answer(<<>>) /\ Took /\ Went
    BY <1>7 DEF ReadChunk, Reads, Frame
  <2>2. Frame.kind \notin InventoryKinds
    BY <2>1 DEF InventoryKinds
  <2> QED BY <1>5, <2>1, <2>2, ShortWorldly, FrameTaken DEF Lasts
<1>8. CASE FinishDecode
  <2>1. Went \/ Ended
    BY <1>3, <1>8, ZenonT(60) DEF FinishDecode
  <2>2. UNCHANGED <<ui, up, down>> /\ WithoutInventory
    BY <1>8 DEF FinishDecode
  <2>3. up' = up \o <<>>
    BY <2>2, NothingSaid
  <2> QED BY <1>5, <2>1, <2>2, <2>3, ShortWorldly DEF WithoutInventory, ClientStep, Lasts
<1>9. CASE ReadChunkUpdate
  <2>1. Frame.kind \in {"forget", "update"} /\ down # <<>> /\ Answer(<<>>) /\ Took
    BY <1>9 DEF ReadChunkUpdate, Reads, Frame
  <2>2. Went \/ Ended
    <3>1. CASE ~world.active
      BY <1>3, <1>9, <3>1 DEF ReadChunkUpdate
    <3>2. CASE world.active /\ Frame.kind = "forget"
      BY <1>9, <3>2 DEF ReadChunkUpdate
    <3>3. CASE world.active /\ Frame.kind = "update"
      BY <1>9, <3>3 DEF ReadChunkUpdate
    <3> QED BY <2>1, <3>1, <3>2, <3>3
  <2>3. Frame.kind \notin InventoryKinds
    BY <2>1 DEF InventoryKinds
  <2> QED BY <1>5, <2>1, <2>2, <2>3, ShortWorldly, FrameTaken DEF Lasts
<1>10. CASE ReadSetting
  <2>1. Frame.kind \in {"rain", "mode"} /\ down # <<>> /\ Answer(<<>>) /\ Took
    BY <1>10 DEF ReadSetting, Reads, Frame
  <2>2. Went \/ Ended
    BY <1>3, <1>10, ZenonT(60) DEF ReadSetting
  <2>3. Frame.kind \notin InventoryKinds
    BY <2>1 DEF InventoryKinds
  <2> QED BY <1>5, <2>1, <2>2, <2>3, ShortWorldly, FrameTaken DEF Lasts
<1>11. CASE ReadRespawn
  <2>1. Frame.kind = "respawn" /\ down # <<>> /\ Answer(<<>>) /\ Took
    BY <1>11 DEF ReadRespawn, Reads, Frame
  <2>2. Went \/ Ended
    BY <1>3, <1>11, ZenonT(60) DEF ReadRespawn
  <2>3. Frame.kind \notin InventoryKinds
    BY <2>1 DEF InventoryKinds
  <2> QED BY <1>5, <2>1, <2>2, <2>3, ShortWorldly, FrameTaken DEF Lasts
<1>12. CASE ReadPosition
  <2>1. Frame.kind = "position" /\ down # <<>> /\ Took
    BY <1>12 DEF ReadPosition, Reads, Frame
  <2>2. Frame.kind \notin InventoryKinds
    BY <2>1 DEF InventoryKinds
  <2>3. CASE Refusal(Frame) # "none"
    <3>1. Ends(Refusal(Frame)) /\ Answer(<<>>)
      BY <1>12, <2>3 DEF ReadPosition
    <3>2. Lasts
      BY <1>4, <1>5, <2>3, <3>1
    <3> QED BY <2>1, <2>2, <3>1, <3>2, ShortWorldly, FrameTaken DEF Lasts
  <2>4. CASE Refusal(Frame) = "none"
    <3> DEFINE p == [kind |-> "confirm", id |-> Frame.id]
    <3>1. Went /\ Answer(Confirmation(Frame))
      BY <1>12, <2>4 DEF ReadPosition
    <3>2. Confirmation(Frame) = <<p>>
      BY DEF Confirmation
    <3>3. p.kind \notin InventoryKinds \cup SentKinds
      BY DEF InventoryKinds, SentKinds, CommandKinds
    <3> HIDE DEF p
    <3> QED BY <1>5, <2>1, <2>2, <3>1, <3>2, <3>3, ShortWorldly, FrameTaken DEF Lasts
  <2> QED BY <2>3, <2>4
<1>13. CASE ReadRotation
  <2>1. Frame.kind = "rotation" /\ down # <<>> /\ Answer(<<>>) /\ Took
    BY <1>13 DEF ReadRotation, Reads, Frame
  <2>2. Went \/ Ended
    BY <1>3, <1>13, ZenonT(60) DEF ReadRotation
  <2>3. Frame.kind \notin InventoryKinds
    BY <2>1 DEF InventoryKinds
  <2> QED BY <1>5, <2>1, <2>2, <2>3, ShortWorldly, FrameTaken DEF Lasts
<1>14. CASE ReadKeepAlive
  <2>1. Frame.kind = "keep_alive" /\ down # <<>> /\ Went /\ Answer(<<Frame>>) /\ Took
    BY <1>14 DEF ReadKeepAlive, Reads, Frame
  <2>2. Frame.kind \notin InventoryKinds /\ Frame.kind \notin InventoryKinds \cup SentKinds
    BY <2>1 DEF InventoryKinds, SentKinds, CommandKinds
  <2> QED BY <1>5, <2>1, <2>2, ShortWorldly, FrameTaken DEF Lasts
<1>15. CASE ReadBatchFinished
  <2> DEFINE p == [kind |-> "batch_received"]
             q == [kind |-> "player_loaded"]
             last == IF task.loaded THEN <<>> ELSE <<q>>
  <2>1. Frame.kind = "batch_finished" /\ down # <<>> /\ Went /\ Answer(<<p>> \o last) /\ Took
    BY <1>15 DEF ReadBatchFinished, Reads, Frame
  <2>2. Frame.kind \notin InventoryKinds
    BY <2>1 DEF InventoryKinds
  <2>3. p.kind \notin InventoryKinds \cup SentKinds /\ q.kind \notin InventoryKinds \cup SentKinds
    BY DEF InventoryKinds, SentKinds, CommandKinds
  <2> HIDE DEF p, q
  <2>4. Worldly(<<p>>) /\ Worldly(last)
    BY <2>3, ShortWorldly
  <2> HIDE DEF last
  <2>5. Worldly(<<p>> \o last)
    BY <2>4, WorldlyJoined
  <2> QED BY <1>5, <2>1, <2>2, <2>5, FrameTaken DEF Lasts
<1>16. CASE ReadHealth
  <2> DEFINE p == [kind |-> "perform_respawn"]
  <2>1. Frame.kind = "health" /\ down # <<>> /\ Took
    BY <1>16 DEF ReadHealth, Reads, Frame
  <2>2. Went /\ (Answer(<<>>) \/ Answer(<<p>>))
    BY <1>16 DEF ReadHealth
  <2>3. Frame.kind \notin InventoryKinds
    BY <2>1 DEF InventoryKinds
  <2>4. p.kind \notin InventoryKinds \cup SentKinds
    BY DEF InventoryKinds, SentKinds, CommandKinds
  <2> HIDE DEF p
  <2> QED BY <1>5, <2>1, <2>2, <2>3, <2>4, ShortWorldly, FrameTaken DEF Lasts
<1>17. CASE ReadStartConfiguration
  <2> DEFINE p == [kind |-> "configuration_acknowledged"]
  <2>1. Frame.kind = "start_configuration" /\ down # <<>> /\ Took /\ Went /\ Answer(<<p>>)
    BY <1>17 DEF ReadStartConfiguration, Reads, Frame
  <2>2. Frame.kind \notin InventoryKinds
    BY <2>1 DEF InventoryKinds
  <2>3. p.kind \notin InventoryKinds \cup SentKinds
    BY DEF InventoryKinds, SentKinds, CommandKinds
  <2> HIDE DEF p
  <2> QED BY <1>5, <2>1, <2>2, <2>3, ShortWorldly, FrameTaken DEF Lasts
<1>18. CASE FinishConfiguration
  <2>1. Frame.kind = "login" /\ down # <<>> /\ Took /\ Went /\ Answer(<<>>)
    BY <1>18 DEF FinishConfiguration, Frame
  <2>2. Frame.kind \notin InventoryKinds
    BY <2>1 DEF InventoryKinds
  <2> QED BY <1>5, <2>1, <2>2, ShortWorldly, FrameTaken DEF Lasts
<1>19. CASE Walk \/ ForcedPosition
  <2> DEFINE P(x) == [kind |-> "move", x |-> x, after |-> task.sim.after]
  <2>1. \E x : Went /\ Answer(<<P(x)>>)
    BY <1>19 DEF Walk, ForcedPosition
  <2>2. /\ ui' = ui \/ ui' = [ui EXCEPT !.inputs = @ + 1]
        /\ UNCHANGED down /\ WithoutInventory
    BY <1>19 DEF Walk, ForcedPosition
  <2>3. PICK x : Went /\ Answer(<<P(x)>>)
    BY <2>1
  <2>4. P(x).kind \notin InventoryKinds \cup SentKinds
    BY DEF InventoryKinds, SentKinds, CommandKinds
  <2> HIDE DEF P
  <2>5. Worldly(<<P(x)>>) /\ up' = up \o <<P(x)>> /\ Lasts
    BY <1>5, <2>3, <2>4, ShortWorldly DEF Answer
  <2> QED BY <2>2, <2>5 DEF WithoutInventory, ClientStep, Lasts
<1> QED
  BY <1>6, <1>7, <1>8, <1>9, <1>10, <1>11, <1>12, <1>13, <1>14, <1>15, <1>16, <1>17, <1>18, <1>19
     DEF WorldClient

\* The server's world is none of the inventories either, but for a reconfiguration, which
\* closes its menu, and the login after it, which tells the player's slots.
WorldEffect(of) ==
    /\ UNCHANGED <<habit, mailbox, render>> /\ OverlayFit(of, ui') /\ ui'.inv = ui.inv
    /\ SessionFit(of, net') /\ net'.inv = net.inv /\ net'.closed = net.closed
    /\ net'.ended = net.ended \/ \E reason \in Reasons : net'.ended = [kind |-> reason, id |-> 0]
    /\ UpFit(up') /\ excuses' \in SUBSET (excuses \cup Excuses)
    /\ ServerFit(of, server') /\ server'.opened = server.opened
    /\ server'.inv = server.inv \/ server'.inv.open = None
    /\ \/ down # <<>> /\ down' = Tail(down) /\ ~OfMenu(Head(down))
       \/ \E said : down' = down \o said /\ IsSeq(said) /\ DownFit(of, said) /\ OfNone(said)

LEMMA WorldClientFits ==
  ASSUME NEW of, AllFit(of), IsSeq(up), IsSeq(down), WorldClient
  PROVE  WorldEffect(of)
<1>1. ClientStep
  BY WorldClientStep
<1>2. UNCHANGED <<habit, mailbox, render, server, excuses>>
  BY <1>1 DEF ClientStep
<1>3. OverlayFit(of, ui') /\ ui'.inv = ui.inv
  <2>1. OverlayFit(of, ui)
    BY DEF AllFit
  <2>2. CASE ui' = ui
    BY <2>1, <2>2
  <2>3. CASE ui' = [ui EXCEPT !.inputs = @ + 1]
    <3>1. ui = [inv |-> ui.inv, visible |-> ui.visible, drag |-> ui.drag, inputs |-> ui.inputs]
          /\ CopyFit(of, ui.inv) /\ (ui.drag # None => ui.drag \in Drags)
      BY <2>1 DEF OverlayFit
    <3>2. ui' = [inv |-> ui.inv, visible |-> ui.visible, drag |-> ui.drag, inputs |-> ui.inputs + 1]
      BY <2>3, <3>1
    <3> QED BY <3>1, <3>2, OverlayMade
  <2> QED BY <1>1, <2>2, <2>3 DEF ClientStep
<1>4. /\ SessionFit(of, net') /\ net'.inv = net.inv /\ net'.closed = net.closed
      /\ net'.ended = net.ended \/ \E reason \in Reasons : net'.ended = [kind |-> reason, id |-> 0]
  <2>1. SessionFit(of, net)
    BY DEF AllFit
  <2>2. CASE net' = net
    BY <2>1, <2>2
  <2>3. ASSUME NEW reason \in Reasons, EndsBy(reason)
        PROVE  SessionFit(of, net') /\ net'.inv = net.inv /\ net'.closed = net.closed
               /\ net'.ended = [kind |-> reason, id |-> 0]
    <3> DEFINE e == [kind |-> reason, id |-> 0]
    <3>1. net = [inv |-> net.inv, ended |-> net.ended, closed |-> net.closed] /\ CopyFit(of, net.inv)
      BY <2>1 DEF SessionFit
    <3>2. net' = [net EXCEPT !.ended = e]
      BY <2>3 DEF EndsBy
    <3> HIDE DEF e
    <3>3. net' = [inv |-> net.inv, ended |-> e, closed |-> net.closed]
      BY <3>1, <3>2
    <3> QED BY <3>1, <3>3 DEF SessionFit, e
  <2> QED BY <1>1, <2>2, <2>3 DEF ClientStep
<1>5. UpFit(up')
  <2>1. PICK out : Worldly(out) /\ up' = up \o out
    BY <1>1 DEF ClientStep
  <2> QED BY <2>1, WorldlyFits, UpFitJoined DEF AllFit
<1>6. \/ down # <<>> /\ down' = Tail(down) /\ ~OfMenu(Head(down))
      \/ \E said : down' = down \o said /\ IsSeq(said) /\ DownFit(of, said) /\ OfNone(said)
  <2>1. CASE down' = down
    <3>1. down' = down \o <<>> /\ Worldly(<<>>)
      BY <2>1, NothingSaid, ShortWorldly
    <3> QED BY <3>1, WorldlyFits
  <2>2. CASE down # <<>> /\ down' = Tail(down) /\ Head(down).kind \notin InventoryKinds
    BY <2>2 DEF InventoryKinds, OfMenu
  <2> QED BY <1>1, <2>1, <2>2 DEF ClientStep
<1>7. ServerFit(of, server') /\ server'.opened = server.opened /\ server'.inv = server.inv
      /\ excuses' \in SUBSET (excuses \cup Excuses)
  BY <1>2 DEF AllFit
<1> QED BY <1>2, <1>3, <1>4, <1>5, <1>6, <1>7 DEF WorldEffect

\* A step of the server that only says what is not of the inventories.
LEMMA ServerSpeaksFits ==
  ASSUME NEW of, AllFit(of), IsSeq(down), UNCHANGED <<habit, ui, mailbox, render, net>>,
         UpFit(up'), ServerFit(of, server'), server'.opened = server.opened,
         server'.inv = server.inv \/ server'.inv.open = None,
         excuses' \in SUBSET (excuses \cup Excuses),
         NEW said, down' = down \o said, IsSeq(said), DownFit(of, said), OfNone(said)
  PROVE  WorldEffect(of)
BY DEF WorldEffect, AllFit

LEMMA DoesFits ==
  ASSUME NEW of, AllFit(of), IsSeq(down), NEW w, NEW packets, Does(w, packets), Worldly(packets)
  PROVE  WorldEffect(of)
<1>1. /\ server' = [server EXCEPT !.events = @ + 1] /\ down' = down \o packets
      /\ UNCHANGED <<habit, ui, mailbox, render, net, up, excuses>>
  BY DEF Does
<1>2. ServerFit(of, server') /\ server'.opened = server.opened /\ server'.inv = server.inv
  <2>1. server = [inv |-> server.inv, opened |-> server.opened, events |-> server.events]
        /\ InventoryFit(server.inv) /\ Labelled(of, server.inv)
        /\ MenuServed(server.inv, server.opened)
    BY DEF AllFit, ServerFit
  <2>2. server' = [inv |-> server.inv, opened |-> server.opened, events |-> server.events + 1]
    BY <1>1, <2>1
  <2> QED BY <2>1, <2>2 DEF ServerFit
<1>3. UpFit(up')
  BY <1>1 DEF AllFit
<1>4. IsSeq(packets) /\ DownFit(of, packets) /\ OfNone(packets)
  BY WorldlyFits
<1> QED BY <1>1, <1>2, <1>3, <1>4, ServerSpeaksFits

LEMMA PlayingSteps ==
  ASSUME \/ ServerSpawns \/ ServerMovesEntity \/ ServerRemoves \/ ServerPushes \/ ServerSendsChunk
         \/ ServerForgets \/ ServerUpdates \/ ServerSetsWorld \/ ServerTurns \/ ServerKills
         \/ ServerAsks
  PROVE  \E w, packets : Does(w, packets) /\ Worldly(packets)
<1> DEFINE Mute(p) == p.kind \notin InventoryKinds \cup SentKinds
           Done == \E w, packets : Does(w, packets) /\ Worldly(packets)
<1>1. ASSUME NEW w, NEW p, Mute(p), Does(w, <<p>>) PROVE Done
  BY <1>1, ShortWorldly
<1>2. ASSUME NEW w, NEW p, NEW q, Mute(p), Mute(q), Does(w, <<p, q>>)
      PROVE  Done
  BY <1>2, ShortWorldly
<1>3. ASSUME NEW p, NEW id, NEW e, Mute(p), Tell(p, id, e)
      PROVE  Done
  BY <1>3, <1>1 DEF Tell
<1> SUFFICES Done
  OBVIOUS
<1> HIDE DEF Done
<1>4. \A p : p.kind \in {"spawn", "move", "sync", "data", "velocity", "remove", "chunk",
                        "batch_finished", "forget", "update", "rain", "mode", "rotation",
                        "health", "keep_alive"} => Mute(p)
  BY DEF InventoryKinds, SentKinds, CommandKinds
<1> HIDE DEF Mute
<1>5. CASE ServerSpawns
  <2>1. PICK id : Tell([kind |-> "spawn", id |-> id, entity |-> NewEntity], id, NewEntity)
    BY <1>5 DEF ServerSpawns
  <2>2. [kind |-> "spawn", id |-> id, entity |-> NewEntity].kind = "spawn"
    OBVIOUS
  <2> QED BY <1>3, <1>4, <2>1, <2>2
<1>6. CASE ServerMovesEntity
  <2> DEFINE M(id, delta) == [kind |-> "move", id |-> id, delta |-> delta]
             S(id) == [kind |-> "sync", id |-> id, x |-> Line]
             D(id) == [kind |-> "data", id |-> id, data |-> 1]
             V(id) == [kind |-> "velocity", id |-> id, v |-> 1]
  <2>1. \E id, e, delta : \/ Tell(M(id, delta), id, e) \/ Tell(S(id), id, e)
                          \/ Tell(D(id), id, e) \/ Tell(V(id), id, e)
    BY <1>6, ZenonT(60) DEF ServerMovesEntity
  <2>2. \A id, delta : M(id, delta).kind = "move" /\ S(id).kind = "sync" /\ D(id).kind = "data"
                       /\ V(id).kind = "velocity"
    OBVIOUS
  <2> HIDE DEF M, S, D, V
  <2>3. PICK id, e, delta : \/ Tell(M(id, delta), id, e) \/ Tell(S(id), id, e)
                            \/ Tell(D(id), id, e) \/ Tell(V(id), id, e)
    BY <2>1
  <2> QED BY <1>3, <1>4, <2>2, <2>3
<1>7. CASE ServerRemoves
  <2> DEFINE P(ids) == [kind |-> "remove", ids |-> ids]
  <2>1. PICK w, ids : Does(w, <<P(ids)>>)
    BY <1>7 DEF ServerRemoves
  <2>2. P(ids).kind = "remove"
    OBVIOUS
  <2> HIDE DEF P
  <2> QED BY <1>1, <1>4, <2>1, <2>2
<1>8. CASE ServerPushes
  <2> DEFINE p == [kind |-> "velocity", id |-> wserver.own, v |-> 1]
  <2>1. Does([wserver EXCEPT !.v = 1], <<p>>) /\ p.kind = "velocity"
    BY <1>8 DEF ServerPushes
  <2> HIDE DEF p
  <2> QED BY <1>1, <1>4, <2>1
<1>9. CASE ServerSendsChunk
  <2> DEFINE P(c, chunk) == [kind |-> "chunk", at |-> c, chunk |-> chunk]
             q == [kind |-> "batch_finished"]
  <2>1. \E w, c, chunk : Does(w, <<P(c, chunk), q>>)
    <3>1. PICK c \in Coordinates, value \in {0, 1} :
            LET chunk == [stay |-> wserver.stay, data |-> [f \in Fields |-> value]]
            IN Does([wserver EXCEPT !.chunks[c] = chunk, !.batches = 1], <<P(c, chunk), q>>)
      BY <1>9 DEF ServerSendsChunk
    <3> QED BY <3>1
  <2>2. \A c, chunk : P(c, chunk).kind = "chunk" /\ q.kind = "batch_finished"
    OBVIOUS
  <2> HIDE DEF P, q
  <2>3. PICK w, c, chunk : Does(w, <<P(c, chunk), q>>)
    BY <2>1
  <2> QED BY <1>2, <1>4, <2>2, <2>3
<1>10. CASE ServerForgets
  <2> DEFINE P(c) == [kind |-> "forget", at |-> c]
  <2>1. PICK c : Does([wserver EXCEPT !.chunks[c] = None], <<P(c)>>)
    BY <1>10 DEF ServerForgets
  <2>2. P(c).kind = "forget"
    OBVIOUS
  <2> HIDE DEF P
  <2> QED BY <1>1, <1>4, <2>1, <2>2
<1>11. CASE ServerUpdates
  <2> DEFINE P(c, f, value) == [kind |-> "update", at |-> c, field |-> f, value |-> value]
  <2>1. \E w, c, f, value : Does(w, <<P(c, f, value)>>)
    <3>1. PICK c \in Coordinates, f \in Fields :
            LET value == 1 - wserver.chunks[c].data[f]
            IN Does([wserver EXCEPT !.chunks[c].data[f] = value], <<P(c, f, value)>>)
      BY <1>11 DEF ServerUpdates
    <3> QED BY <3>1
  <2>2. \A c, f, value : P(c, f, value).kind = "update"
    OBVIOUS
  <2> HIDE DEF P
  <2>3. PICK w, c, f, value : Does(w, <<P(c, f, value)>>)
    BY <2>1
  <2> QED BY <1>1, <1>4, <2>2, <2>3
<1>12. CASE ServerSetsWorld
  <2> DEFINE p == [kind |-> "rain", rain |-> ~wserver.rain]
             q == [kind |-> "mode", mode |-> 1 - wserver.mode]
  <2>1. \E w : Does(w, <<p>>) \/ Does(w, <<q>>)
    BY <1>12 DEF ServerSetsWorld
  <2>2. p.kind = "rain" /\ q.kind = "mode"
    OBVIOUS
  <2> HIDE DEF p, q
  <2> QED BY <1>1, <1>4, <2>1, <2>2
<1>13. CASE ServerTurns
  <2> DEFINE p == [kind |-> "rotation", turns |-> TRUE]
  <2>1. Does(wserver, <<p>>) /\ p.kind = "rotation"
    BY <1>13 DEF ServerTurns
  <2> HIDE DEF p
  <2> QED BY <1>1, <1>4, <2>1
<1>14. CASE ServerKills
  <2> DEFINE p == [kind |-> "health"]
  <2>1. Does([wserver EXCEPT !.alive = FALSE], <<p>>) /\ p.kind = "health"
    BY <1>14 DEF ServerKills
  <2> HIDE DEF p
  <2> QED BY <1>1, <1>4, <2>1
<1>15. CASE ServerAsks
  <2> DEFINE p == [kind |-> "keep_alive", id |-> server.events]
  <2>1. \E w : Does(w, <<p>>)
    BY <1>15 DEF ServerAsks
  <2>2. p.kind = "keep_alive"
    OBVIOUS
  <2> HIDE DEF p
  <2> QED BY <1>1, <1>4, <2>1, <2>2
<1> QED BY <1>5, <1>6, <1>7, <1>8, <1>9, <1>10, <1>11, <1>12, <1>13, <1>14, <1>15

LEMMA RespawnWorldly ==
  ASSUME NEW w, NEW keep
  PROVE  Worldly(RespawnPackets(w, keep))
<1> DEFINE p == [kind |-> "respawn", dim |-> w.dim, mode |-> w.mode, keep |-> keep, stay |-> w.stay]
           q == PositionPacket(w, w.x, FALSE, TRUE)
           r == [kind |-> "rain", rain |-> TRUE]
<1>1. p.kind = "respawn" /\ q.kind = "position" /\ r.kind = "rain"
  BY DEF PositionPacket
<1>2. RespawnPackets(w, keep) = <<p, q>> \o Told(w.rain) /\ Told(w.rain) \in {<<r>>, <<>>}
  BY DEF RespawnPackets, Told
<1> HIDE DEF p, q, r
<1>3. \A k \in {"respawn", "position", "rain"} : k \notin InventoryKinds \cup SentKinds
  BY DEF InventoryKinds, SentKinds, CommandKinds
<1>4. Worldly(<<p, q>>) /\ Worldly(<<r>>) /\ Worldly(<<>>)
  <2>1. /\ p.kind \notin InventoryKinds \cup SentKinds
        /\ q.kind \notin InventoryKinds \cup SentKinds
        /\ r.kind \notin InventoryKinds \cup SentKinds
    BY <1>1, <1>3
  <2> QED BY <2>1, ShortWorldly
<1> QED BY <1>2, <1>4, WorldlyJoined

LEMMA PlacingSteps ==
  ASSUME ServerTeleports \/ ServerRepeats \/ ServerRespawns
  PROVE  \E w, packets : Does(w, packets) /\ Worldly(packets)
<1>1. \A w, x, relative, turns : Worldly(<<PositionPacket(w, x, relative, turns)>>)
  <2> TAKE w, x, relative, turns
  <2> DEFINE p == PositionPacket(w, x, relative, turns)
  <2>1. p.kind \notin InventoryKinds \cup SentKinds
    BY DEF PositionPacket, InventoryKinds, SentKinds, CommandKinds
  <2> HIDE DEF p
  <2>2. Worldly(<<p>>)
    BY <2>1, ShortWorldly
  <2> QED BY <2>2 DEF p
<1>2. CASE ServerTeleports
  <2>1. \E w, x, relative : Does(w, <<PositionPacket(w, x, relative, relative)>>)
    BY <1>2 DEF ServerTeleports
  <2> QED BY <1>1, <2>1
<1>3. CASE ServerRepeats
  <2>1. \E w : Does(w, <<PositionPacket(w, w.x, FALSE, FALSE)>>)
    BY <1>3 DEF ServerRepeats
  <2> QED BY <1>1, <2>1
<1>4. CASE ServerRespawns
  <2>1. \E w, keep : Does(w, RespawnPackets(w, keep))
    BY <1>4 DEF ServerRespawns
  <2> QED BY <2>1, RespawnWorldly
<1> QED BY <1>2, <1>3, <1>4

LEMMA ReconfiguresFits ==
  ASSUME NEW of, AllFit(of), IsSeq(down), ServerReconfigures
  PROVE  WorldEffect(of)
<1> DEFINE p == [kind |-> "start_configuration"]
           c == CloseContainer(server.inv)
           player == [c.player EXCEPT !.state = @ + 1, !.carried = Empty]
           new == [c EXCEPT !.player = player]
<1>1. InventoryFit(server.inv)
      /\ server = [inv |-> server.inv, opened |-> server.opened, events |-> server.events]
  BY DEF AllFit, ServerFit
<1>2. InventoryFit(c) /\ c.open = None /\ c.drag = None
  BY <1>1, ClosedContainerFits
<1>3. Alike(player, c.player)
  <2> HIDE DEF c
  <2> DEFINE mid == [c.player EXCEPT !.state = c.player.state + 1]
  <2>1. ContainerFit(c.player) /\ c.player.state \in Nat
    BY <1>2, PlayerSlotsOf
  <2>2. c.player = [id |-> c.player.id, menu |-> c.player.menu, state |-> c.player.state,
                    carried |-> c.player.carried, slots |-> c.player.slots]
        /\ c.player.slots \in [DOMAIN c.player.slots -> Fitting]
    BY <2>1, SlotsOf
  <2>3. mid = [id |-> c.player.id, menu |-> c.player.menu, state |-> c.player.state + 1,
               carried |-> c.player.carried, slots |-> c.player.slots]
    BY <2>2
  <2>4. player = [mid EXCEPT !.carried = Empty]
    OBVIOUS
  <2> HIDE DEF mid, player
  <2>5. player = [id |-> c.player.id, menu |-> c.player.menu, state |-> c.player.state + 1,
                  carried |-> Empty, slots |-> c.player.slots]
    BY <2>3, <2>4
  <2>6. c.player.state + 1 \in Nat /\ Empty \in Fitting
    BY <2>1, EmptyFits
  <2> QED BY <2>1, <2>2, <2>5, <2>6, AlikeMade
<1>4. Kin(new, c) /\ new.open = None
  <2> HIDE DEF c, player
  <2> QED BY <1>2, <1>3, PlayerReplaced
<1>5. Rejoined(server.inv) = new
  <2>1. Rejoined(server.inv) = [c EXCEPT !.player.state = @ + 1, !.player.carried = Empty]
    BY DEF Rejoined
  <2>2. c = [player |-> c.player, open |-> c.open, selected |-> c.selected, drag |-> c.drag]
    BY <1>2 DEF InventoryFit
  <2> HIDE DEF c
  <2> DEFINE s == c.player.state + 1
  <2>3. [c EXCEPT !.player.state = @ + 1, !.player.carried = Empty]
          = [c EXCEPT !.player = [[c.player EXCEPT !.state = s] EXCEPT !.carried = Empty]]
    BY <2>2
  <2>4. player = [[c.player EXCEPT !.state = s] EXCEPT !.carried = Empty]
    OBVIOUS
  <2> QED BY <2>1, <2>3, <2>4
<1> HIDE DEF new, c, player
<1>6. InventoryFit(new) /\ Labelled(of, new) /\ MenuServed(new, server.opened)
  BY <1>4 DEF Kin, Labelled, MenuServed
<1>7. /\ server' = [server EXCEPT !.events = @ + 1, !.inv = new]
      /\ down' = Append(down, p) /\ excuses' = ExcuseRejoined
      /\ UNCHANGED <<habit, ui, mailbox, render, net, up>>
  <2>1. server' = [server EXCEPT !.events = @ + 1, !.inv = Rejoined(@)]
    BY DEF ServerReconfigures
  <2> QED BY <1>5, <2>1 DEF ServerReconfigures
<1>8. ServerFit(of, server') /\ server'.inv = new /\ server'.opened = server.opened
  <2> DEFINE mid == [server EXCEPT !.events = @ + 1]
  <2>1. mid = [inv |-> server.inv, opened |-> server.opened, events |-> server.events + 1]
    BY <1>1
  <2>2. server' = [mid EXCEPT !.inv = new]
    BY <1>7
  <2> HIDE DEF mid
  <2>3. server' = [inv |-> new, opened |-> server.opened, events |-> server.events + 1]
    BY <2>1, <2>2
  <2> DEFINE events == server.events + 1
  <2> HIDE DEF events
  <2>4. server' = [inv |-> new, opened |-> server.opened, events |-> events]
    BY <2>3 DEF events
  <2>5. ServerFit(of, server)
    BY DEF AllFit
  <2> QED BY <1>6, <2>4, <2>5, ServerPut
<1>9. down' = down \o <<p>>
  <2> DEFINE R == Range(down)
  <2>1. down \in Seq(R)
    BY DEF IsSeq
  <2> HIDE DEF R, p
  <2> QED BY <1>7, <2>1
<1>10. p.kind \notin InventoryKinds \cup SentKinds
  BY DEF InventoryKinds, SentKinds, CommandKinds
<1> HIDE DEF p
<1>11. IsSeq(<<p>>) /\ DownFit(of, <<p>>) /\ OfNone(<<p>>)
  BY <1>10, ShortWorldly, WorldlyFits
<1>12. excuses' \in SUBSET (excuses \cup Excuses)
  BY <1>7 DEF ExcuseRejoined, Excuses
<1>13. UpFit(up')
  BY <1>7 DEF AllFit
<1> QED BY <1>4, <1>7, <1>8, <1>9, <1>11, <1>12, <1>13, ServerSpeaksFits

LEMMA ReceivesFits ==
  ASSUME NEW n \in Nat, NEW of \in Labels(n), AllFit(of), IsSeq(up), IsSeq(down),
         ServerReceives \/ ServerRelogs \/ ServerDiscards
  PROVE  WorldEffect(of)
<1>1. /\ up # <<>> /\ up' = Tail(up) /\ UNCHANGED <<habit, ui, mailbox, render, net, server>>
      /\ excuses' \in SUBSET (excuses \cup Excuses)
  BY DEF ServerReceives, ServerRelogs, ServerDiscards, Excuses
<1>2. UpFit(up') /\ ServerFit(of, server') /\ server'.opened = server.opened /\ server'.inv = server.inv
  BY <1>1, UpFitPopped DEF AllFit
<1>3. \E said : down' = down \o said /\ IsSeq(said) /\ DownFit(of, said) /\ OfNone(said)
  <2>1. CASE UNCHANGED down
    <3>1. down' = down \o <<>> /\ Worldly(<<>>)
      BY <2>1, NothingSaid, ShortWorldly
    <3> QED BY <3>1, WorldlyFits
  <2>2. CASE ServerReceives
    <3>1. UNCHANGED down \/ \E w : down' = down \o RespawnPackets(w, FALSE)
      BY <2>2, ZenonT(60) DEF ServerReceives, WorldAnswers
    <3> QED BY <2>1, <3>1, RespawnWorldly, WorldlyFits
  <2>3. CASE ServerRelogs
    <3> DEFINE P(own, w) == [kind |-> "login", own |-> own, dim |-> 0, mode |-> 0, stay |-> w.stay]
               Q(w) == PositionPacket(w, 0, FALSE, FALSE)
               r == Content(server.inv.player)
    <3>1. \E own, w : down' = down \o <<P(own, w), Q(w), r>>
      BY <2>3 DEF ServerRelogs
    <3>2. \A own, w : P(own, w).kind = "login" /\ Q(w).kind = "position"
      BY DEF PositionPacket
    <3>3. UpdateFit(of, r) /\ ~OfMenu(r)
      BY ContentFits DEF AllFit, ServerFit
    <3> HIDE DEF P, Q, r
    <3>4. PICK own, w : down' = down \o <<P(own, w), Q(w), r>>
      BY <3>1
    <3> DEFINE p == P(own, w)
               q == Q(w)
    <3>5. p.kind = "login" /\ q.kind = "position" /\ down' = down \o <<p, q, r>>
      BY <3>2, <3>4
    <3> HIDE DEF p, q
    <3>6. <<p, q, r>> = <<p, q>> \o <<r>>
      OBVIOUS
    <3>7. IsSeq(<<p, q>>) /\ DownFit(of, <<p, q>>) /\ OfNone(<<p, q>>)
      <4>1. Worldly(<<p, q>>)
        BY <3>5, ShortWorldly DEF InventoryKinds, SentKinds, CommandKinds
      <4> QED BY <4>1, WorldlyFits
    <3>8. IsSeq(<<r>>) /\ DownFit(of, <<r>>) /\ OfNone(<<r>>)
      BY <3>3, Short, ShortSaid DEF DownFit
    <3>9. IsSeq(<<p, q>> \o <<r>>) /\ DownFit(of, <<p, q>> \o <<r>>) /\ OfNone(<<p, q>> \o <<r>>)
      <4> DEFINE s == <<p, q>>
                 t == <<r>>
      <4> HIDE DEF s, t
      <4>1. IsSeq(s) /\ DownFit(of, s) /\ OfNone(s) /\ IsSeq(t) /\ DownFit(of, t) /\ OfNone(t)
        BY <3>7, <3>8 DEF s, t
      <4>2. IsSeq(s \o t) /\ DownFit(of, s \o t)
        BY <4>1, Joined, DownFitJoined
      <4>3. OfNone(s \o t)
        <5>1. DOMAIN (s \o t) = 1 .. Len(s) + Len(t) /\ DOMAIN s = 1 .. Len(s)
              /\ DOMAIN t = 1 .. Len(t)
          BY <4>1, Joined
        <5> SUFFICES ASSUME NEW i \in DOMAIN (s \o t) PROVE ~OfMenu((s \o t)[i])
          BY DEF OfNone
        <5>2. i \in 1 .. Len(s) + Len(t)
          BY <5>1
        <5>3. \/ i \in 1 .. Len(s) /\ (s \o t)[i] = s[i]
              \/ i - Len(s) \in 1 .. Len(t) /\ (s \o t)[i] = t[i - Len(s)]
          BY <4>1, <5>2, Joined
        <5> QED BY <4>1, <5>1, <5>3 DEF OfNone
      <4> QED BY <4>2, <4>3 DEF s, t
    <3>10. down' = down \o (<<p, q>> \o <<r>>)
      BY <3>5, <3>6
    <3> QED BY <3>9, <3>10
  <2>4. CASE ServerDiscards
    BY <2>1, <2>4 DEF ServerDiscards
  <2> QED BY <2>2, <2>3, <2>4
<1> QED BY <1>1, <1>2, <1>3, ServerSpeaksFits

LEMMA WorldServerFits ==
  ASSUME NEW n \in Nat, NEW of \in Labels(n), AllFit(of), IsSeq(up), IsSeq(down), WorldServer
  PROVE  WorldEffect(of)
<1>1. CASE \/ ServerSpawns \/ ServerMovesEntity \/ ServerRemoves \/ ServerPushes \/ ServerSendsChunk
           \/ ServerForgets \/ ServerUpdates \/ ServerSetsWorld \/ ServerTurns \/ ServerKills
           \/ ServerAsks
  BY <1>1, PlayingSteps, DoesFits
<1>2. CASE ServerTeleports \/ ServerRepeats \/ ServerRespawns
  BY <1>2, PlacingSteps, DoesFits
<1>3. CASE ServerReconfigures
  BY <1>3, ReconfiguresFits
<1>4. CASE ServerReceives \/ ServerRelogs \/ ServerDiscards
  BY <1>4, ReceivesFits
<1> QED BY <1>1, <1>2, <1>3, <1>4 DEF WorldServer

-----------------------------------------------------------------------------
\* Every step of the session, to the inventories, and the invariant.

StepEffect(of) ==
    \/ OverlayEffect(of)
    \/ TakeUpdate /\ OverlayFit(of, ui') /\ ui'.inv = render
    \/ TickEffect(of)
    \/ TickWithoutSimulation
    \/ ReadEffect(of) /\ Head(down).kind \in InventoryKinds
    \/ HandledEffect(of) /\ UpFit(up')
    \/ OpensEffect(of)
    \/ WorldEffect(of)
    \/ UNCHANGED vars

LEMMA StepCases ==
  ASSUME Typed, server.opened \in Nat, excuses \subseteq Excuses,
         NEW of \in Labels(server.opened), AllFit(of), [Next]_vars
  PROVE  StepEffect(of)
<1>1. /\ OverlayFit(of, ui) /\ SessionFit(of, net) /\ RenderFit(of, render)
      /\ ServerFit(of, server) /\ MailboxFit(mailbox) /\ UpFit(up) /\ DownFit(of, down)
  BY DEF AllFit
<1>2. IsSeq(up) /\ IsSeq(down) /\ MailboxOK
  BY DEF Typed, UpOK, DownOK
<1>3. CASE InventoryStep
  <2>1. CASE Overlay
    BY <1>1, <1>2, <2>1, OverlayFits DEF StepEffect
  <2>2. CASE TakeUpdate
    BY <1>1, <2>2, TakeUpdateFits DEF StepEffect
  <2>3. CASE Tick
    BY <1>1, <1>2, <2>3, TickFits DEF StepEffect
  <2>4. CASE TickWithoutSimulation
    BY <2>4 DEF StepEffect
  <2>5. CASE Reads(InventoryKinds) /\ ReadPacket
    <3>1. ReadEffect(of)
      BY <1>1, <1>2, <2>5, ReadFits
    <3>2. Head(down).kind \in InventoryKinds
      BY <2>5 DEF Reads
    <3> QED BY <3>1, <3>2 DEF StepEffect
  <2>6. CASE up # <<>> /\ Head(up).kind \in CommandKinds /\ (ReceiveClick \/ ReceiveOther)
    <3>1. Head(up).kind \in SentKinds
      <4>1. Head(up).kind \in SentKinds \/ Head(up) \in Answers
        BY <2>6, UpPopped DEF Typed
      <4>2. Head(up) \in Answers => Head(up).kind \notin CommandKinds
        BY DEF Answers, CommandKinds
      <4> QED BY <2>6, <4>1, <4>2
    <3>2. HandledEffect(of)
      BY <1>1, <1>2, <2>6, <3>1, ReceiveClickFits, ReceiveOtherFits
    <3>3. up' = Tail(up)
      BY <2>6 DEF ReceiveClick, ReceiveOther, Receive
    <3>4. UpFit(up')
      BY <1>1, <1>2, <2>6, <3>3, UpFitPopped
    <3> QED BY <3>2, <3>4 DEF StepEffect
  <2>7. CASE ServerOpens
    BY <1>1, <1>2, <2>7, ServerOpensFits DEF StepEffect
  <2>8. CASE ServerCloses \/ ServerSets \/ ServerSelects
    <3>1. HandledEffect(of) /\ up' = up
      BY <1>1, <1>2, <2>8, ServerClosesFits, ServerSetsFits, ServerSelectsFits
    <3> QED BY <1>1, <3>1 DEF StepEffect
  <2> QED BY <1>3, <2>1, <2>2, <2>3, <2>4, <2>5, <2>6, <2>7, <2>8 DEF InventoryStep, Server
<1>4. CASE WorldClient
  BY <1>2, <1>4, WorldClientFits DEF StepEffect
<1>5. CASE WorldServer
  BY <1>2, <1>5, WorldServerFits DEF StepEffect
<1>6. CASE UNCHANGED vars
  BY <1>6 DEF StepEffect
<1> QED BY <1>3, <1>4, <1>5, <1>6 DEF Next

\* What is said fits when its parts do.
LEMMA SpokenFits ==
  ASSUME NEW n \in Nat, NEW of \in Labels(n), DownFit(of, down), IsSeq(down),
         NEW inv, Labelled(of, inv), NEW new, Speaks(of, new, inv)
  PROVE  DownFit(of, down')
<1>1. CASE \E said : down' = down \o said /\ Said(of, said)
  <2>1. PICK said : down' = down \o said /\ Said(of, said)
    BY <1>1
  <2> QED BY <2>1, DownFitJoined DEF Said, UpdatesOnly
<1>2. CASE \E first, said : down' = (down \o first) \o said /\ Said(of, said) /\ Goodbye(inv, first)
  <2>1. PICK first, said : down' = (down \o first) \o said /\ Said(of, said) /\ Goodbye(inv, first)
    BY <1>2
  <2>2. Said(of, first) /\ IsSeq(first)
    BY <2>1, GoodbyeSaid
  <2>3. IsSeq(down \o first) /\ DownFit(of, down \o first)
    BY <2>2, Joined, DownFitJoined DEF Said
  <2> QED BY <2>1, <2>3, DownFitJoined DEF Said, UpdatesOnly
<1> QED BY <1>1, <1>2 DEF Speaks

LEMMA OpensFit ==
  ASSUME server.opened \in Nat, NEW of \in Labels(server.opened), AllFit(of), IsSeq(down),
         OpensEffect(of)
  PROVE  server'.opened \in Nat /\ \E new \in Labels(server'.opened) : AllFit(new)'
<1> DEFINE n == server.opened
<1>1. /\ UNCHANGED <<habit, ui, mailbox, render, net, up>> /\ server'.opened = n + 1
  BY DEF OpensEffect
<1>2. PICK new \in Labels(n + 1) :
        /\ \A i \in 1 .. n : new[i] = of[i]
        /\ ServerFit(new, server')
        /\ \E first, said, open, content :
            /\ Goodbye(server.inv, first) /\ Said(of, said) /\ OfNone(said)
            /\ open.kind = "open" /\ open.id = n + 1 /\ UpdateFit(new, open)
            /\ content.kind = "content" /\ content.id = n + 1 /\ UpdateFit(new, content)
            /\ down' = ((down \o first) \o said) \o <<open, content>>
  BY DEF OpensEffect
<1>3. PICK first, said, open, content :
            /\ Goodbye(server.inv, first) /\ Said(of, said) /\ OfNone(said)
            /\ open.kind = "open" /\ open.id = n + 1 /\ UpdateFit(new, open)
            /\ content.kind = "content" /\ content.id = n + 1 /\ UpdateFit(new, content)
            /\ down' = ((down \o first) \o said) \o <<open, content>>
  BY <1>2
<1>4. /\ \A p : UpdateFit(of, p) => UpdateFit(new, p)
      /\ \A inv : Labelled(of, inv) => Labelled(new, inv)
  <2>1. n \in Nat /\ n + 1 \in Nat /\ n <= n + 1 /\ of \in Labels(n)
    OBVIOUS
  <2> HIDE DEF n
  <2> QED BY <1>2, <2>1, LabelsExtended
<1>5. /\ \A s : DownFit(of, s) => DownFit(new, s)
      /\ \A inv : CopyFit(of, inv) => CopyFit(new, inv)
  BY <1>4 DEF DownFit, CopyFit
<1>6. OverlayFit(new, ui') /\ SessionFit(new, net') /\ RenderFit(new, render')
  BY <1>1, <1>5 DEF AllFit, OverlayFit, SessionFit, RenderFit
<1>7. MailboxFit(mailbox') /\ UpFit(up')
  BY <1>1 DEF AllFit
<1>8. DownFit(new, down')
  <2>1. Said(of, first) /\ IsSeq(first) /\ IsSeq(said) /\ DownFit(of, said)
    BY <1>3, GoodbyeSaid DEF AllFit, ServerFit, Said, UpdatesOnly
  <2>2. IsSeq(down \o first) /\ DownFit(of, down \o first)
    BY <2>1, Joined, DownFitJoined DEF Said, AllFit
  <2>3. IsSeq((down \o first) \o said) /\ DownFit(of, (down \o first) \o said)
    BY <2>1, <2>2, Joined, DownFitJoined
  <2>4. IsSeq(<<open, content>>) /\ DownFit(new, <<open, content>>)
    BY <1>3, Short DEF DownFit
  <2> QED BY <1>3, <1>5, <2>3, <2>4, DownFitJoined
<1>9. AllFit(new)'
  BY <1>2, <1>6, <1>7, <1>8 DEF AllFit
<1> QED BY <1>1, <1>9

LEMMA MailboxJoined ==
  ASSUME NEW s, IsSeq(s), MailboxFit(s), NEW inv, NEW t, Commanded(t, inv), Len(s) + Len(t) <= MaxCommands
  PROVE  MailboxFit(s \o t)
<1>1. IsSeq(t) /\ \A i \in DOMAIN t : CommandFit(t[i])
  BY DEF Commanded, CommandsOnly
<1>2. Len(s \o t) <= MaxCommands /\ DOMAIN (s \o t) = 1 .. Len(s) + Len(t)
      /\ DOMAIN s = 1 .. Len(s) /\ DOMAIN t = 1 .. Len(t)
  BY <1>1, Joined
<1>3. ASSUME NEW i \in DOMAIN (s \o t) PROVE CommandFit((s \o t)[i])
  <2>1. \/ i \in 1 .. Len(s) /\ (s \o t)[i] = s[i]
        \/ i - Len(s) \in 1 .. Len(t) /\ (s \o t)[i] = t[i - Len(s)]
    <3>1. i \in 1 .. Len(s) + Len(t)
      BY <1>2
    <3> QED BY <1>1, <3>1, Joined
  <2> QED BY <1>1, <1>2, <2>1 DEF MailboxFit
<1> QED BY <1>2, <1>3 DEF MailboxFit

LEMMA FitsStep == Typed /\ Fits /\ [Next]_vars => Fits'
<1> SUFFICES ASSUME Typed, Fits, [Next]_vars PROVE Fits'
  OBVIOUS
<1> DEFINE n == server.opened
<1>1. n \in Nat /\ excuses \subseteq Excuses
  BY DEF Fits
<1>2. PICK of \in Labels(n) : AllFit(of)
  BY DEF Fits
<1>3. /\ OverlayFit(of, ui) /\ SessionFit(of, net) /\ RenderFit(of, render)
      /\ ServerFit(of, server) /\ MailboxFit(mailbox) /\ UpFit(up) /\ DownFit(of, down)
  BY <1>2 DEF AllFit
<1>4. IsSeq(up) /\ IsSeq(down) /\ MailboxOK /\ IsSeq(mailbox)
  BY DEF Typed, UpOK, DownOK, MailboxOK
<1>5. StepEffect(of)
  BY <1>1, <1>2, StepCases
<1>6. ASSUME server'.opened = n, AllFit(of)', excuses' \subseteq Excuses PROVE Fits'
  BY <1>1, <1>2, <1>6 DEF Fits
<1>7. CASE OverlayEffect(of)
  <2>1. UNCHANGED <<render, net, up, down, server>> /\ OverlayFit(of, ui')
        /\ excuses' \in {excuses, excuses \cup {"lost"}}
    BY <1>7 DEF OverlayEffect
  <2>2. MailboxFit(mailbox')
    BY <1>3, <1>4, <1>7, MailboxJoined DEF OverlayEffect
  <2>3. AllFit(of)'
    BY <1>3, <2>1, <2>2 DEF AllFit
  <2> QED BY <1>1, <1>6, <2>1, <2>3 DEF Excuses
<1>8. CASE TakeUpdate /\ OverlayFit(of, ui') /\ ui'.inv = render
  <2>1. UNCHANGED <<mailbox, net, up, down, server, excuses>> /\ render' = None
    BY <1>8 DEF TakeUpdate
  <2>2. AllFit(of)'
    BY <1>3, <1>8, <2>1 DEF AllFit, RenderFit
  <2> QED BY <1>1, <1>6, <2>1, <2>2
<1>9. ASSUME mailbox' = <<>> PROVE MailboxFit(mailbox')
  BY <1>9, Short, ExchangeAssumption DEF MailboxFit
<1>10. CASE TickEffect(of)
  <2>1. /\ UNCHANGED <<ui, down, server>> /\ mailbox' = <<>> /\ SessionFit(of, net') /\ UpFit(up')
        /\ render' \in {render, net'.inv} /\ excuses' \in {excuses, excuses \cup {"crossed"}}
    BY <1>10 DEF TickEffect
  <2>2. RenderFit(of, render')
    BY <1>3, <2>1 DEF RenderFit, SessionFit
  <2>3. AllFit(of)'
    BY <1>3, <1>9, <2>1, <2>2 DEF AllFit
  <2> QED BY <1>1, <1>6, <2>1, <2>3 DEF Excuses
<1>11. CASE TickWithoutSimulation
  <2>1. UNCHANGED <<ui, render, net, up, down, server>> /\ mailbox' = <<>>
        /\ excuses' = excuses \cup {"lost"}
    BY <1>11 DEF TickWithoutSimulation
  <2>2. AllFit(of)'
    BY <1>3, <1>9, <2>1 DEF AllFit
  <2> QED BY <1>1, <1>6, <2>1, <2>2 DEF Excuses
<1>12. CASE ReadEffect(of)
  <2>1. /\ UNCHANGED <<ui, mailbox, up, server>> /\ down # <<>> /\ down' = Tail(down)
        /\ excuses' \in {excuses, excuses \cup {"crossed"}} /\ SessionFit(of, net')
        /\ render' = net'.inv \/ render' = render
    BY <1>12 DEF ReadEffect
  <2>2. RenderFit(of, render')
    BY <1>3, <2>1 DEF RenderFit, SessionFit
  <2>3. DownFit(of, down')
    BY <1>3, <1>4, <2>1, DownFitPopped
  <2>4. AllFit(of)'
    BY <1>3, <2>1, <2>2, <2>3 DEF AllFit
  <2> QED BY <1>1, <1>6, <2>1, <2>4 DEF Excuses
<1>13. CASE HandledEffect(of) /\ UpFit(up')
  <2>1. /\ UNCHANGED <<ui, mailbox, render, net>> /\ excuses' \in SUBSET (excuses \cup Excuses)
        /\ ServerFit(of, server') /\ server'.opened = n /\ Speaks(of, server'.inv, server.inv)
    BY <1>13 DEF HandledEffect
  <2>2. DownFit(of, down')
    BY <1>1, <1>3, <1>4, <2>1, SpokenFits DEF ServerFit
  <2>3. AllFit(of)'
    BY <1>3, <1>13, <2>1, <2>2 DEF AllFit
  <2> QED BY <1>1, <1>6, <2>1, <2>3
<1>14. CASE OpensEffect(of)
  <2>1. server'.opened \in Nat /\ \E new \in Labels(server'.opened) : AllFit(new)'
    BY <1>1, <1>2, <1>4, <1>14, OpensFit
  <2>2. excuses' \subseteq Excuses
    BY <1>1, <1>14 DEF OpensEffect
  <2> QED BY <2>1, <2>2 DEF Fits
<1>15. CASE WorldEffect(of)
  <2>1. /\ UNCHANGED <<mailbox, render>> /\ OverlayFit(of, ui') /\ SessionFit(of, net')
        /\ UpFit(up') /\ ServerFit(of, server') /\ server'.opened = n
        /\ excuses' \in SUBSET (excuses \cup Excuses)
    BY <1>15 DEF WorldEffect
  <2>2. DownFit(of, down')
    <3>1. CASE down # <<>> /\ down' = Tail(down)
      BY <1>3, <1>4, <3>1, DownFitPopped
    <3>2. CASE \E said : down' = down \o said /\ IsSeq(said) /\ DownFit(of, said)
      BY <1>3, <1>4, <3>2, DownFitJoined
    <3> QED BY <1>15, <3>1, <3>2 DEF WorldEffect
  <2>3. AllFit(of)'
    BY <1>3, <2>1, <2>2 DEF AllFit
  <2> QED BY <1>1, <1>6, <2>1, <2>3
<1>16. CASE UNCHANGED vars
  <2>1. UNCHANGED <<ui, mailbox, render, net, up, down, server, excuses>>
    BY <1>16 DEF vars
  <2>2. AllFit(of)'
    BY <1>3, <2>1 DEF AllFit
  <2> QED BY <1>1, <1>6, <2>1, <2>2
<1> QED BY <1>5, <1>7, <1>8, <1>10, <1>11, <1>12, <1>13, <1>14, <1>15, <1>16 DEF StepEffect

LEMMA NoMenu ==
  ASSUME NEW h \in Habits, NEW start \in Beginnings[h], NEW inv,
         inv = [NewInventory EXCEPT
                  !.player.slots = [i \in DOMAIN @ |->
                    IF i \in DOMAIN start.slots THEN start.slots[i] ELSE Empty],
                  !.player.carried = start.carried]
  PROVE  InventoryFit(inv) /\ inv.open = None /\ inv.drag = None
<1> DEFINE D == 0 .. SizeOf("player") - 1
           slots == [i \in D |-> IF i \in DOMAIN start.slots THEN start.slots[i] ELSE Empty]
           player == [id |-> PlayerId, menu |-> "player", state |-> 0, slots |-> slots,
                      carried |-> start.carried]
           mid == [NewInventory EXCEPT
                     !.player.slots = [i \in DOMAIN @ |->
                       IF i \in DOMAIN start.slots THEN start.slots[i] ELSE Empty]]
<1>1. /\ start.carried \in Fitting /\ slots \in [D -> Fitting] /\ PlayerId \in Nat
      /\ SizeOf("player") \in Nat
  BY ExchangeAssumption, EmptyFits, Sizes DEF PlayerId
<1>2. mid = [player |-> [id |-> PlayerId, menu |-> "player", state |-> 0, slots |-> slots,
                         carried |-> Empty],
             open |-> None, selected |-> 0, drag |-> None]
  <2> DEFINE none == [i \in D |-> Empty]
             p == [id |-> PlayerId, menu |-> "player", state |-> 0, slots |-> none, carried |-> Empty]
             f == [i \in DOMAIN NewInventory.player.slots |->
                     IF i \in DOMAIN start.slots THEN start.slots[i] ELSE Empty]
  <2>1. NewInventory = [player |-> p, open |-> None, selected |-> 0, drag |-> None]
    BY DEF NewInventory, NewContainer
  <2>2. DOMAIN NewInventory.player.slots = D
    BY <2>1
  <2>3. f = slots
    BY <2>2
  <2>4. mid = [NewInventory EXCEPT !.player.slots = f]
    OBVIOUS
  <2> HIDE DEF mid, f, slots
  <2> QED BY <2>1, <2>3, <2>4
<1>3. inv = [mid EXCEPT !.player.carried = start.carried]
  OBVIOUS
<1> HIDE DEF mid, slots
<1>4. inv = [player |-> player, open |-> None, selected |-> 0, drag |-> None]
  BY <1>2, <1>3
<1>5. PlayerFit(player)
  <2>1. player.id = PlayerId /\ player.menu = "player" /\ player.slots = slots
    OBVIOUS
  <2>2. slots \in Filled("player")
    BY <1>1 DEF Filled
  <2>3. player \in Containers
    BY <1>1, <2>2 DEF Containers
  <2> HIDE DEF player
  <2> QED BY <2>1, <2>2, <2>3 DEF PlayerFit, ContainerFit
<1> HIDE DEF player
<1>6. OpenFit(None) /\ 0 \in Selections /\ DragFit(player, None, None)
  BY Sizes DEF OpenFit, Selections, DragFit
<1> DEFINE new == [player |-> player, open |-> None, selected |-> 0, drag |-> None]
<1>7. InventoryFit(new) /\ new.open = None /\ new.drag = None
  BY <1>5, <1>6, InventoryMade
<1>8. inv = new
  BY <1>4
<1> HIDE DEF new
<1> QED BY <1>7, <1>8

LEMMA FitsInit == Init => Fits
<1> SUFFICES ASSUME Init PROVE Fits
  OBVIOUS
<1>1. InventoryInit /\ habit \in Habits
  BY DEF Init
<1>2. PICK start \in Beginnings[habit] :
        LET inv == [NewInventory EXCEPT
                      !.player.slots = [i \in DOMAIN @ |->
                        IF i \in DOMAIN start.slots THEN start.slots[i] ELSE Empty],
                      !.player.carried = start.carried]
        IN /\ server = [inv |-> inv, opened |-> 0, events |-> 0]
           /\ net = [inv |-> inv, ended |-> None, closed |-> {}]
           /\ ui = [inv |-> inv, visible |-> "keys" \notin habit, drag |-> None, inputs |-> 0]
  BY <1>1 DEF InventoryInit
<1> DEFINE inv == [NewInventory EXCEPT
                      !.player.slots = [i \in DOMAIN @ |->
                        IF i \in DOMAIN start.slots THEN start.slots[i] ELSE Empty],
                      !.player.carried = start.carried]
<1>3. /\ server = [inv |-> inv, opened |-> 0, events |-> 0]
      /\ net = [inv |-> inv, ended |-> None, closed |-> {}]
      /\ ui = [inv |-> inv, visible |-> "keys" \notin habit, drag |-> None, inputs |-> 0]
  BY <1>2
<1>4. InventoryFit(inv) /\ inv.open = None /\ inv.drag = None
  BY <1>1, NoMenu
<1> HIDE DEF inv
<1> DEFINE of == [i \in 1 .. 0 |-> "chest"]
<1>5. of \in Labels(0)
  BY DEF Labels, Menus
<1> HIDE DEF of
<1>6. CopyFit(of, inv) /\ Labelled(of, inv) /\ MenuServed(inv, 0)
  BY <1>4 DEF CopyFit, Owned, Labelled, MenuServed
<1>7. OverlayFit(of, ui)
  <2> DEFINE visible == "keys" \notin habit
  <2>1. ui = [inv |-> inv, visible |-> visible, drag |-> None, inputs |-> 0]
    BY <1>3
  <2> HIDE DEF visible
  <2>2. None # None => None \in Drags
    OBVIOUS
  <2> QED BY <1>6, <2>1, OverlayMade
<1>8. SessionFit(of, net)
  BY <1>3, <1>6 DEF SessionFit
<1>9. ServerFit(of, server) /\ server.opened = 0
  BY <1>3, <1>4, <1>6 DEF ServerFit
<1>10. mailbox = <<>> /\ render = None /\ up = <<>> /\ down = <<>> /\ excuses = {}
  BY <1>1 DEF InventoryInit
<1>11. RenderFit(of, render) /\ MailboxFit(mailbox) /\ UpFit(up) /\ DownFit(of, down)
  BY <1>10, Short, ExchangeAssumption DEF RenderFit, MailboxFit, UpFit, DownFit
<1>12. AllFit(of)
  BY <1>7, <1>8, <1>9, <1>11 DEF AllFit
<1> QED BY <1>5, <1>9, <1>10, <1>12 DEF Fits

\* What fits is of its type.
LEMMA ContainersOfFit ==
  ASSUME NEW inv, InventoryFit(inv), NEW c \in ContainersOf(inv)
  PROVE  /\ ContainerFit(c)
         /\ c.carried \in Fitting /\ \A s \in DOMAIN c.slots : c.slots[s] \in Fitting
<1>1. ContainerFit(c)
  BY DEF ContainersOf, InventoryFit, PlayerFit, OpenFit
<1>2. c.carried \in Fitting /\ c.slots \in [DOMAIN c.slots -> Fitting]
  BY <1>1, SlotsOf
<1> QED BY <1>1, <1>2

LEMMA FitsTypeOK == MailboxOK /\ Fits => InventoryTypeOK
<1> SUFFICES ASSUME MailboxOK, Fits PROVE InventoryTypeOK
  OBVIOUS
<1>1. PICK of : AllFit(of)
  BY DEF Fits
<1>2. \A inv \in Copies : InventoryFit(inv)
  BY <1>1 DEF Copies, AllFit, OverlayFit, SessionFit, ServerFit, CopyFit
<1>3. ASSUME NEW inv \in Copies, NEW c \in ContainersOf(inv)
      PROVE  c.carried \in Fitting /\ \A s \in DOMAIN c.slots : c.slots[s] \in Fitting
  BY <1>2, ContainersOfFit
<1>4. NoOverfull
  BY <1>3 DEF NoOverfull, Fitting
<1>5. \A inv \in Copies : \A c \in ContainersOf(inv) :
        c.carried \in Stacks /\ \A s \in DOMAIN c.slots : c.slots[s] \in Stacks
  BY <1>3 DEF Fitting
<1>6. DragOwned
  <2> SUFFICES ASSUME NEW inv \in {ui.inv, net.inv}, inv.drag # None
               PROVE  /\ Known(inv, inv.drag.container)
                      /\ inv.drag.state = Container(inv, inv.drag.container).state
                      /\ inv.drag.slots \subseteq DOMAIN Container(inv, inv.drag.container).slots
    BY DEF DragOwned
  <2>1. InventoryFit(inv) /\ Owned(inv)
    BY <1>1 DEF AllFit, OverlayFit, SessionFit, CopyFit
  <2>2. DragFit(inv.player, inv.open, inv.drag)
    BY <2>1 DEF InventoryFit
  <2> QED BY <2>1, <2>2 DEF DragFit, Owned, Known, Container
<1>7. \A inv \in Copies : inv.selected \in 0 .. HotbarSize - 1
  BY <1>2 DEF InventoryFit, Selections
<1>8. Len(mailbox) <= MaxCommands /\ \A i \in DOMAIN mailbox : mailbox[i].kind \in CommandKinds
  BY <1>1 DEF AllFit, MailboxFit, MailboxOK
<1>9. excuses \subseteq {"lost", "crossed", "ignored", "withheld", "cursor", "reconfigured"}
  BY DEF Fits, Excuses
<1> QED BY <1>4, <1>5, <1>6, <1>7, <1>8, <1>9 DEF InventoryTypeOK

-----------------------------------------------------------------------------
\* What the world holds is bounded.

Loaded(chunks) == {c \in Coordinates : chunks[c] # None}
Roomy(w) == Len(w.store.slots) <= MaxEntities /\ Cardinality(Loaded(w.chunks)) <= MaxChunks

LEMMA SpawnedRoom ==
  ASSUME NEW store, StoreSound(store), NEW id \in Ids, NEW entity \in Entities,
         RoomLeft(Vacated(store, id)), Len(store.slots) <= MaxEntities
  PROVE  Len(Spawned(store, id, entity).slots) <= MaxEntities
<1> DEFINE old == Removed(store, id)
           new == Spawned(store, id, entity)
           slot == IF old.free # <<>> THEN Last(old.free) ELSE Len(old.slots) + 1
           generation == IF old.free # <<>> THEN old.slots[slot].generation ELSE 0
           held == [generation |-> generation, entity |-> [entity EXCEPT !.id = id]]
           put == [old.slots EXCEPT ![slot] = held]
<1>1. StoreSound(old) /\ Len(old.slots) = Len(store.slots)
  BY RemovedLeaves DEF Leaves1
<1>2. new.slots = IF old.free # <<>> THEN put ELSE Append(old.slots, held)
  BY DEF Spawned, Vacated
<1>3. StoreSound(new)
  BY SpawnedSound
<1>4. old.free # <<>> \/ Len(old.slots) < MaxEntities
  BY DEF RoomLeft, Vacated
<1>5. DOMAIN put = DOMAIN old.slots
  OBVIOUS
<1> HIDE DEF held, old, new, put
<1>6. /\ Len(old.slots) \in Nat /\ DOMAIN old.slots = 1 .. Len(old.slots)
      /\ Len(new.slots) \in Nat /\ DOMAIN new.slots = 1 .. Len(new.slots)
  BY <1>1, <1>3, StoreParts DEF StoreSound
<1>7. CASE old.free # <<>>
  <2>1. DOMAIN new.slots = 1 .. Len(old.slots)
    BY <1>2, <1>5, <1>6, <1>7
  <2>2. Len(new.slots) = Len(old.slots)
    BY <1>6, <2>1
  <2> QED BY <1>1, <2>2 DEF new
<1>8. CASE old.free = <<>>
  <2>1. Len(new.slots) = Len(old.slots) + 1
    BY <1>1, <1>2, <1>8, StoreParts DEF StoreSound
  <2> QED BY <1>4, <1>6, <1>8, <2>1, SessionAssumption DEF new
<1> QED BY <1>7, <1>8

LEMMA UpdatedRoom ==
  ASSUME NEW store, StoreSound(store), NEW p \in EntityUpdates
  PROVE  Len(Updated(store, p).slots) = Len(store.slots)
<1> DEFINE e == Lookup(store, p.id)
           k == store.byId[p.id].slot
           new == Updated(store, p)
<1>1. StoreSound(new)
  BY UpdatedSound
<1>2. CASE e = None
  BY <1>2 DEF Updated
<1>3. CASE e # None
  <2> DEFINE f == CASE p.kind = "move" -> [e EXCEPT !.x = @ + p.delta]
                    [] p.kind = "sync" -> [e EXCEPT !.x = p.x]
                    [] p.kind = "data" -> [e EXCEPT !.data = p.data]
                    [] p.kind = "velocity" -> [e EXCEPT !.v = p.v]
             held == [store.slots[k] EXCEPT !.entity = f]
             slots == [store.slots EXCEPT ![k] = held]
  <2>1. new = [store EXCEPT !.slots[k].entity = f]
    BY <1>3 DEF Updated
  <2>2. store = [slots |-> store.slots, byId |-> store.byId, free |-> store.free]
    BY StoreParts DEF StoreSound
  <2> HIDE DEF f
  <2>3. new.slots = slots
    BY <2>1, <2>2
  <2>4. DOMAIN slots = DOMAIN store.slots
    OBVIOUS
  <2> HIDE DEF new, slots
  <2>5. /\ Len(store.slots) \in Nat /\ DOMAIN store.slots = 1 .. Len(store.slots)
        /\ Len(new.slots) \in Nat /\ DOMAIN new.slots = 1 .. Len(new.slots)
    BY <1>1, StoreParts DEF StoreSound
  <2> QED BY <2>3, <2>4, <2>5, SMTT(30) DEF new
<1> QED BY <1>2, <1>3

LEMMA NothingLoaded ==
  Cardinality(Loaded([c \in Coordinates |-> None])) <= MaxChunks
<1>1. Loaded([c \in Coordinates |-> None]) = {}
  BY DEF Loaded
<1> QED BY <1>1, FS_EmptySet, SessionAssumption

LEMMA LoadedFinite == \A chunks : IsFiniteSet(Loaded(chunks)) /\ Cardinality(Loaded(chunks)) \in Nat
<1> SUFFICES ASSUME NEW chunks
             PROVE  IsFiniteSet(Loaded(chunks)) /\ Cardinality(Loaded(chunks)) \in Nat
  OBVIOUS
<1>1. Loaded(chunks) \subseteq Coordinates /\ IsFiniteSet(Coordinates)
  BY SessionAssumption DEF Loaded
<1> QED BY <1>1, FS_Subset, FS_CardinalityType

\* Fewer chunks than there were.
LEMMA LessLoaded ==
  ASSUME NEW chunks, NEW new, Loaded(new) \subseteq Loaded(chunks),
         Cardinality(Loaded(chunks)) <= MaxChunks
  PROVE  Cardinality(Loaded(new)) <= MaxChunks
<1>1. Cardinality(Loaded(new)) <= Cardinality(Loaded(chunks))
  BY LoadedFinite, FS_Subset
<1> QED BY <1>1, LoadedFinite, SessionAssumption

\* A chunk more, if there was room for it.
LEMMA OneLoaded ==
  ASSUME NEW chunks, NEW at \in Coordinates, NEW new,
         Loaded(new) \subseteq Loaded(chunks) \cup {at},
         ~(Cardinality({d \in Coordinates \ {at} : chunks[d] # None}) >= MaxChunks)
  PROVE  Cardinality(Loaded(new)) <= MaxChunks
<1> DEFINE others == {d \in Coordinates \ {at} : chunks[d] # None}
<1>1. IsFiniteSet(others) /\ Cardinality(others) \in Nat
  BY SessionAssumption, FS_Subset, FS_CardinalityType
<1>2. others \cup {at} = Loaded(chunks) \cup {at} /\ at \notin others
  BY DEF Loaded
<1>3. Cardinality(others) < MaxChunks
  BY <1>1, SessionAssumption
<1> HIDE DEF others
<1>4. IsFiniteSet(others \cup {at}) /\ Cardinality(others \cup {at}) = Cardinality(others) + 1
  BY <1>1, <1>2, FS_AddElement
<1>5. Cardinality(Loaded(new)) <= Cardinality(others \cup {at})
  BY <1>2, <1>4, FS_Subset
<1> QED BY <1>1, <1>3, <1>4, <1>5, LoadedFinite, SessionAssumption

LEMMA ClientRoomy ==
  ASSUME Typed, Roomy(world), WorldClient
  PROVE  Roomy(world')
<1>1. world \in Worlds /\ task \in Tasks /\ StoreSound(world.store) /\ DownOK(down)
  BY DEF Typed, Sound, ClientOK
<1> DEFINE Reading1 == down # <<>>
<1>2. CASE ReadEntity
  <2>1. Frame.kind \in EntityKinds /\ down # <<>>
    BY <1>2 DEF ReadEntity, Reads, Frame
  <2>2. /\ Frame.kind = "spawn" => Frame.id \in Ids /\ Frame.entity \in Entities
        /\ Frame.kind = "remove" => Frame.ids \in Seq(Ids)
        /\ Frame.kind \in {"move", "sync", "data", "velocity"} => Frame \in EntityUpdates
    BY <1>1, <2>1, FrameEntity
  <2>3. \/ world' = world
        \/ /\ Frame.kind = "spawn" /\ RoomLeft(Vacated(world.store, Frame.id))
           /\ world' = [world EXCEPT !.store = Spawned(world.store, Frame.id, Frame.entity)]
        \/ /\ Frame.kind = "remove"
           /\ world' = [world EXCEPT !.store = FoldLeft(Removed, world.store, Frame.ids)]
        \/ /\ Frame.kind \in {"move", "sync", "data", "velocity"}
           /\ world' = [world EXCEPT !.store = Updated(world.store, Frame)]
    <3>1. CASE ~WorldMode
      BY <1>2, <3>1 DEF ReadEntity, Goes
    <3>2. CASE WorldMode
      <4>1. \/ Frame.kind = "velocity" /\ Frame.id = First
            \/ Frame.kind = "spawn" /\ Frame.id = First
            \/ Frame.kind = "spawn" /\ Frame.id # First
            \/ Frame.kind = "remove"
            \/ /\ Frame.kind \in {"move", "sync", "data", "velocity"}
               /\ ~(Frame.kind = "velocity" /\ Frame.id = First)
        BY <2>1 DEF EntityKinds
      <4> QED BY <1>1, <1>2, <3>2, <4>1 DEF ReadEntity, Goes, Ends, Worlds
    <3> QED BY <3>1, <3>2
  <2>4. ASSUME NEW store, Len(store.slots) <= MaxEntities, world' = [world EXCEPT !.store = store]
        PROVE  Roomy(world')
    <3>1. world'.store = store /\ world'.chunks = world.chunks
      BY <1>1, <2>4 DEF Worlds
    <3> QED BY <2>4, <3>1 DEF Roomy
  <2>5. CASE world' = world
    BY <2>5
  <2>6. CASE /\ Frame.kind = "spawn" /\ RoomLeft(Vacated(world.store, Frame.id))
             /\ world' = [world EXCEPT !.store = Spawned(world.store, Frame.id, Frame.entity)]
    BY <1>1, <2>2, <2>4, <2>6, SpawnedRoom DEF Roomy
  <2>7. CASE /\ Frame.kind = "remove"
             /\ world' = [world EXCEPT !.store = FoldLeft(Removed, world.store, Frame.ids)]
    <3>1. Len(FoldLeft(Removed, world.store, Frame.ids).slots) = Len(world.store.slots)
      BY <1>1, <2>2, <2>7, AllRemovedLeaves DEF Leaves1
    <3> QED BY <2>4, <2>7, <3>1 DEF Roomy
  <2>8. CASE /\ Frame.kind \in {"move", "sync", "data", "velocity"}
             /\ world' = [world EXCEPT !.store = Updated(world.store, Frame)]
    <3>1. Len(Updated(world.store, Frame).slots) = Len(world.store.slots)
      BY <1>1, <2>2, <2>8, UpdatedRoom
    <3> QED BY <2>4, <2>8, <3>1 DEF Roomy
  <2> QED BY <2>3, <2>5, <2>6, <2>7, <2>8
<1>3. CASE FinishDecode
  <2> DEFINE c == task.decode.at
             w == [world EXCEPT !.chunks[c] = task.decode.chunk]
  <2>1. task.decode \in Decodes /\ c \in Coordinates
    BY <1>1, <1>3 DEF FinishDecode, Tasks, Decodes
  <2>2. world' = world
        \/ /\ ~(Cardinality({d \in Coordinates \ {c} : world.chunks[d] # None}) >= MaxChunks)
           /\ world' = w
    BY <1>3 DEF FinishDecode, Goes, Ends
  <2>3. /\ w.store = world.store
        /\ w.chunks = [world.chunks EXCEPT ![c] = task.decode.chunk]
        /\ world.chunks \in [Coordinates -> Chunks \cup {None}]
    BY <1>1 DEF Worlds
  <2> HIDE DEF w
  <2>4. Loaded(w.chunks) \subseteq Loaded(world.chunks) \cup {c}
    BY <2>3 DEF Loaded
  <2> HIDE DEF c
  <2>5. CASE world' = w /\ ~(Cardinality({d \in Coordinates \ {c} : world.chunks[d] # None}) >= MaxChunks)
    <3>1. Cardinality(Loaded(w.chunks)) <= MaxChunks
      BY <2>1, <2>4, <2>5, OneLoaded
    <3> QED BY <2>3, <2>5, <3>1 DEF Roomy
  <2> QED BY <2>2, <2>5
<1>4. CASE ReadChunkUpdate
  <2> DEFINE w(new) == [world EXCEPT !.chunks[Frame.at] = new]
  <2>1. world' = world \/ \E new : world' = w(new) /\ (world.chunks[Frame.at] = None => new = None)
    <3>1. Frame.kind \in {"forget", "update"}
      BY <1>4 DEF ReadChunkUpdate, Reads, Frame
    <3>2. CASE ~world.active
      BY <1>4, <3>2 DEF ReadChunkUpdate, Ends
    <3>3. CASE world.active /\ Frame.kind = "forget"
      BY <1>4, <3>3 DEF ReadChunkUpdate, Goes
    <3>4. CASE world.active /\ Frame.kind = "update"
      <4> DEFINE old == world.chunks[Frame.at]
                 new == IF old = None THEN None ELSE [old EXCEPT !.data[Frame.field] = Frame.value]
      <4>1. world' = w(new)
        BY <1>1, <1>4, <3>4 DEF ReadChunkUpdate, Goes, Worlds
      <4> QED BY <4>1
    <3> QED BY <3>1, <3>2, <3>3, <3>4
  <2>2. ASSUME NEW new, world' = w(new), world.chunks[Frame.at] = None => new = None
        PROVE  Roomy(world')
    <3>1. /\ world'.store = world.store /\ world'.chunks = [world.chunks EXCEPT ![Frame.at] = new]
          /\ world.chunks \in [Coordinates -> Chunks \cup {None}]
      BY <1>1, <2>2 DEF Worlds
    <3>2. Loaded(world'.chunks) \subseteq Loaded(world.chunks)
      BY <2>2, <3>1 DEF Loaded
    <3>3. Cardinality(Loaded(world'.chunks)) <= MaxChunks
      BY <3>2, LessLoaded DEF Roomy
    <3> QED BY <3>1, <3>3 DEF Roomy
  <2> QED BY <2>1, <2>2
<1>5. CASE ReadRespawn \/ ReadStartConfiguration
  <2>1. world' = world \/ world' = Respawned(world, Frame) \/ world' = BeganConfiguration(world)
    BY <1>5 DEF ReadRespawn, ReadStartConfiguration, Goes, Ends
  <2>2. ASSUME NEW w, w = Respawned(world, Frame) \/ w = BeganConfiguration(world)
        PROVE  w.store = Cleared(world.store) /\ w.chunks = [c \in Coordinates |-> None]
    BY <1>1, <2>2 DEF Respawned, BeganConfiguration, Worlds
  <2>3. Len(Cleared(world.store).slots) <= MaxEntities
    BY <1>1, ClearedLeaves DEF Roomy
  <2> QED BY <2>1, <2>2, <2>3, NothingLoaded DEF Roomy
<1>6. CASE ReadChunk \/ ReadSetting \/ ReadPosition \/ ReadRotation \/ ReadKeepAlive
           \/ ReadBatchFinished \/ ReadHealth \/ FinishConfiguration \/ Walk \/ ForcedPosition
  <2>1. world'.store = world.store /\ world'.chunks = world.chunks
    <3>1. \A x : /\ [world EXCEPT !.rotated = TRUE].store = world.store
                 /\ [world EXCEPT !.rotated = TRUE].chunks = world.chunks
                 /\ [world EXCEPT !.rain = x].store = world.store
                 /\ [world EXCEPT !.rain = x].chunks = world.chunks
                 /\ [world EXCEPT !.mode = x].store = world.store
                 /\ [world EXCEPT !.mode = x].chunks = world.chunks
      BY <1>1 DEF Worlds
    <3>2. EnteredWorld(world, Frame).store = world.store
          /\ EnteredWorld(world, Frame).chunks = world.chunks
      BY <1>1 DEF EnteredWorld, Worlds
    <3>3. CASE ReadChunk \/ ReadKeepAlive \/ ReadBatchFinished \/ ReadHealth \/ Walk \/ ForcedPosition
      BY <3>3 DEF ReadChunk, ReadKeepAlive, ReadBatchFinished, ReadHealth, Walk, ForcedPosition, Goes
    <3>5. CASE ReadSetting
      <4>1. \/ world' = world \/ world' = [world EXCEPT !.rain = Frame.rain]
            \/ world' = [world EXCEPT !.mode = Frame.mode]
        BY <3>5 DEF ReadSetting, Goes, Ends
      <4> QED BY <3>1, <4>1
    <3>6. CASE ReadPosition
      <4>1. \/ world' = world
            \/ \E x, id : world' = [world EXCEPT !.x = x, !.rotated = TRUE, !.teleport = id]
        BY <3>6 DEF ReadPosition, Goes, Ends
      <4>2. ASSUME NEW x, NEW id, world' = [world EXCEPT !.x = x, !.rotated = TRUE, !.teleport = id]
            PROVE  world'.store = world.store /\ world'.chunks = world.chunks
        BY <1>1, <4>2 DEF Worlds
      <4> QED BY <4>1, <4>2
    <3>7. CASE ReadRotation
      BY <3>1, <3>7 DEF ReadRotation, Goes, Ends
    <3>8. CASE FinishConfiguration
      BY <3>2, <3>8 DEF FinishConfiguration, Goes
    <3> QED BY <1>6, <3>3, <3>5, <3>6, <3>7, <3>8
  <2> QED BY <2>1 DEF Roomy
<1> QED BY <1>2, <1>3, <1>4, <1>5, <1>6 DEF WorldClient

LEMMA WorldUntouched ==
  ASSUME WorldServer
  PROVE  UNCHANGED <<habit, world>>
<1>1. ASSUME NEW w, NEW packets, Does(w, packets) PROVE UNCHANGED <<habit, world>>
  BY <1>1 DEF Does
<1>2. ASSUME NEW p, NEW id, NEW e, Tell(p, id, e) PROVE UNCHANGED <<habit, world>>
  BY <1>1, <1>2 DEF Tell
<1>3. CASE ServerSpawns \/ ServerMovesEntity
  BY <1>2, <1>3 DEF ServerSpawns, ServerMovesEntity
<1>4. CASE ServerRemoves \/ ServerPushes \/ ServerSendsChunk \/ ServerForgets \/ ServerUpdates
           \/ ServerSetsWorld \/ ServerTurns \/ ServerKills \/ ServerAsks
  BY <1>1, <1>4 DEF ServerRemoves, ServerPushes, ServerSendsChunk, ServerForgets, ServerUpdates,
                    ServerSetsWorld, ServerTurns, ServerKills, ServerAsks
<1>5. CASE ServerTeleports \/ ServerRepeats \/ ServerRespawns
  BY <1>1, <1>5 DEF ServerTeleports, ServerRepeats, ServerRespawns
<1>6. CASE ServerReconfigures \/ ServerReceives \/ ServerRelogs \/ ServerDiscards
  BY <1>6 DEF ServerReconfigures, ServerReceives, ServerRelogs, ServerDiscards
<1> QED BY <1>3, <1>4, <1>5, <1>6 DEF WorldServer

LEMMA RoomyStep == Typed /\ Roomy(world) /\ [Next]_vars => Roomy(world') /\ habit' = habit
<1> SUFFICES ASSUME Typed, Roomy(world), [Next]_vars PROVE Roomy(world') /\ habit' = habit
  OBVIOUS
<1>1. CASE UNCHANGED vars
  BY <1>1 DEF vars, sessionVars, inventoryVars
<1>2. CASE InventoryStep
  <2>1. world' = world
    BY <1>2 DEF InventoryStep, sessionVars
  <2>2. habit' = habit
    <3>1. EventsOK /\ MailboxOK /\ UpOK(up) /\ DownOK(down)
      BY DEF Typed, ServerOK
    <3> QED BY <1>2, <3>1, InventoryStepEffect DEF InventoryEffect
  <2> QED BY <2>1, <2>2
<1>3. CASE WorldClient
  BY <1>3, ClientRoomy, WorldClientStep DEF ClientStep, Typed, UpOK
<1>4. CASE WorldServer
  BY <1>4, WorldUntouched
<1> QED BY <1>1, <1>2, <1>3, <1>4 DEF Next

\* What the session is of, the menus' packets and the bounds of the world included.
TypeInv == WorldInv /\ Fits /\ Roomy(world) /\ habit \in Habits

\* Every copy of the inventory fits the menus the server opened, and the world its bounds.
LEMMA TypeInvOK == TypeInv => TypeOK
<1> SUFFICES ASSUME TypeInv PROVE TypeOK
  OBVIOUS
<1>1. world \in Worlds /\ task \in Tasks /\ world.active = (world.own # None)
      /\ (task.sim # None => WorldMode)
  BY DEF TypeInv, WorldInv, Typed, Sound, ClientOK
<1>2. WorldTypeOK
  BY <1>1 DEF WorldTypeOK, TypeInv, Roomy, Loaded, Worlds, Tasks, Simulations
<1>3. InventoryTypeOK
  BY FitsTypeOK DEF TypeInv, WorldInv, Typed
<1> QED BY <1>2, <1>3 DEF TypeOK, TypeInv

THEOREM TypesInductive == Spec => []TypeInv
<1>1. Init => TypeInv
  <2> SUFFICES ASSUME Init PROVE TypeInv
    OBVIOUS
  <2>1. WorldInv
    BY TypedInit, PhaseInit, StaysInit DEF WorldInv
  <2>2. Fits /\ habit \in Habits
    BY FitsInit DEF Init
  <2>3. Roomy(world)
    <3>1. world.store = NoEntities /\ world.chunks = [c \in Coordinates |-> None]
      BY DEF Init, Settled
    <3>2. Len(NoEntities.slots) = 0
      BY DEF NoEntities
    <3> QED BY <3>1, <3>2, NothingLoaded, SessionAssumption DEF Roomy
  <2> QED BY <2>1, <2>2, <2>3 DEF TypeInv
<1>2. TypeInv /\ [Next]_vars => TypeInv'
  <2> SUFFICES ASSUME TypeInv, [Next]_vars PROVE TypeInv'
    OBVIOUS
  <2>1. Typed /\ Phase /\ Stays /\ Fits /\ Roomy(world) /\ habit \in Habits
    BY DEF TypeInv, WorldInv
  <2>2. Typed' /\ Phase' /\ Stays'
    BY <2>1, TypedStep, PhaseStep, StaysStep
  <2>3. Fits' /\ Roomy(world') /\ habit' = habit
    BY <2>1, FitsStep, RoomyStep
  <2> QED BY <2>1, <2>2, <2>3 DEF TypeInv, WorldInv
<1> QED BY <1>1, <1>2, PTL DEF Spec

\* TypeOK of the play session: no slot or cursor holds more than its stack takes, a drag is of
\* the container that shows it, the mailbox keeps to its bound, and the session stores no entity
\* and no chunk more than MAX_REMOTE_ENTITIES and MAX_LOADED_CHUNKS.
THEOREM SessionTypes == Spec => []TypeOK
<1>1. TypeInv => TypeOK
  BY TypeInvOK
<1> QED BY <1>1, TypesInductive, PTL

-----------------------------------------------------------------------------
\* The order in which the menus are told. Every packet of a menu comes behind the one
\* that opens it, a change of a slot behind the content, and none behind the one that
\* closes it or opens another.

Tellable == {"open", "content"}
Ordered(s) ==
    \A i, j \in DOMAIN s : i < j /\ OfMenu(s[i]) /\ OfMenu(s[j]) =>
        /\ s[i].id <= s[j].id
        /\ s[j].kind = "open" \/ s[i].kind = "close" => s[i].id < s[j].id
\* What has been told of a menu before the m-th packet: the session knows it, or it is said.
Came(kind, known, s, m, id) ==
    id \in known[kind] \/ \E j \in 1 .. m - 1 : s[j].kind = kind /\ s[j].id = id
\* The n-th menu was the last; what is told of it, if the server has it open, is `at'.
Queued(s, n, at, known) ==
    /\ Ordered(s)
    /\ \A i \in DOMAIN s : OfMenu(s[i]) =>
        /\ s[i].id \in Nat /\ s[i].id <= n
        /\ at # {} /\ s[i].kind = "close" => s[i].id < n
    /\ \A kind \in at : Came(kind, known, s, Len(s) + 1, n)
    /\ \A i \in DOMAIN s : OfMenu(s[i]) =>
        /\ s[i].kind # "open" => Came("open", known, s, i, s[i].id)
        /\ s[i].kind = "slot" => Came("content", known, s, i, s[i].id)

LEMMA CameJoined ==
  ASSUME NEW s, IsSeq(s), NEW t, IsSeq(t), NEW kind, NEW known, NEW id, NEW m, NEW k,
         m \in Nat, k \in Nat, m <= Len(s) + 1, m <= k, Came(kind, known, s, m, id)
  PROVE  Came(kind, known, s \o t, k, id)
<1>1. Len(s) \in Nat /\ \A i \in 1 .. Len(s) : (s \o t)[i] = s[i]
  BY Joined
<1>2. CASE id \in known[kind]
  BY <1>2 DEF Came
<1>3. CASE \E j \in 1 .. m - 1 : s[j].kind = kind /\ s[j].id = id
  <2>1. PICK j \in 1 .. m - 1 : s[j].kind = kind /\ s[j].id = id
    BY <1>3
  <2>2. j \in 1 .. Len(s) /\ j \in 1 .. k - 1
    BY <1>1
  <2>3. (s \o t)[j].kind = kind /\ (s \o t)[j].id = id
    BY <1>1, <2>1, <2>2
  <2> QED BY <2>2, <2>3 DEF Came
<1> QED BY <1>2, <1>3 DEF Came

\* Of the menu that is open, more is told.
LEMMA QueuedJoined ==
  ASSUME NEW s, IsSeq(s), NEW n \in Nat, NEW at, NEW known, Queued(s, n, at, known),
         NEW t, IsSeq(t),
         \A i \in DOMAIN t : OfMenu(t[i]) =>
           t[i].kind \in {"content", "slot"} /\ t[i].id = n /\ at = Tellable
  PROVE  Queued(s \o t, n, at, known)
<1> DEFINE u == s \o t
           l == Len(s)
<1>1. /\ l \in Nat /\ Len(t) \in Nat /\ Len(u) = l + Len(t) /\ DOMAIN s = 1 .. l
      /\ DOMAIN t = 1 .. Len(t) /\ DOMAIN u = 1 .. l + Len(t)
  BY Joined
<1>2. \A i \in DOMAIN u : \/ i \in DOMAIN s /\ i <= l /\ u[i] = s[i]
                          \/ i - l \in DOMAIN t /\ i > l /\ u[i] = t[i - l]
  <2> TAKE i \in DOMAIN u
  <2>1. i \in 1 .. l \/ (i - l \in 1 .. Len(t) /\ u[i] = t[i - l])
    BY <1>1, Joined
  <2>2. i \in 1 .. l => u[i] = s[i]
    BY Joined
  <2> HIDE DEF u, l
  <2> QED BY <1>1, <2>1, <2>2
<1> HIDE DEF u, l
<1>3. Ordered(u)
  <2> SUFFICES ASSUME NEW i \in DOMAIN u, NEW j \in DOMAIN u, i < j, OfMenu(u[i]), OfMenu(u[j])
               PROVE  /\ u[i].id <= u[j].id
                      /\ u[j].kind = "open" \/ u[i].kind = "close" => u[i].id < u[j].id
    BY DEF Ordered
  <2>1. i \in Nat /\ j \in Nat
    BY <1>1
  <2>2. CASE i \in DOMAIN s /\ u[i] = s[i] /\ j \in DOMAIN s /\ u[j] = s[j]
    BY <2>2 DEF Queued, Ordered
  <2>3. CASE i \in DOMAIN s /\ u[i] = s[i] /\ j - l \in DOMAIN t /\ u[j] = t[j - l]
    <3>1. u[j].kind \in {"content", "slot"} /\ u[j].id = n /\ at = Tellable
      BY <2>3
    <3>2. s[i].id \in Nat /\ s[i].id <= n /\ (s[i].kind = "close" => s[i].id < n)
      BY <2>3, <3>1 DEF Queued, Tellable
    <3> QED BY <2>3, <3>1, <3>2
  <2>4. CASE i - l \in DOMAIN t /\ u[i] = t[i - l] /\ j - l \in DOMAIN t /\ u[j] = t[j - l]
    <3>1. u[j].kind \in {"content", "slot"} /\ u[j].id = n
      BY <2>4
    <3>2. u[i].kind \in {"content", "slot"} /\ u[i].id = n
      BY <2>4
    <3> QED BY <3>1, <3>2
  <2>5. CASE i > l /\ j <= l
    BY <1>1, <2>1, <2>5
  <2> QED BY <1>2, <2>2, <2>3, <2>4, <2>5
<1>4. ASSUME NEW i \in DOMAIN u, OfMenu(u[i])
      PROVE  /\ u[i].id \in Nat /\ u[i].id <= n
             /\ at # {} /\ u[i].kind = "close" => u[i].id < n
  <2>1. CASE i \in DOMAIN s /\ u[i] = s[i]
    BY <1>4, <2>1 DEF Queued
  <2>2. CASE i - l \in DOMAIN t /\ u[i] = t[i - l]
    BY <1>4, <2>2
  <2> QED BY <1>2, <2>1, <2>2
<1>5. ASSUME NEW kind \in at PROVE Came(kind, known, u, Len(u) + 1, n)
  <2>1. Came(kind, known, s, l + 1, n)
    BY DEF Queued, l
  <2>2. l + 1 \in Nat /\ Len(u) + 1 \in Nat /\ l + 1 <= Len(u) + 1
    BY <1>1
  <2> QED BY <2>1, <2>2, CameJoined DEF u, l
<1>6. ASSUME NEW i \in DOMAIN u, OfMenu(u[i])
      PROVE  /\ u[i].kind # "open" => Came("open", known, u, i, u[i].id)
             /\ u[i].kind = "slot" => Came("content", known, u, i, u[i].id)
  <2>1. CASE i \in DOMAIN s /\ u[i] = s[i]
    <3>1. i \in Nat /\ i <= l + 1
      BY <1>1, <2>1
    <3>2. \A kind : Came(kind, known, s, i, s[i].id) => Came(kind, known, u, i, s[i].id)
      BY <3>1, CameJoined DEF u, l
    <3> QED BY <1>6, <2>1, <3>2 DEF Queued
  <2>2. CASE i - l \in DOMAIN t /\ u[i] = t[i - l]
    <3>1. u[i].id = n /\ at = Tellable
      BY <1>6, <2>2
    <3>2. l + 1 \in Nat /\ i \in Nat /\ l + 1 <= i
      BY <1>1, <2>2
    <3>3. \A kind : Came(kind, known, s, l + 1, n) => Came(kind, known, u, i, n)
      BY <3>2, CameJoined DEF u, l
    <3>4. \A kind \in Tellable : Came(kind, known, s, l + 1, n)
      BY <3>1 DEF Queued, l
    <3> QED BY <3>1, <3>3, <3>4 DEF Tellable
  <2> QED BY <1>2, <2>1, <2>2
<1> QED BY <1>3, <1>4, <1>5, <1>6 DEF Queued, u

\* One packet more: the menu is closed, or opened, or its content told.
LEMMA QueuedAppended ==
  ASSUME NEW s, IsSeq(s), NEW n \in Nat, NEW at, NEW known, Queued(s, n, at, known),
         NEW p, OfMenu(p), NEW m \in Nat, p.id = m, n <= m, NEW to,
         p.kind = "open" \/ at = {} => n < m,
         p.kind # "open" => m = n /\ "open" \in at,
         p.kind # "slot", p.kind = "close" => to = {},
         to \subseteq {p.kind} \cup (IF m = n THEN at ELSE {})
  PROVE  Queued(s \o <<p>>, m, to, known)
<1> DEFINE t == <<p>>
           u == s \o t
           l == Len(s)
<1>0. IsSeq(t) /\ Len(t) = 1 /\ DOMAIN t = {1} /\ t[1] = p
  BY Short
<1>1. l \in Nat /\ Len(u) = l + 1 /\ DOMAIN s = 1 .. l /\ DOMAIN u = 1 .. l + 1
  BY <1>0, Joined
<1>2. /\ \A i \in DOMAIN u : (i \in DOMAIN s /\ i <= l /\ u[i] = s[i]) \/ (i = l + 1 /\ u[i] = p)
      /\ u[l + 1] = p
  <2>1. \A i \in 1 .. l : u[i] = s[i]
    BY <1>0, Joined
  <2>2. u[l + 1] = p
    <3>1. 1 \in 1 .. Len(t)
      BY <1>0
    <3> QED BY <1>0, <3>1, Joined
  <2> HIDE DEF u, l
  <2> QED BY <1>1, <2>1, <2>2
<1> HIDE DEF u, l, t
<1>3. ASSUME NEW i \in DOMAIN s, OfMenu(s[i])
      PROVE  /\ s[i].id \in Nat /\ s[i].id <= m
             /\ p.kind = "open" \/ s[i].kind = "close" => s[i].id < m
  <2>1. s[i].id \in Nat /\ s[i].id <= n /\ (at # {} /\ s[i].kind = "close" => s[i].id < n)
    BY <1>3 DEF Queued
  <2> QED BY <2>1
<1>4. Ordered(u)
  <2> SUFFICES ASSUME NEW i \in DOMAIN u, NEW j \in DOMAIN u, i < j, OfMenu(u[i]), OfMenu(u[j])
               PROVE  /\ u[i].id <= u[j].id
                      /\ u[j].kind = "open" \/ u[i].kind = "close" => u[i].id < u[j].id
    BY DEF Ordered
  <2>1. i \in 1 .. l + 1 /\ j \in 1 .. l + 1 /\ i # l + 1
    BY <1>1
  <2>2. i \in DOMAIN s /\ u[i] = s[i]
    BY <1>2, <2>1
  <2>3. CASE j \in DOMAIN s /\ u[j] = s[j]
    BY <2>2, <2>3 DEF Queued, Ordered
  <2>4. CASE u[j] = p
    BY <1>3, <2>2, <2>4
  <2> QED BY <1>2, <2>3, <2>4
<1>5. ASSUME NEW i \in DOMAIN u, OfMenu(u[i])
      PROVE  /\ u[i].id \in Nat /\ u[i].id <= m
             /\ to # {} /\ u[i].kind = "close" => u[i].id < m
  BY <1>2, <1>3, <1>5
<1>6. \A kind, id, i, k : i \in Nat /\ k \in Nat /\ i <= l + 1 /\ i <= k
                          /\ Came(kind, known, s, i, id) => Came(kind, known, u, k, id)
  BY <1>0, CameJoined DEF u, l
<1>7. ASSUME NEW kind \in at, m = n PROVE Came(kind, known, u, l + 1, m) /\ Came(kind, known, u, l + 2, m)
  <2>1. Came(kind, known, s, l + 1, n)
    BY DEF Queued, l
  <2>2. l + 1 \in Nat /\ l + 2 \in Nat /\ l + 1 <= l + 1 /\ l + 1 <= l + 2
    BY <1>1
  <2> QED BY <1>6, <1>7, <2>1, <2>2
<1>8. ASSUME NEW kind \in to PROVE Came(kind, known, u, Len(u) + 1, m)
  <2>1. Len(u) + 1 = l + 2 /\ l + 1 \in 1 .. (Len(u) + 1) - 1
    BY <1>1
  <2>2. CASE kind = p.kind
    <3>1. u[l + 1].kind = kind /\ u[l + 1].id = m
      BY <1>2, <2>2
    <3> QED BY <2>1, <3>1 DEF Came
  <2>3. CASE kind \in at /\ m = n
    BY <1>7, <2>1, <2>3
  <2> QED BY <2>2, <2>3
<1>9. ASSUME NEW i \in DOMAIN u, OfMenu(u[i])
      PROVE  /\ u[i].kind # "open" => Came("open", known, u, i, u[i].id)
             /\ u[i].kind = "slot" => Came("content", known, u, i, u[i].id)
  <2>1. CASE i \in DOMAIN s /\ u[i] = s[i]
    <3>1. i \in Nat /\ i <= l + 1 /\ i <= i
      BY <1>1, <2>1
    <3>2. \A kind : Came(kind, known, s, i, s[i].id) => Came(kind, known, u, i, s[i].id)
      BY <1>6, <3>1
    <3> QED BY <1>9, <2>1, <3>2 DEF Queued
  <2>2. CASE i = l + 1 /\ u[i] = p
    BY <1>7, <2>2
  <2> QED BY <1>2, <2>1, <2>2
<1> QED BY <1>4, <1>5, <1>8, <1>9 DEF Queued, u, t

\* Of the menus not lost, what was known or the packet tells is known.
Recalls(p, known, learned, lost) ==
    \A kind \in Tellable : \A id :
      (id \in known[kind] \/ (p.kind = kind /\ p.id = id)) /\ id \notin lost => id \in learned[kind]
Spared(s, n, at, lost) ==
    /\ \A i \in DOMAIN s : OfMenu(s[i]) => s[i].id \notin lost
    /\ at # {} => n \notin lost

\* The first is read, and the menus that are lost with it are not told of any more.
LEMMA QueuedPopped ==
  ASSUME NEW s, IsSeq(s), s # <<>>, NEW n, NEW at, at \subseteq Tellable, NEW known,
         Queued(s, n, at, known), NEW learned, NEW lost,
         Recalls(Head(s), known, learned, lost), Spared(Tail(s), n, at, lost)
  PROVE  Queued(Tail(s), n, at, learned)
<1> DEFINE t == Tail(s)
           l == Len(t)
<1>1. /\ l \in Nat /\ DOMAIN s = 1 .. l + 1 /\ DOMAIN t = 1 .. l /\ Head(s) = s[1] /\ Len(s) = l + 1
      /\ \A i \in 1 .. l : i + 1 \in DOMAIN s /\ t[i] = s[i + 1]
  BY Popped
<1> DEFINE p == Head(s)
<1> HIDE DEF t, l, p
<1>2. ASSUME NEW kind \in Tellable, NEW i \in 1 .. l + 1, NEW id, id \notin lost,
             Came(kind, known, s, i + 1, id)
      PROVE  Came(kind, learned, t, i, id)
  <2>1. CASE id \in known[kind]
    BY <1>2, <2>1 DEF Came, Recalls
  <2>2. CASE \E j \in 1 .. i + 1 - 1 : s[j].kind = kind /\ s[j].id = id
    <3>1. PICK j \in 1 .. i + 1 - 1 : s[j].kind = kind /\ s[j].id = id
      BY <2>2
    <3>2. CASE j = 1
      BY <1>1, <1>2, <3>1, <3>2 DEF Came, Recalls, p
    <3>3. CASE j # 1
      <4>1. j - 1 \in 1 .. i - 1 /\ j - 1 \in 1 .. l /\ (j - 1) + 1 = j
        BY <1>1, <3>3
      <4>2. t[j - 1] = s[j]
        BY <1>1, <4>1
      <4> QED BY <3>1, <4>1, <4>2 DEF Came
    <3> QED BY <3>2, <3>3
  <2> QED BY <1>2, <2>1, <2>2 DEF Came
<1>3. Ordered(t)
  <2> SUFFICES ASSUME NEW i \in DOMAIN t, NEW j \in DOMAIN t, i < j, OfMenu(t[i]), OfMenu(t[j])
               PROVE  /\ t[i].id <= t[j].id
                      /\ t[j].kind = "open" \/ t[i].kind = "close" => t[i].id < t[j].id
    BY DEF Ordered
  <2>1. i + 1 \in DOMAIN s /\ j + 1 \in DOMAIN s /\ t[i] = s[i + 1] /\ t[j] = s[j + 1] /\ i + 1 < j + 1
    BY <1>1
  <2> QED BY <2>1 DEF Queued, Ordered
<1>4. \A i \in DOMAIN t : OfMenu(t[i]) =>
        /\ t[i].id \in Nat /\ t[i].id <= n
        /\ at # {} /\ t[i].kind = "close" => t[i].id < n
  BY <1>1 DEF Queued
<1>5. ASSUME NEW kind \in at PROVE Came(kind, learned, t, Len(t) + 1, n)
  <2>1. Came(kind, known, s, (l + 1) + 1, n) /\ n \notin lost /\ kind \in Tellable
    BY <1>1 DEF Queued, Spared
  <2>2. l + 1 \in 1 .. l + 1
    BY <1>1
  <2> QED BY <1>2, <2>1, <2>2 DEF l
<1>6. ASSUME NEW i \in DOMAIN t, OfMenu(t[i])
      PROVE  /\ t[i].kind # "open" => Came("open", learned, t, i, t[i].id)
             /\ t[i].kind = "slot" => Came("content", learned, t, i, t[i].id)
  <2>1. i \in 1 .. l + 1 /\ i + 1 \in DOMAIN s /\ t[i] = s[i + 1] /\ t[i].id \notin lost
    BY <1>1, <1>6 DEF t, Spared
  <2>2. /\ t[i].kind # "open" => Came("open", known, s, i + 1, t[i].id)
        /\ t[i].kind = "slot" => Came("content", known, s, i + 1, t[i].id)
    BY <1>6, <2>1 DEF Queued
  <2> QED BY <1>2, <2>1, <2>2 DEF Tellable
<1> QED BY <1>3, <1>4, <1>5, <1>6 DEF Queued, t

\* The session knows more, or the server has closed the menu.
LEMMA QueuedLearned ==
  ASSUME NEW s, NEW n, NEW at, at \subseteq Tellable, NEW known, Queued(s, n, at, known),
         NEW to, to \subseteq at, NEW learned,
         \A kind \in Tellable : known[kind] \subseteq learned[kind]
  PROVE  Queued(s, n, to, learned)
<1>1. \A kind \in Tellable : \A m, id : Came(kind, known, s, m, id) => Came(kind, learned, s, m, id)
  BY DEF Came
<1>2. \A kind \in to : Came(kind, learned, s, Len(s) + 1, n)
  BY <1>1 DEF Queued
<1>3. \A i \in DOMAIN s : OfMenu(s[i]) =>
        /\ s[i].kind # "open" => Came("open", learned, s, i, s[i].id)
        /\ s[i].kind = "slot" => Came("content", learned, s, i, s[i].id)
  BY <1>1 DEF Queued, Tellable
<1> QED BY <1>2, <1>3 DEF Queued

-----------------------------------------------------------------------------
\* What the session, its mailbox and its copies know of is older than what is still to
\* be opened.

OpenId(inv) == IF inv.open = None THEN {} ELSE {inv.open.id}
FilledId(inv) == {id \in OpenId(inv) : inv.open.slots # NoSlots}
Learned(n) ==
    [kind \in Tellable |-> n.closed \cup (IF kind = "open" THEN OpenId(n.inv) ELSE FilledId(n.inv))]
Opening(p) == OfMenu(p) /\ p.kind = "open"
Before(id, last, s) ==
    /\ id \in Nat /\ id <= last
    /\ \A i \in DOMAIN s : OfMenu(s[i]) => id <= s[i].id /\ (Opening(s[i]) => id < s[i].id)
Marked(ids, last, s) ==
    \A id \in ids : /\ id \in Nat /\ id <= last
                    /\ \A i \in DOMAIN s : Opening(s[i]) => id < s[i].id
Fronted(n, last, s) ==
    n.inv.open # None => Before(n.inv.open.id, last, s) /\ \A c \in n.closed : c < n.inv.open.id
Orders(marks, n, s, last, at) ==
    Queued(s, last, at, Learned(n)) /\ Marked(marks, last, s) /\ Fronted(n, last, s)

Marks == net.closed \cup OpenId(ui.inv) \cup (IF render = None THEN {} ELSE OpenId(render))
         \cup Closes(mailbox)
At(inv) == IF inv.open = None THEN {} ELSE Tellable
Order == Orders(Marks, net, down, server.opened, At(server.inv))

Later(t, last) == \A i \in DOMAIN t : OfMenu(t[i]) => last <= t[i].id /\ (Opening(t[i]) => last < t[i].id)

LEMMA MarkedLater ==
  ASSUME NEW s, IsSeq(s), NEW t, IsSeq(t), NEW last \in Nat, Later(t, last), NEW next \in Nat,
         last <= next, \A i \in DOMAIN t : OfMenu(t[i]) => t[i].id \in Nat
  PROVE  /\ \A ids : Marked(ids, last, s) => Marked(ids, next, s \o t)
         /\ \A n : Fronted(n, last, s) => Fronted(n, next, s \o t)
<1> DEFINE u == s \o t
<1>1. \A i \in DOMAIN u : \/ i \in DOMAIN s /\ u[i] = s[i]
                          \/ \E k \in DOMAIN t : u[i] = t[k]
  <2> TAKE i \in DOMAIN u
  <2>0. i \in 1 .. Len(s) + Len(t)
    <3>1. DOMAIN u = 1 .. Len(s) + Len(t)
      BY Joined
    <3> QED BY <3>1
  <2>1. i \in 1 .. Len(s) \/ (i - Len(s) \in 1 .. Len(t) /\ u[i] = t[i - Len(s)])
    BY <2>0, Joined
  <2>2. i \in 1 .. Len(s) => u[i] = s[i]
    BY Joined
  <2>3. DOMAIN t = 1 .. Len(t) /\ DOMAIN s = 1 .. Len(s)
    BY Joined
  <2> HIDE DEF u
  <2> QED BY <2>1, <2>2, <2>3
<1> HIDE DEF u
<1>2. ASSUME NEW ids, Marked(ids, last, s) PROVE Marked(ids, next, u)
  <2> SUFFICES ASSUME NEW id \in ids
               PROVE  /\ id \in Nat /\ id <= next
                      /\ \A i \in DOMAIN u : Opening(u[i]) => id < u[i].id
    BY DEF Marked
  <2>1. id \in Nat /\ id <= last /\ \A i \in DOMAIN s : Opening(s[i]) => id < s[i].id
    BY <1>2 DEF Marked
  <2>2. \A k \in DOMAIN t : Opening(t[k]) => t[k].id \in Nat /\ last < t[k].id
    BY DEF Later, Opening
  <2>3. \A k \in DOMAIN t : Opening(t[k]) => id < t[k].id
    BY <2>1, <2>2
  <2> QED BY <1>1, <2>1, <2>3
<1>3. ASSUME NEW id, Before(id, last, s) PROVE Before(id, next, u)
  <2>1. /\ id \in Nat /\ id <= last
        /\ \A i \in DOMAIN s : OfMenu(s[i]) => id <= s[i].id /\ (Opening(s[i]) => id < s[i].id)
    BY <1>3 DEF Before
  <2>2. \A k \in DOMAIN t : OfMenu(t[k]) =>
          t[k].id \in Nat /\ last <= t[k].id /\ (Opening(t[k]) => last < t[k].id)
    BY DEF Later
  <2>3. \A k \in DOMAIN t : OfMenu(t[k]) => id <= t[k].id /\ (Opening(t[k]) => id < t[k].id)
    BY <2>1, <2>2
  <2>4. id <= next
    BY <2>1
  <2> QED BY <1>1, <2>1, <2>3, <2>4 DEF Before
<1> QED BY <1>2, <1>3 DEF Fronted, u

LEMMA MarkedPopped ==
  ASSUME NEW s, IsSeq(s), s # <<>>, NEW last
  PROVE  /\ \A ids : Marked(ids, last, s) => Marked(ids, last, Tail(s))
         /\ \A id : Before(id, last, s) => Before(id, last, Tail(s))
         /\ \A n : Fronted(n, last, s) => Fronted(n, last, Tail(s))
<1>1. \A i \in DOMAIN Tail(s) : i + 1 \in DOMAIN s /\ Tail(s)[i] = s[i + 1]
  BY Popped
<1>2. \A ids : Marked(ids, last, s) => Marked(ids, last, Tail(s))
  BY <1>1 DEF Marked
<1>3. \A id : Before(id, last, s) => Before(id, last, Tail(s))
  BY <1>1 DEF Before
<1> QED BY <1>2, <1>3 DEF Fronted

LEMMA AtTellable == \A inv : At(inv) \subseteq Tellable
BY DEF At

\* The server tells more of the menu that is open.
LEMMA OrdersJoined ==
  ASSUME NEW marks, NEW n, NEW s, IsSeq(s), NEW last \in Nat, NEW at, Orders(marks, n, s, last, at),
         NEW t, IsSeq(t),
         \A i \in DOMAIN t : OfMenu(t[i]) =>
           t[i].kind \in {"content", "slot"} /\ t[i].id = last /\ at = Tellable
  PROVE  Orders(marks, n, s \o t, last, at)
<1>1. Queued(s \o t, last, at, Learned(n))
  BY QueuedJoined DEF Orders
<1>2. Later(t, last) /\ \A i \in DOMAIN t : OfMenu(t[i]) => t[i].id \in Nat
  BY DEF Later, Opening
<1> QED BY <1>1, <1>2, MarkedLater DEF Orders

\* It closes it, opens one or tells its content.
LEMMA OrdersAppended ==
  ASSUME NEW marks, NEW n, NEW s, IsSeq(s), NEW last \in Nat, NEW at, Orders(marks, n, s, last, at),
         NEW p, OfMenu(p), NEW m \in Nat, p.id = m, last <= m, NEW to,
         p.kind = "open" \/ at = {} => last < m,
         p.kind # "open" => m = last /\ "open" \in at,
         p.kind # "slot", p.kind = "close" => to = {},
         to \subseteq {p.kind} \cup (IF m = last THEN at ELSE {})
  PROVE  Orders(marks, n, s \o <<p>>, m, to)
<1>1. Queued(s \o <<p>>, m, to, Learned(n))
  <2>1. Queued(s, last, at, Learned(n))
    BY DEF Orders
  <2> QED BY <2>1, QueuedAppended
<1>2. IsSeq(<<p>>) /\ DOMAIN <<p>> = {1} /\ <<p>>[1] = p
  BY Short
<1>3. Later(<<p>>, last) /\ \A i \in DOMAIN <<p>> : OfMenu(<<p>>[i]) => <<p>>[i].id \in Nat
  BY <1>2 DEF Later, Opening
<1> QED BY <1>1, <1>2, <1>3, MarkedLater DEF Orders

\* It has none open any more.
LEMMA OrdersFewer ==
  ASSUME NEW marks, NEW n, NEW s, NEW last, NEW at, at \subseteq Tellable,
         Orders(marks, n, s, last, at), NEW to, to \subseteq at
  PROVE  Orders(marks, n, s, last, to)
<1>1. Queued(s, last, to, Learned(n))
  BY QueuedLearned DEF Orders
<1> QED BY <1>1 DEF Orders

\* A menu the server had open is closed, or there is none.
LEMMA OrdersGoodbye ==
  ASSUME NEW of, ServerFit(of, server), NEW marks, NEW n, NEW s, IsSeq(s), server.opened \in Nat,
         Orders(marks, n, s, server.opened, At(server.inv)), NEW first, Goodbye(server.inv, first)
  PROVE  Orders(marks, n, s \o first, server.opened, {}) /\ IsSeq(first) /\ IsSeq(s \o first)
<1> DEFINE last == server.opened
           at == At(server.inv)
<1>1. CASE first = <<>>
  <2>1. IsSeq(first) /\ DOMAIN first = {}
    BY <1>1, Short
  <2>2. Orders(marks, n, s \o first, last, at)
    BY <2>1, OrdersJoined
  <2> QED BY <2>1, <2>2, AtTellable, OrdersFewer, Joined
<1>2. CASE server.inv.open # None /\ first = <<[kind |-> "close", id |-> server.inv.open.id]>>
  <2> DEFINE p == [kind |-> "close", id |-> server.inv.open.id]
  <2>1. server.inv.open.id = last /\ server.inv.open.id # PlayerId
    BY <1>2 DEF ServerFit, MenuServed, InventoryFit, OpenFit
  <2>2. p.kind = "close" /\ p.id = last /\ first = <<p>> /\ OfMenu(p)
    BY <1>2, <2>1 DEF OfMenu
  <2> HIDE DEF p
  <2>3. at = Tellable /\ "open" \in at /\ at # {} /\ last <= last
    BY <1>2 DEF At, Tellable
  <2> HIDE DEF at, last
  <2>4. Orders(marks, n, s, last, at) /\ last \in Nat
    BY DEF at, last
  <2>5. Orders(marks, n, s \o <<p>>, last, {})
    BY <2>2, <2>3, <2>4, OrdersAppended
  <2> QED BY <2>2, <2>5, Short, Joined DEF last
<1> QED BY <1>1, <1>2 DEF Goodbye

-----------------------------------------------------------------------------
\* Every step keeps the order.

LEMMA LearnedIs ==
  ASSUME NEW n
  PROVE  /\ Learned(n)["open"] = n.closed \cup OpenId(n.inv)
         /\ Learned(n)["content"] = n.closed \cup FilledId(n.inv)
         /\ Tellable = {"open", "content"}
<1>1. "open" \in Tellable /\ "content" \in Tellable /\ "open" # "content"
  BY DEF Tellable
<1> QED BY <1>1 DEF Learned, Tellable

LEMMA OrdersHeld ==
  ASSUME NEW marks, NEW n, NEW s, NEW last, NEW at, Orders(marks, n, s, last, at),
         NEW new, new.inv = n.inv, new.closed = n.closed
  PROVE  Orders(marks, new, s, last, at)
<1>1. Learned(new) = Learned(n)
  BY DEF Learned
<1>2. Fronted(new, last, s) <=> Fronted(n, last, s)
  BY DEF Fronted
<1> QED BY <1>1, <1>2 DEF Orders

\* A step of the client learns more and remembers no menu but the one it had open.
LEMMA OrdersKept ==
  ASSUME NEW marks, NEW n, NEW s, NEW last, NEW at, Orders(marks, n, s, last, at), at \subseteq Tellable,
         NEW new, Fronted(new, last, s),
         Learned(n)["open"] \subseteq Learned(new)["open"],
         Learned(n)["content"] \subseteq Learned(new)["content"],
         NEW left, left \subseteq marks \cup OpenId(n.inv)
  PROVE  Orders(left, new, s, last, at)
<1>1. \A kind \in Tellable : Learned(n)[kind] \subseteq Learned(new)[kind]
  BY DEF Tellable
<1>2. Queued(s, last, at, Learned(new))
  <2> DEFINE known == Learned(n)
             learned == Learned(new)
  <2>1. Queued(s, last, at, known) /\ \A kind \in Tellable : known[kind] \subseteq learned[kind]
    BY <1>1 DEF Orders
  <2> HIDE DEF known, learned
  <2>2. Queued(s, last, at, learned)
    BY <2>1, QueuedLearned
  <2> QED BY <2>2 DEF learned
<1>3. Marked(OpenId(n.inv), last, s)
  <2> SUFFICES ASSUME n.inv.open # None PROVE Marked({n.inv.open.id}, last, s)
    BY DEF OpenId, Marked
  <2>1. Before(n.inv.open.id, last, s)
    BY DEF Orders, Fronted
  <2> QED BY <2>1 DEF Before, Marked, Opening
<1>4. Marked(left, last, s)
  BY <1>3 DEF Orders, Marked
<1> QED BY <1>2, <1>4 DEF Orders

LEMMA HandledOrder ==
  ASSUME NEW of, AllFit(of), server.opened \in Nat, IsSeq(down), Order, HandledEffect(of)
  PROVE  Order'
<1> DEFINE last == server.opened
           at == At(server.inv)
<1>1. /\ UNCHANGED <<ui, mailbox, render, net>> /\ server'.opened = last
      /\ Speaks(of, server'.inv, server.inv) /\ ServerFit(of, server)
  BY DEF HandledEffect, AllFit
<1>2. Marks' = Marks
  BY <1>1 DEF Marks
<1>3. Orders(Marks, net, down, last, at)
  BY DEF Order
<1>4. ASSUME Orders(Marks, net, down', last, At(server'.inv)) PROVE Order'
  BY <1>1, <1>2, <1>4 DEF Order
<1>5. CASE SameOpen(server'.inv, server.inv)
           /\ \E said : /\ down' = down \o said /\ Said(of, said)
                        /\ \A i \in DOMAIN said : OfMenu(said[i]) =>
                             said[i].kind \in {"content", "slot"} /\ HasOpen(server.inv, said[i].id)
  <2>1. PICK said : /\ down' = down \o said /\ Said(of, said)
                    /\ \A i \in DOMAIN said : OfMenu(said[i]) =>
                         said[i].kind \in {"content", "slot"} /\ HasOpen(server.inv, said[i].id)
    BY <1>5
  <2>2. IsSeq(said)
    BY <2>1 DEF Said, UpdatesOnly
  <2>3. \A i \in DOMAIN said : OfMenu(said[i]) =>
          said[i].kind \in {"content", "slot"} /\ said[i].id = last /\ at = Tellable
    BY <1>1, <2>1 DEF HasOpen, ServerFit, MenuServed, At
  <2>4. At(server'.inv) = at
    BY <1>5 DEF SameOpen, At
  <2> HIDE DEF last, at
  <2>5. last \in Nat
    BY DEF last
  <2>6. Orders(Marks, net, down \o said, last, at)
    BY <1>3, <2>2, <2>3, <2>5, OrdersJoined
  <2> QED BY <1>4, <2>1, <2>4, <2>6
<1>6. CASE server'.inv.open = None
           /\ \E first, said : /\ down' = (down \o first) \o said /\ Said(of, said) /\ OfNone(said)
                               /\ Goodbye(server.inv, first)
  <2>1. PICK first, said : /\ down' = (down \o first) \o said /\ Said(of, said) /\ OfNone(said)
                           /\ Goodbye(server.inv, first)
    BY <1>6
  <2>2. Orders(Marks, net, down \o first, last, {}) /\ IsSeq(down \o first)
    BY <1>1, <1>3, <2>1, OrdersGoodbye
  <2>3. IsSeq(said) /\ \A i \in DOMAIN said : ~OfMenu(said[i])
    BY <2>1 DEF Said, UpdatesOnly, OfNone
  <2>4. Orders(Marks, net, (down \o first) \o said, last, {})
    BY <2>2, <2>3, OrdersJoined
  <2>5. At(server'.inv) = {}
    BY <1>6 DEF At
  <2> QED BY <1>4, <2>1, <2>4, <2>5
<1> QED BY <1>1, <1>5, <1>6 DEF Speaks

LEMMA OpensOrder ==
  ASSUME server.opened \in Nat, NEW of \in Labels(server.opened), AllFit(of), IsSeq(down), Order,
         OpensEffect(of)
  PROVE  Order'
<1> DEFINE last == server.opened
           next == last + 1
<1>1. /\ UNCHANGED <<ui, mailbox, render, net>> /\ server'.opened = next
      /\ server'.inv.open # None /\ ServerFit(of, server)
  BY DEF OpensEffect, AllFit
<1>2. PICK new \in Labels(last + 1) :
          \E first, said, open, content :
            /\ Goodbye(server.inv, first) /\ Said(of, said) /\ OfNone(said)
            /\ open.kind = "open" /\ open.id = last + 1 /\ UpdateFit(new, open)
            /\ content.kind = "content" /\ content.id = last + 1 /\ UpdateFit(new, content)
            /\ down' = ((down \o first) \o said) \o <<open, content>>
  BY DEF OpensEffect
<1>3. PICK first, said, open, content :
            /\ Goodbye(server.inv, first) /\ Said(of, said) /\ OfNone(said)
            /\ open.kind = "open" /\ open.id = last + 1 /\ UpdateFit(new, open)
            /\ content.kind = "content" /\ content.id = last + 1 /\ UpdateFit(new, content)
            /\ down' = ((down \o first) \o said) \o <<open, content>>
  BY <1>2
<1>4. Marks' = Marks
  BY <1>1 DEF Marks
<1>5. Orders(Marks, net, down \o first, last, {}) /\ IsSeq(down \o first)
  BY <1>1, <1>3, OrdersGoodbye DEF Order
<1>6. IsSeq(said) /\ \A i \in DOMAIN said : ~OfMenu(said[i])
  BY <1>3 DEF Said, UpdatesOnly, OfNone
<1> DEFINE s == (down \o first) \o said
<1>7. Orders(Marks, net, s, last, {}) /\ IsSeq(s)
  BY <1>5, <1>6, OrdersJoined, Joined
<1>8. OfMenu(open) /\ OfMenu(content) /\ open.id = next /\ content.id = next
      /\ last \in Nat /\ next \in Nat /\ last < next /\ last <= next
  <2>1. last \in Nat /\ next \in Nat /\ last < next /\ next # PlayerId
    BY DEF PlayerId
  <2> HIDE DEF next
  <2> QED BY <1>3, <2>1 DEF OfMenu, next
<1> HIDE DEF s, next, last
<1>9. Orders(Marks, net, s \o <<open>>, next, {"open"})
  <2>1. {"open"} \subseteq {open.kind} \cup (IF next = last THEN {} ELSE {})
    BY <1>3
  <2> QED BY <1>3, <1>7, <1>8, <2>1, OrdersAppended
<1>10. Orders(Marks, net, (s \o <<open>>) \o <<content>>, next, Tellable)
  <2>1. Tellable \subseteq {content.kind} \cup (IF next = next THEN {"open"} ELSE {})
    BY <1>3 DEF Tellable
  <2>2. IsSeq(s \o <<open>>) /\ next <= next /\ {"open"} # {} /\ "open" \in {"open"}
    BY <1>7, <1>8, Short, Joined
  <2>3. content.kind = "content"
    BY <1>3
  <2>4. content.kind # "open" /\ content.kind # "slot" /\ content.kind # "close"
    BY <2>3
  <2> QED BY <1>8, <1>9, <2>1, <2>2, <2>4, OrdersAppended
<1>11. down' = (s \o <<open>>) \o <<content>>
  <2>1. <<open, content>> = <<open>> \o <<content>>
    BY Pair
  <2>2. (s \o <<open>>) \o <<content>> = s \o (<<open>> \o <<content>>)
    BY <1>7, Short, Regrouped
  <2> QED BY <1>3, <2>1, <2>2 DEF s
<1>12. At(server'.inv) = Tellable
  BY <1>1 DEF At
<1> QED BY <1>1, <1>4, <1>10, <1>11, <1>12 DEF Order

LEMMA WorldOrder ==
  ASSUME NEW of, AllFit(of), server.opened \in Nat, IsSeq(down), Order, WorldEffect(of)
  PROVE  Order'
<1> DEFINE last == server.opened
           at == At(server.inv)
           to == At(server'.inv)
<1>1. /\ ui'.inv = ui.inv /\ mailbox' = mailbox /\ render' = render
      /\ net'.inv = net.inv /\ net'.closed = net.closed /\ server'.opened = last
  BY DEF WorldEffect
<1>2. to \subseteq at /\ at \subseteq Tellable
  BY DEF WorldEffect, At
<1>3. Marks' = Marks
  BY <1>1 DEF Marks
<1>4. at # {} => last # PlayerId
  BY DEF At, AllFit, ServerFit, MenuServed, InventoryFit, OpenFit
<1>5. Orders(Marks, net, down, last, at) /\ last \in Nat
  BY DEF Order
<1> HIDE DEF at, last, to
<1>6. Orders(Marks, net, down', last, at)
  <2>1. CASE down # <<>> /\ down' = Tail(down) /\ ~OfMenu(Head(down))
    <3> DEFINE known == Learned(net)
               lost == {PlayerId}
    <3>1. Queued(down, last, at, known)
      BY <1>5 DEF Orders
    <3>2. Recalls(Head(down), known, known, lost)
      BY <2>1 DEF Recalls, Tellable, OfMenu
    <3>3. Spared(Tail(down), last, at, lost)
      BY <1>4 DEF Spared, OfMenu
    <3> HIDE DEF known, lost
    <3>4. Queued(Tail(down), last, at, known)
      BY <1>2, <2>1, <3>1, <3>2, <3>3, QueuedPopped
    <3> QED BY <1>5, <2>1, <3>4, MarkedPopped DEF Orders, known
  <2>2. CASE \E said : down' = down \o said /\ IsSeq(said) /\ DownFit(of, said) /\ OfNone(said)
    <3>1. PICK said : down' = down \o said /\ IsSeq(said) /\ OfNone(said)
      BY <2>2
    <3> QED BY <1>5, <3>1, OrdersJoined DEF OfNone
  <2> QED BY <2>1, <2>2 DEF WorldEffect
<1>7. Orders(Marks, net, down', last, to)
  BY <1>2, <1>6, OrdersFewer
<1>8. Orders(Marks, net', down', last, to)
  BY <1>1, <1>7, OrdersHeld
<1> QED BY <1>1, <1>3, <1>8 DEF Order, last, to

LEMMA ClosesJoined ==
  ASSUME NEW s, IsSeq(s), NEW t, NEW inv, Commanded(t, inv)
  PROVE  Closes(s \o t) \subseteq Closes(s) \cup OpenId(inv)
<1>1. IsSeq(t) /\ \A k \in DOMAIN t : t[k].kind = "close" => HasOpen(inv, t[k].id)
  BY DEF Commanded, CommandsOnly
<1>2. DOMAIN (s \o t) = 1 .. Len(s) + Len(t) /\ DOMAIN s = 1 .. Len(s) /\ DOMAIN t = 1 .. Len(t)
  BY <1>1, Joined
<1> SUFFICES ASSUME NEW i \in DOMAIN (s \o t), (s \o t)[i].kind = "close"
             PROVE  (s \o t)[i].id \in Closes(s) \cup OpenId(inv)
  BY DEF Closes
<1>3. i \in 1 .. Len(s) + Len(t)
  BY <1>2
<1>4. i \in 1 .. Len(s) \/ (i - Len(s) \in 1 .. Len(t) /\ (s \o t)[i] = t[i - Len(s)])
  BY <1>1, <1>3, Joined
<1>5. CASE i \in 1 .. Len(s)
  <2>1. (s \o t)[i] = s[i] /\ i \in DOMAIN s
    BY <1>1, <1>2, <1>5, Joined
  <2> QED BY <2>1 DEF Closes
<1>6. CASE i - Len(s) \in 1 .. Len(t) /\ (s \o t)[i] = t[i - Len(s)]
  <2>1. HasOpen(inv, t[i - Len(s)].id)
    BY <1>1, <1>2, <1>6
  <2> QED BY <1>6, <2>1 DEF HasOpen, OpenId
<1> QED BY <1>4, <1>5, <1>6

LEMMA ClosesNone == Closes(<<>>) = {}
BY Short DEF Closes

\* The overlay, and a tick that finds no simulation.
LEMMA OverlayOrder ==
  ASSUME NEW of, IsSeq(mailbox), Order,
         \/ OverlayEffect(of)
         \/ TakeUpdate /\ ui'.inv = render
         \/ TickWithoutSimulation
  PROVE  Order'
<1>1. UNCHANGED <<net, down, server>>
  BY DEF OverlayEffect, TakeUpdate, TickWithoutSimulation
<1>2. Marks' \subseteq Marks
  <2>1. CASE OverlayEffect(of)
    <3>1. OpenId(ui'.inv) = OpenId(ui.inv) /\ render' = render
      BY <2>1 DEF OverlayEffect, SameOpen, OpenId
    <3>2. Closes(mailbox') \subseteq Closes(mailbox) \cup OpenId(ui.inv)
      BY <2>1, ClosesJoined DEF OverlayEffect
    <3> QED BY <1>1, <3>1, <3>2 DEF Marks
  <2>2. CASE TakeUpdate /\ ui'.inv = render
    BY <1>1, <2>2 DEF TakeUpdate, Marks
  <2>3. CASE TickWithoutSimulation
    BY <1>1, <2>3, ClosesNone DEF TickWithoutSimulation, Marks
  <2> QED BY <2>1, <2>2, <2>3
<1>3. Orders(Marks, net, down, server.opened, At(server.inv))
  BY DEF Order
<1>4. Orders(Marks', net, down, server.opened, At(server.inv))
  BY <1>2, <1>3 DEF Orders, Marked
<1> QED BY <1>1, <1>4 DEF Order

\* A tick closes the menu the session has open, or none.
LEMMA TickOrder ==
  ASSUME NEW of, Order, TickEffect(of)
  PROVE  Order'
<1>1. /\ UNCHANGED <<ui, down, server>> /\ mailbox' = <<>> /\ render' \in {render, net'.inv}
      /\ \/ net'.closed = net.closed /\ SameOpen(net'.inv, net.inv)
         \/ net.inv.open # None /\ net'.inv.open = None /\ net'.closed = net.closed \cup {net.inv.open.id}
  BY DEF TickEffect
<1>2. /\ OpenId(net'.inv) \subseteq OpenId(net.inv)
      /\ net.closed \cup OpenId(net.inv) = net'.closed \cup OpenId(net'.inv)
      /\ net.closed \cup FilledId(net.inv) \subseteq net'.closed \cup FilledId(net'.inv)
  BY <1>1 DEF SameOpen, OpenId, FilledId
<1>3. Marks' \subseteq Marks \cup OpenId(net.inv)
  <2>1. net'.closed \subseteq Marks \cup OpenId(net.inv)
    BY <1>2 DEF Marks
  <2>2. (IF render' = None THEN {} ELSE OpenId(render')) \subseteq Marks \cup OpenId(net.inv)
    BY <1>1, <1>2 DEF Marks
  <2>3. Closes(mailbox') = {} /\ OpenId(ui'.inv) \subseteq Marks
    BY <1>1, ClosesNone DEF Marks
  <2> QED BY <2>1, <2>2, <2>3 DEF Marks
<1>4. Orders(Marks, net, down, server.opened, At(server.inv))
  BY DEF Order
<1>5. Fronted(net', server.opened, down)
  BY <1>1, <1>4 DEF Orders, Fronted, SameOpen
<1>6. /\ Learned(net)["open"] \subseteq Learned(net')["open"]
      /\ Learned(net)["content"] \subseteq Learned(net')["content"]
  BY <1>2, LearnedIs
<1>7. Orders(Marks', net', down, server.opened, At(server.inv))
  BY <1>3, <1>4, <1>5, <1>6, AtTellable, OrdersKept
<1> QED BY <1>1, <1>7 DEF Order

\* What is read is of a menu the server has opened.
LEMMA FrontFits ==
  ASSUME NEW n \in Nat, NEW of \in Labels(n), DownFit(of, down), IsSeq(down), down # <<>>,
         Head(down).kind \in InventoryKinds
  PROVE  LET p == Head(down)
         IN /\ UpdateFit(of, p) /\ 1 \in DOMAIN down /\ p = down[1]
            /\ p.kind \in {"open", "close"} => OfMenu(p)
            /\ p.kind \in {"content", "slot"} => p.id \in {PlayerId} \cup DOMAIN of
            /\ OfMenu(p) <=> (p.kind # "held" /\ p.id # PlayerId)
<1>1. UpdateFit(of, Head(down)) /\ 1 \in DOMAIN down /\ Head(down) = down[1]
  BY DownFitPopped, Popped
<1>2. PlayerId \notin DOMAIN of
  BY LabelIds
<1> QED BY <1>1, <1>2 DEF OfMenu, UpdateFit, InventoryKinds

\* Behind the first packet, of a menu, nothing is of an earlier one.
LEMMA FrontOrdered ==
  ASSUME IsSeq(down), down # <<>>, Ordered(down), OfMenu(Head(down)),
         NEW i \in DOMAIN Tail(down), OfMenu(Tail(down)[i])
  PROVE  /\ Head(down).id <= Tail(down)[i].id
         /\ Tail(down)[i].kind = "open" \/ Head(down).kind = "close" => Head(down).id < Tail(down)[i].id
<1>1. /\ 1 \in DOMAIN down /\ Head(down) = down[1] /\ i + 1 \in DOMAIN down
      /\ Tail(down)[i] = down[i + 1] /\ i \in Nat /\ i >= 1 /\ 1 < i + 1
  BY Popped
<1> QED BY <1>1 DEF Ordered


\* A packet the session takes.
LEMMA ReadOrder ==
  ASSUME server.opened \in Nat, NEW of \in Labels(server.opened), AllFit(of), IsSeq(down), Order,
         ReadEffect(of), Head(down).kind \in InventoryKinds, Acceptable(net.inv, Head(down))
  PROVE  Order'
<1> DEFINE last == server.opened
           at == At(server.inv)
           p == Head(down)
           old == net.inv
           new == net'.inv
           lost == {PlayerId} \cup (IF p.kind \in {"open", "close"} THEN OpenId(old) ELSE {})
<1>1. /\ UNCHANGED <<ui, mailbox, server>> /\ down # <<>> /\ down' = Tail(down)
      /\ net'.closed = net.closed /\ Acceptable(old, p) /\ new = Applied(old, p) /\ render' = new
  BY DEF ReadEffect
<1>2. /\ UpdateFit(of, p) /\ 1 \in DOMAIN down /\ p = down[1] /\ p.kind \in InventoryKinds
      /\ p.kind \in {"open", "close"} => OfMenu(p)
      /\ OfMenu(p) <=> (p.kind # "held" /\ p.id # PlayerId)
  BY <1>1, FrontFits DEF AllFit
<1>3. /\ p.kind = "open" => HasOpen(new, p.id)
      /\ p.kind = "close" => new.open = None
      /\ p.kind \in {"content", "slot", "held"} => SameOpen(new, old)
      /\ p.kind = "content" /\ p.id # PlayerId => HasOpen(new, p.id) /\ new.open.slots # NoSlots
  <2>1. CopyFit(of, old)
    BY DEF AllFit, SessionFit
  <2> HIDE DEF p, old, new
  <2> QED BY <1>1, <1>2, <2>1, AppliedFits
<1>4. Queued(down, last, at, Learned(net)) /\ Marked(Marks, last, down) /\ Fronted(net, last, down)
  BY DEF Order, Orders
<1>5. at # {} => last # PlayerId
  BY DEF At, AllFit, ServerFit, MenuServed, InventoryFit, OpenFit
<1>6. \/ p.kind = "open" \/ p.kind = "close" \/ p.kind = "content" \/ p.kind = "slot" \/ p.kind = "held"
  BY <1>2 DEF InventoryKinds
<1>7. OfMenu(p) => p.id \in Nat /\ p.id <= last /\ (at # {} /\ p.kind = "close" => p.id < last)
  BY <1>2, <1>4 DEF Queued
<1>8. ASSUME NEW i \in DOMAIN Tail(down), OfMenu(Tail(down)[i]), OfMenu(p)
      PROVE  /\ Tail(down)[i].id \in Nat /\ p.id <= Tail(down)[i].id
             /\ Tail(down)[i].kind = "open" \/ p.kind = "close" => p.id < Tail(down)[i].id
  <2>1. i + 1 \in DOMAIN down /\ Tail(down)[i] = down[i + 1]
    BY <1>1, Popped
  <2>2. Tail(down)[i].id \in Nat
    BY <1>4, <1>8, <2>1 DEF Queued
  <2> QED BY <1>1, <1>4, <1>8, <2>2, FrontOrdered DEF Queued
<1>9. ASSUME p.kind \in {"open", "close"}, old.open # None
      PROVE  /\ old.open.id \in Nat
             /\ p.kind = "open" => old.open.id < p.id
             /\ p.kind = "close" => old.open.id = p.id
  <2>1. Before(old.open.id, last, down)
    BY <1>4, <1>9 DEF Fronted
  <2> QED BY <1>1, <1>2, <1>9, <2>1 DEF Before, Opening, Acceptable
<1> HIDE DEF p, old, new
<1>10. /\ p.kind \in {"content", "slot", "held"} =>
            OpenId(old) \subseteq OpenId(new) /\ FilledId(old) \subseteq FilledId(new)
       /\ p.kind = "open" => p.id \in OpenId(new)
       /\ p.kind = "content" /\ p.id # PlayerId => p.id \in FilledId(new)
       /\ FilledId(old) \subseteq OpenId(old)
  BY <1>3 DEF OpenId, FilledId, SameOpen, HasOpen
<1>11. \A kind \in Tellable : \A id :
         (id \in Learned(net)[kind] \/ (p.kind = kind /\ p.id = id)) /\ id \notin lost
           => id \in Learned(net')[kind]
  <2>1. /\ Learned(net)["open"] = net.closed \cup OpenId(old)
        /\ Learned(net)["content"] = net.closed \cup FilledId(old)
        /\ Learned(net')["open"] = net.closed \cup OpenId(new)
        /\ Learned(net')["content"] = net.closed \cup FilledId(new)
    BY <1>1, LearnedIs DEF old, new
  <2>2. ASSUME NEW id, id \notin lost
        PROVE  /\ id \in Learned(net)["open"] \/ (p.kind = "open" /\ p.id = id) => id \in Learned(net')["open"]
               /\ id \in Learned(net)["content"] \/ (p.kind = "content" /\ p.id = id)
                    => id \in Learned(net')["content"]
    <3>1. id # PlayerId /\ (p.kind \in {"open", "close"} => id \notin OpenId(old))
      BY <2>2
    <3> QED BY <1>6, <1>10, <2>1, <3>1
  <2> HIDE DEF lost
  <2> QED BY <2>2 DEF Tellable
<1>12. ASSUME NEW id \in OpenId(old), p.kind \in {"open", "close"}
       PROVE  /\ \A i \in DOMAIN Tail(down) : OfMenu(Tail(down)[i]) => Tail(down)[i].id # id
              /\ at # {} => last # id
  <2>1. old.open # None /\ id = old.open.id /\ OfMenu(p)
    BY <1>2, <1>12 DEF OpenId
  <2>2. id \in Nat /\ id <= p.id /\ (p.kind = "open" => id < p.id)
    BY <1>7, <1>9, <1>12, <2>1
  <2>3. \A i \in DOMAIN Tail(down) : OfMenu(Tail(down)[i]) => Tail(down)[i].id # id
    <3> SUFFICES ASSUME NEW i \in DOMAIN Tail(down), OfMenu(Tail(down)[i]) PROVE Tail(down)[i].id # id
      OBVIOUS
    <3>1. /\ Tail(down)[i].id \in Nat /\ p.id <= Tail(down)[i].id
          /\ p.kind = "close" => p.id < Tail(down)[i].id
      BY <1>8, <2>1
    <3> QED BY <1>7, <1>12, <2>1, <2>2, <3>1
  <2>4. at # {} => last # id
    <3>1. last \in Nat
      OBVIOUS
    <3> HIDE DEF last, at
    <3> QED BY <1>7, <1>12, <2>1, <2>2, <3>1
  <2> QED BY <2>3, <2>4
<1>13. Spared(Tail(down), last, at, lost)
  <2>1. \A id \in lost : id = PlayerId \/ (id \in OpenId(old) /\ p.kind \in {"open", "close"})
    OBVIOUS
  <2>2. \A i \in DOMAIN Tail(down) : OfMenu(Tail(down)[i]) => Tail(down)[i].id # PlayerId
    BY DEF OfMenu
  <2> HIDE DEF lost, at, last
  <2> QED BY <1>5, <1>12, <2>1, <2>2 DEF Spared
<1>14. Queued(Tail(down), last, at, Learned(net'))
  <2> DEFINE known == Learned(net)
             learned == Learned(net')
  <2>1. at \subseteq Tellable
    BY AtTellable
  <2>2. Recalls(Head(down), known, learned, lost)
    BY <1>11 DEF Recalls, p
  <2>3. Queued(down, last, at, known)
    BY <1>4
  <2>4. Spared(Tail(down), last, at, lost)
    BY <1>13
  <2> HIDE DEF known, learned, lost, at, last
  <2>5. down # <<>>
    BY <1>1
  <2>6. Queued(Tail(down), last, at, learned)
    BY <2>1, <2>2, <2>3, <2>4, <2>5, QueuedPopped
  <2> QED BY <2>6 DEF learned
<1>15. Fronted(net', last, Tail(down))
  <2> SUFFICES ASSUME new.open # None
               PROVE  Before(new.open.id, last, Tail(down)) /\ \A c \in net.closed : c < new.open.id
    BY <1>1 DEF Fronted, new
  <2>1. CASE p.kind = "open"
    <3>1. new.open.id = p.id /\ OfMenu(p)
      BY <1>2, <1>3, <2>1 DEF HasOpen
    <3>2. \A i \in DOMAIN Tail(down) : OfMenu(Tail(down)[i]) =>
            p.id <= Tail(down)[i].id /\ (Opening(Tail(down)[i]) => p.id < Tail(down)[i].id)
      BY <1>8, <3>1 DEF Opening
    <3>3. \A c \in net.closed : c < p.id
      <4>1. Opening(down[1])
        BY <1>2, <2>1, <3>1 DEF Opening
      <4> QED BY <1>2, <1>4, <4>1 DEF Marked, Marks
    <3> QED BY <1>7, <3>1, <3>2, <3>3 DEF Before
  <2>2. CASE p.kind = "close"
    BY <1>3, <2>2
  <2>3. CASE p.kind \in {"content", "slot", "held"}
    <3>1. old.open # None /\ new.open.id = old.open.id
      BY <1>3, <2>3 DEF SameOpen
    <3>2. Before(old.open.id, last, down) /\ \A c \in net.closed : c < old.open.id
      BY <1>4, <3>1 DEF Fronted, old
    <3>3. Before(old.open.id, last, Tail(down))
      BY <1>1, <3>2, MarkedPopped
    <3> QED BY <3>1, <3>2, <3>3
  <2> QED BY <1>6, <2>1, <2>2, <2>3
<1>16. Marked(Marks', last, Tail(down))
  <2>1. Marks' \subseteq Marks \cup OpenId(new)
    BY <1>1 DEF Marks
  <2>2. Marked(Marks, last, Tail(down))
    BY <1>1, <1>4, MarkedPopped
  <2>3. Marked(OpenId(new), last, Tail(down))
    <3> SUFFICES ASSUME new.open # None PROVE Marked({new.open.id}, last, Tail(down))
      BY DEF OpenId, Marked
    <3>1. Before(new.open.id, last, Tail(down))
      BY <1>15 DEF Fronted, new
    <3> QED BY <3>1 DEF Before, Marked, Opening
  <2> HIDE DEF last
  <2> QED BY <2>1, <2>2, <2>3 DEF Marked
<1> QED BY <1>1, <1>14, <1>15, <1>16 DEF Order, Orders

\* A packet it does not take is of a menu it has closed.
LEMMA ReadCrossing ==
  ASSUME server.opened \in Nat, NEW of \in Labels(server.opened), AllFit(of), IsSeq(down), Order,
         down # <<>>, Head(down).kind \in InventoryKinds, ~Acceptable(net.inv, Head(down))
  PROVE  Head(down).kind \in {"content", "slot"} /\ Head(down).id \in net.closed
<1> DEFINE p == Head(down)
           inv == net.inv
<1>1. /\ UpdateFit(of, p) /\ 1 \in DOMAIN down /\ p = down[1] /\ p.kind \in InventoryKinds
      /\ p.kind \in {"open", "close"} => OfMenu(p)
      /\ p.kind \in {"content", "slot"} => p.id \in {PlayerId} \cup DOMAIN of
      /\ OfMenu(p) <=> (p.kind # "held" /\ p.id # PlayerId)
  BY FrontFits DEF AllFit
<1>2. /\ Queued(down, server.opened, At(server.inv), Learned(net))
      /\ Fronted(net, server.opened, down)
  BY DEF Order, Orders
<1>3. InventoryFit(inv) /\ Labelled(of, inv)
  BY DEF AllFit, SessionFit, CopyFit
<1>4. ~Acceptable(inv, p)
  OBVIOUS
<1> HIDE DEF p, inv
<1>5. \A kind, id : Came(kind, Learned(net), down, 1, id) => id \in Learned(net)[kind]
  <2>1. 1 .. 1 - 1 = {}
    OBVIOUS
  <2> QED BY <2>1 DEF Came
<1>6. /\ OfMenu(p) /\ p.kind # "open" => p.id \in net.closed \/ HasOpen(inv, p.id)
      /\ OfMenu(p) /\ p.kind = "slot" =>
           p.id \in net.closed \/ (HasOpen(inv, p.id) /\ inv.open.slots # NoSlots)
  <2>1. /\ OfMenu(p) /\ p.kind # "open" => p.id \in Learned(net)["open"]
        /\ OfMenu(p) /\ p.kind = "slot" => p.id \in Learned(net)["content"]
    BY <1>1, <1>2, <1>5 DEF Queued
  <2> QED BY <2>1, LearnedIs DEF OpenId, FilledId, HasOpen, inv
<1>7. CASE p.kind = "open"
  BY <1>1, <1>4, <1>7 DEF Acceptable, OfMenu
<1>8. CASE p.kind = "close"
  <2>1. inv.open # None /\ inv.open.id # p.id /\ OfMenu(p)
    BY <1>1, <1>4, <1>8 DEF Acceptable
  <2>2. Before(inv.open.id, server.opened, down) /\ \A c \in net.closed : c < inv.open.id
    BY <1>2, <2>1 DEF Fronted, inv
  <2>3. inv.open.id \in Nat /\ inv.open.id <= p.id
    BY <1>1, <2>1, <2>2 DEF Before
  <2>4. p.id \in net.closed
    BY <1>6, <1>8, <2>1 DEF HasOpen
  <2>5. p.id \in Nat /\ p.id < inv.open.id
    BY <1>1, <1>2, <2>1, <2>2, <2>4 DEF Queued
  <2> QED BY <2>3, <2>5
<1>9. CASE p.kind \in {"content", "slot"} /\ ~Known(inv, p.id)
  <2>1. OfMenu(p) /\ ~HasOpen(inv, p.id)
    BY <1>1, <1>9 DEF Known, HasOpen
  <2> QED BY <1>6, <1>9, <2>1 DEF p
<1>10. CASE p.kind = "content" /\ Known(inv, p.id)
  BY <1>4, <1>10 DEF Acceptable
<1>11. CASE p.kind = "slot" /\ Known(inv, p.id)
  <2>1. p.slot \notin DOMAIN Container(inv, p.id).slots /\ p.slot \in SlotsIn(of, p.id)
    BY <1>1, <1>4, <1>11 DEF Acceptable, UpdateFit
  <2>2. /\ p.id = PlayerId => DOMAIN Container(inv, p.id).slots = SlotsIn(of, p.id)
        /\ p.id # PlayerId /\ inv.open.slots # NoSlots =>
             DOMAIN Container(inv, p.id).slots = SlotsIn(of, p.id)
    BY <1>1, <1>3, <1>11, SlotsKnown
  <2>3. p.id # PlayerId /\ inv.open.slots = NoSlots
    BY <2>1, <2>2
  <2>4. p.id \in net.closed
    BY <1>1, <1>6, <1>11, <2>3
  <2> QED BY <1>11, <2>4 DEF p
<1>12. CASE p.kind = "held"
  BY <1>4, <1>12 DEF Acceptable
<1> QED BY <1>1, <1>7, <1>8, <1>9, <1>10, <1>11, <1>12 DEF InventoryKinds

\* What ends the session has ended it, and the world ends it with no packet of a menu.
LEMMA CrossingsKept ==
  ASSUME OnlyCrossingsEnd, net'.ended = net.ended, net'.closed = net.closed,
         server'.inv.open = None \/ SameOpen(server'.inv, server.inv)
  PROVE  OnlyCrossingsEnd'
BY DEF OnlyCrossingsEnd, SameOpen

LEMMA WorldCrossings ==
  ASSUME NEW of, OnlyCrossingsEnd, WorldEffect(of)
  PROVE  OnlyCrossingsEnd'
<1>1. CASE net'.ended = net.ended
  <2>1. server'.inv.open = None \/ SameOpen(server'.inv, server.inv)
    BY DEF WorldEffect, SameOpen
  <2> QED BY <1>1, <2>1, CrossingsKept DEF WorldEffect
<1>2. CASE \E reason \in Reasons : net'.ended = [kind |-> reason, id |-> 0]
  <2>1. PICK reason \in Reasons : net'.ended = [kind |-> reason, id |-> 0]
    BY <1>2
  <2>2. net'.ended.kind \notin InventoryKinds \cup {"command"}
    BY <2>1 DEF Reasons, InventoryKinds
  <2> QED BY <2>2 DEF OnlyCrossingsEnd
<1> QED BY <1>1, <1>2 DEF WorldEffect

\* A close that finds no such menu crossed another.
LEMMA TickCrossing ==
  ASSUME server.opened \in Nat, NEW of, AllFit(of), IsSeq(down), Order, TickEffect(of), net'.ended # None
  PROVE  /\ net'.ended.kind = "command"
         /\ \/ net'.ended.id \in net'.closed
            \/ server'.inv.open = None \/ server'.inv.open.id # net'.ended.id
<1> DEFINE id == net'.ended.id
<1>1. /\ net'.ended.kind = "command" /\ id \in Closes(mailbox) /\ ~HasOpen(net'.inv, id)
      /\ server' = server /\ net.closed \subseteq net'.closed
      /\ HasOpen(net.inv, id) => HasOpen(net'.inv, id) \/ id \in net'.closed
  BY DEF TickEffect, SameOpen, HasOpen
<1> HIDE DEF id
<1> SUFFICES ASSUME HasOpen(server.inv, id) PROVE id \in net'.closed
  BY <1>1 DEF HasOpen, id
<1>2. id = server.opened /\ id # PlayerId /\ "open" \in At(server.inv)
  BY DEF AllFit, ServerFit, MenuServed, InventoryFit, OpenFit, HasOpen, At, Tellable
<1>3. Came("open", Learned(net), down, Len(down) + 1, id) /\ Marked(Marks, server.opened, down)
  BY <1>2 DEF Order, Orders, Queued
<1>4. CASE id \in Learned(net)["open"]
  <2>1. id \in net.closed \/ HasOpen(net.inv, id)
    BY <1>4, LearnedIs DEF OpenId, HasOpen
  <2> QED BY <1>1, <2>1
<1>5. CASE \E j \in 1 .. Len(down) + 1 - 1 : down[j].kind = "open" /\ down[j].id = id
  <2>1. PICK j \in 1 .. Len(down) + 1 - 1 : down[j].kind = "open" /\ down[j].id = id
    BY <1>5
  <2>2. DOMAIN down = 1 .. Len(down) /\ Len(down) \in Nat
    BY Short, Joined
  <2>3. j \in DOMAIN down /\ Opening(down[j])
    BY <1>2, <2>1, <2>2 DEF Opening, OfMenu
  <2>4. id \in Nat /\ id < id
    BY <1>1, <1>3, <2>1, <2>3 DEF Marked, Marks
  <2> QED BY <2>4
<1> QED BY <1>3, <1>4, <1>5 DEF Came

\* A step of a session that runs.
LEMMA OrderStep ==
  ASSUME Typed, Fits, Running, Order, OnlyCrossingsEnd, [Next]_vars
  PROVE  (Running' => Order') /\ OnlyCrossingsEnd'
<1>1. server.opened \in Nat /\ excuses \subseteq Excuses /\ IsSeq(down) /\ IsSeq(mailbox)
  BY DEF Fits, Typed, DownOK, MailboxOK
<1>2. PICK of \in Labels(server.opened) : AllFit(of)
  BY DEF Fits
<1>3. StepEffect(of)
  BY <1>1, <1>2, StepCases
<1>4. net.ended = None
  BY DEF Running
<1>5. net'.ended = None => OnlyCrossingsEnd'
  BY DEF OnlyCrossingsEnd
<1>6. CASE \/ OverlayEffect(of)
           \/ TakeUpdate /\ OverlayFit(of, ui') /\ ui'.inv = render
           \/ TickWithoutSimulation
  <2>1. net' = net
    BY <1>6 DEF OverlayEffect, TakeUpdate, TickWithoutSimulation
  <2> QED BY <1>1, <1>4, <1>5, <1>6, <2>1, OverlayOrder
<1>7. CASE TickEffect(of)
  <2>1. net'.ended # None => OnlyCrossingsEnd'
    BY <1>1, <1>2, <1>7, TickCrossing DEF OnlyCrossingsEnd
  <2> QED BY <1>5, <1>7, <2>1, TickOrder
<1>8. CASE ReadEffect(of) /\ Head(down).kind \in InventoryKinds
  <2>1. CASE Acceptable(net.inv, Head(down))
    <3>1. net'.ended = None
      BY <1>8, <2>1 DEF ReadEffect
    <3> QED BY <1>1, <1>2, <1>5, <1>8, <2>1, <3>1, ReadOrder
  <2>2. CASE ~Acceptable(net.inv, Head(down))
    <3> DEFINE p == Head(down)
               ended == [kind |-> p.kind, id |-> p.id]
    <3>1. down # <<>> /\ net'.ended = ended /\ net'.closed = net.closed
      BY <1>8, <2>2 DEF ReadEffect
    <3>2. p.kind \in {"content", "slot"} /\ p.id \in net.closed
      BY <1>1, <1>2, <1>8, <2>2, <3>1, ReadCrossing
    <3>3. p.id \in Nat
      BY <3>2 DEF Order, Orders, Marked, Marks
    <3> HIDE DEF p
    <3>4. ended.kind = p.kind /\ ended.id = p.id /\ ended # None
      BY <3>2, <3>3, SessionAssumption DEF Endings
    <3> HIDE DEF ended
    <3>5. ~Running'
      BY <3>1, <3>4 DEF Running
    <3>6. OnlyCrossingsEnd'
      BY <3>1, <3>2, <3>4 DEF OnlyCrossingsEnd
    <3> QED BY <3>5, <3>6
  <2> QED BY <2>1, <2>2
<1>9. CASE HandledEffect(of) /\ UpFit(up')
  <2>1. net' = net
    BY <1>9 DEF HandledEffect
  <2> QED BY <1>1, <1>2, <1>4, <1>5, <1>9, <2>1, HandledOrder
<1>10. CASE OpensEffect(of)
  <2>1. net' = net
    BY <1>10 DEF OpensEffect
  <2> QED BY <1>1, <1>2, <1>4, <1>5, <1>10, <2>1, OpensOrder
<1>11. CASE WorldEffect(of)
  <2>1. Order'
    BY <1>1, <1>2, <1>11, WorldOrder
  <2>2. OnlyCrossingsEnd'
    BY <1>11, WorldCrossings
  <2> QED BY <2>1, <2>2
<1>12. CASE UNCHANGED vars
  <2>1. UNCHANGED <<ui, mailbox, render, net, down, server>>
    BY <1>12 DEF vars
  <2> QED BY <1>4, <1>5, <2>1 DEF Order, Marks
<1> QED BY <1>3, <1>6, <1>7, <1>8, <1>9, <1>10, <1>11, <1>12 DEF StepEffect

\* A session that has ended reads, does and opens no more, and does not run again.
LEMMA EndedStep ==
  ASSUME Typed, Fits, ~Running, OnlyCrossingsEnd, [Next]_vars
  PROVE  ~Running' /\ OnlyCrossingsEnd'
<1>1. server.opened \in Nat /\ excuses \subseteq Excuses
  BY DEF Fits
<1>2. PICK of \in Labels(server.opened) : AllFit(of)
  BY DEF Fits
<1>3. StepEffect(of)
  BY <1>1, <1>2, StepCases
<1>4. CASE \/ OverlayEffect(of)
           \/ TakeUpdate /\ OverlayFit(of, ui') /\ ui'.inv = render
           \/ TickWithoutSimulation
           \/ UNCHANGED vars
  <2>1. net' = net /\ server' = server
    BY <1>4 DEF OverlayEffect, TakeUpdate, TickWithoutSimulation, vars
  <2> QED BY <2>1 DEF OnlyCrossingsEnd, Running
<1>5. CASE HandledEffect(of)
  <2>1. net' = net /\ (server'.inv.open = None \/ SameOpen(server'.inv, server.inv))
    BY <1>5 DEF HandledEffect, Speaks
  <2> QED BY <2>1, CrossingsKept DEF Running
<1>6. CASE WorldEffect(of)
  <2>1. ASSUME NEW reason \in Reasons PROVE [kind |-> reason, id |-> 0] # None
    BY <2>1, SessionAssumption DEF Reasons, Endings
  <2>2. ~Running'
    BY <1>6, <2>1 DEF WorldEffect, Running
  <2> QED BY <1>6, <2>2, WorldCrossings
<1> QED BY <1>3, <1>4, <1>5, <1>6 DEF StepEffect, TickEffect, ReadEffect, OpensEffect

LEMMA OrderInit == Init => Order /\ OnlyCrossingsEnd
<1> SUFFICES ASSUME Init PROVE Order /\ OnlyCrossingsEnd
  OBVIOUS
<1>1. InventoryInit /\ habit \in Habits
  BY DEF Init
<1>2. PICK start \in Beginnings[habit] :
        LET inv == [NewInventory EXCEPT
                      !.player.slots = [i \in DOMAIN @ |->
                        IF i \in DOMAIN start.slots THEN start.slots[i] ELSE Empty],
                      !.player.carried = start.carried]
        IN /\ server = [inv |-> inv, opened |-> 0, events |-> 0]
           /\ net = [inv |-> inv, ended |-> None, closed |-> {}]
           /\ ui = [inv |-> inv, visible |-> "keys" \notin habit, drag |-> None, inputs |-> 0]
  BY <1>1 DEF InventoryInit
<1> DEFINE inv == [NewInventory EXCEPT
                      !.player.slots = [i \in DOMAIN @ |->
                        IF i \in DOMAIN start.slots THEN start.slots[i] ELSE Empty],
                      !.player.carried = start.carried]
<1>3. /\ server = [inv |-> inv, opened |-> 0, events |-> 0]
      /\ net = [inv |-> inv, ended |-> None, closed |-> {}]
      /\ ui = [inv |-> inv, visible |-> "keys" \notin habit, drag |-> None, inputs |-> 0]
  BY <1>2
<1>4. inv.open = None
  BY <1>1, NoMenu
<1> HIDE DEF inv
<1>5. /\ server.inv.open = None /\ server.opened = 0 /\ net.inv.open = None /\ net.closed = {}
      /\ net.ended = None /\ ui.inv.open = None
  BY <1>3, <1>4
<1>6. mailbox = <<>> /\ render = None /\ down = <<>> /\ DOMAIN down = {}
  BY <1>1, Short DEF InventoryInit
<1>7. At(server.inv) = {} /\ Marks = {}
  BY <1>5, <1>6, ClosesNone DEF At, Marks, OpenId
<1>8. Queued(down, server.opened, {}, Learned(net))
  BY <1>6 DEF Queued, Ordered
<1>9. Fronted(net, server.opened, down) /\ Marked({}, server.opened, down)
  BY <1>5 DEF Fronted, Marked
<1> QED BY <1>5, <1>7, <1>8, <1>9 DEF Order, Orders, OnlyCrossingsEnd

\* While the session runs, no packet of a menu waits for it that is of one neither it nor the
\* packets before it have opened, or that was closed when a later one was opened, unless the
\* session has closed the menu itself; so only that ends it.
OrderInv == WorldInv /\ Fits /\ (Running => Order) /\ OnlyCrossingsEnd
THEOREM OrderInductive == Spec => []OrderInv
<1>1. Init => OrderInv
  BY TypedInit, PhaseInit, StaysInit, FitsInit, OrderInit DEF OrderInv, WorldInv
<1>2. OrderInv /\ [Next]_vars => OrderInv'
  <2> SUFFICES ASSUME OrderInv, [Next]_vars PROVE OrderInv'
    OBVIOUS
  <2>1. Typed /\ Phase /\ Stays /\ Fits /\ (Running => Order) /\ OnlyCrossingsEnd
    BY DEF OrderInv, WorldInv
  <2>2. Typed' /\ Phase' /\ Stays' /\ Fits'
    BY <2>1, TypedStep, PhaseStep, StaysStep, FitsStep
  <2>3. (Running' => Order') /\ OnlyCrossingsEnd'
    BY <2>1, OrderStep, EndedStep
  <2>4. (Running => Order)'
    BY <2>3
  <2> QED BY <2>2, <2>3, <2>4 DEF OrderInv, WorldInv
<1> QED BY <1>1, <1>2, PTL DEF Spec

\* OnlyCrossingsEnd: of the inventory, only one race ends the session.  Updates of a container
\* still on their way, or a second close of it, find it closed by the user.
THEOREM OnlyCrossingsEndSessions == Spec => []OnlyCrossingsEnd
<1>1. OrderInv => OnlyCrossingsEnd
  BY DEF OrderInv
<1> QED BY <1>1, OrderInductive, PTL

\* SessionSurvives: no lawful packet ends the session.  Of the world only a crowd does, and of
\* the inventory only a crossing of closes.
THEOREM SessionsSurvive == Spec => []SessionSurvives
<1>1. OnlyCrowdsEnd /\ OnlyCrossingsEnd => SessionSurvives
  BY DEF SessionSurvives
<1> QED BY <1>1, OnlyCrowdsEndSessions, OnlyCrossingsEndSessions, PTL
====
