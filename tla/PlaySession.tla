------------------------------ MODULE PlaySession ------------------------------
(***************************************************************************)
(* The Play session (cubic-network/src/chat_session.rs, run_play_session): *)
(* one task that reads frames, serves 20 Hz ticks and answers, over the    *)
(* authoritative world (cubic-world/src/state.rs, entity.rs, chunk.rs) and *)
(* the local simulation (world_movement.rs), composed with the inventory   *)
(* of InventorySession on the same connection.  The server is external:    *)
(* it walks its player through teleports, respawns and reconfigurations.   *)
(*                                                                         *)
(* A position is a number on a line and a velocity the number of the push  *)
(* that set it; a chunk is the data of its fields and, as history, the     *)
(* stay in a world it was sent for.                                        *)
(***************************************************************************)
EXTENDS InventorySession

CONSTANTS
    First,          \* the player's entity id at the first login
    Ids,            \* entity ids
    Coordinates,    \* chunk coordinates
    Fields,         \* what an update changes in a chunk: blocks, light, block entities
    MaxEntities,    \* MAX_REMOTE_ENTITIES
    MaxChunks,      \* MAX_LOADED_CHUNKS
    Line            \* bound: positions on the line, 0 .. Line

\* An entity, a chunk and the frame it is decoded from, the local simulation, and how packets
\* and commands end the session; None is none of them, and no number.
Entities == [id : Ids \cup {None}, x : Int, data : Int, v : Int]
Chunks == [stay : Nat, data : [Fields -> Int]]
Decodes == [kind : {"chunk"}, at : Coordinates, chunk : Chunks]
Simulations == [x : Int, v : Int, after : Nat, told : BOOLEAN]
Endings == [kind : {"entities", "chunks", "lifecycle", "baseline", "stale"}, id : {0}]
           \cup [kind : {"open", "close", "content", "slot", "command"}, id : Nat]

ASSUME SessionAssumption ==
    /\ First \in Ids /\ Ids \subseteq Int
    /\ IsFiniteSet(Coordinates)
    /\ MaxEntities \in Nat \ {0} /\ MaxChunks \in Nat \ {0} /\ Line \in Nat
    /\ None \notin Int \cup Entities \cup Chunks \cup Decodes \cup Simulations \cup Endings

VARIABLES
    world,      \* WorldState
    task,       \* the locals of run_play_session, its movement controller among them
    wserver     \* the server's side of the world (external)

vars == <<habit, ui, mailbox, render, net, up, down, server, excuses, world, task, wserver>>
sessionVars == <<world, task, wserver>>

Places == 0 .. Line
WorldMode == "chat" \notin habit
NoFields == [f \in Fields |-> 0]
NoPush == 0

(***************************************************************************)
(* EntityStore: slots with generations, found by protocol id.              *)
(***************************************************************************)
NoEntities == [slots |-> <<>>, byId |-> [i \in {} |-> 0], free |-> <<>>]
Holds(store, id) == id \in DOMAIN store.byId

Removed(store, id) ==
    IF ~Holds(store, id) THEN store
    ELSE LET slot == store.byId[id].slot
         IN [slots |-> [store.slots EXCEPT ![slot] = [generation |-> @.generation + 1,
                                                      entity |-> None]],
             byId |-> [i \in DOMAIN store.byId \ {id} |-> store.byId[i]],
             free |-> Append(store.free, slot)]

\* EntityStore::clear removes by ascending id.
Cleared(store) ==
    MapThenFoldSet(LAMBDA id, left : Removed(left, id), store, LAMBDA id : id, Max,
                   DOMAIN store.byId)

RoomLeft(store) == store.free # <<>> \/ Len(store.slots) < MaxEntities

\* Mutant: an entity spawned again takes a second slot.
PlacedTwice(store, id) == store
\* A spawn replaces the entity that held the id, whatever its slot.
Vacated(store, id) == Removed(store, id)

Spawned(store, id, entity) ==
    LET old == Vacated(store, id)
        slot == IF old.free # <<>> THEN Last(old.free) ELSE Len(old.slots) + 1
        generation == IF old.free # <<>> THEN old.slots[slot].generation ELSE 0
        new == [generation |-> generation, entity |-> [entity EXCEPT !.id = id]]
    IN [slots |-> IF old.free # <<>> THEN [old.slots EXCEPT ![slot] = new]
                  ELSE Append(old.slots, new),
        byId |-> [i \in DOMAIN old.byId \cup {id} |->
                    IF i = id THEN [slot |-> slot, generation |-> generation] ELSE old.byId[i]],
        free |-> IF old.free # <<>> THEN Front(old.free) ELSE <<>>]

\* EntityStore::handle and get: a handle of another generation finds nothing.
Lookup(store, id) ==
    IF ~Holds(store, id) THEN None
    ELSE LET slot == store.slots[store.byId[id].slot]
         IN IF slot.generation = store.byId[id].generation THEN slot.entity ELSE None

\* A relative move, an absolute one and metadata are ignored for an id that is not stored.
Updated(store, p) ==
    LET e == Lookup(store, p.id)
    IN IF e = None THEN store
       ELSE [store EXCEPT !.slots[store.byId[p.id].slot].entity =
               CASE p.kind = "move" -> [e EXCEPT !.x = @ + p.delta]
                 [] p.kind = "sync" -> [e EXCEPT !.x = p.x]
                 [] p.kind = "data" -> [e EXCEPT !.data = p.data]
                 [] p.kind = "velocity" -> [e EXCEPT !.v = p.v]]

(***************************************************************************)
(* WorldState::apply.                                                      *)
(***************************************************************************)
\* Mutant: the last teleport id outlives the reconfiguration.
ConfiguringKeepsTeleport(w) ==
    [w EXCEPT !.active = FALSE, !.own = None, !.x = None, !.rotated = FALSE, !.rain = FALSE,
              !.chunks = [c \in Coordinates |-> None], !.store = Cleared(@)]
BeganConfiguration(w) ==
    [w EXCEPT !.active = FALSE, !.own = None, !.dim = None, !.mode = None, !.x = None,
              !.rotated = FALSE, !.teleport = None, !.rain = FALSE,
              !.chunks = [c \in Coordinates |-> None], !.store = Cleared(@)]

EnteredWorld(w, p) ==
    [w EXCEPT !.active = TRUE, !.own = p.own, !.dim = p.dim, !.mode = p.mode, !.stay = p.stay]

\* Mutant: the entities of the old world stay.
RespawnedAmongOld(w, p) ==
    [w EXCEPT !.dim = p.dim, !.mode = p.mode, !.stay = p.stay, !.x = None,
              !.rotated = @ \/ ~p.keep, !.rain = @ /\ p.dim = w.dim,
              !.chunks = [c \in Coordinates |-> None]]
\* The position goes, the last teleport id stays; weather only survives in its dimension.
Respawned(w, p) ==
    [w EXCEPT !.dim = p.dim, !.mode = p.mode, !.stay = p.stay, !.x = None,
              !.rotated = @ \/ ~p.keep, !.rain = @ /\ p.dim = w.dim,
              !.chunks = [c \in Coordinates |-> None], !.store = Cleared(@)]

(***************************************************************************)
(* The session's task.                                                     *)
(***************************************************************************)
Settled ==
    /\ world = [active |-> TRUE, own |-> First, dim |-> 0, mode |-> 0, stay |-> 0, x |-> 0,
                rotated |-> TRUE, teleport |-> 1, rain |-> FALSE,
                chunks |-> [c \in Coordinates |-> None], store |-> NoEntities]
    /\ task = [controller |-> First, decode |-> None, configuring |-> FALSE,
               loaded |-> FALSE, requested |-> FALSE,
               sim |-> IF WorldMode THEN [x |-> 0, v |-> NoPush, after |-> 1, told |-> TRUE]
                       ELSE None]
    /\ wserver = [own |-> First, dim |-> 0, mode |-> 0, x |-> 0, v |-> NoPush, rain |-> FALSE,
                  stay |-> 0, teleport |-> 1, sent |-> 1, awaiting |-> None,
                  entities |-> [i \in {} |-> 0], chunks |-> [c \in Coordinates |-> None],
                  batches |-> 0, alive |-> TRUE, asked |-> {}, configuring |-> FALSE]

Init == habit \in Habits /\ InventoryInit /\ Settled

\* Mutant: another frame is read while a chunk is being decoded.
ReadsAlways == ~task.configuring
\* While a chunk is decoded on the blocking pool only ticks are served.
MayRead == task.decode = None /\ ~task.configuring
Reads(kinds) == Running /\ MayRead /\ down # <<>> /\ Head(down).kind \in kinds
Frame == Head(down)

WithoutInventory == UNCHANGED <<habit, mailbox, render, server, excuses>>
Took == down' = Tail(down) /\ UNCHANGED <<ui, wserver>> /\ WithoutInventory
Answer(packets) == up' = up \o packets
Goes(w, t) == world' = w /\ task' = t /\ UNCHANGED net
Ends(reason) == net' = [net EXCEPT !.ended = [kind |-> reason, id |-> 0]] /\ UNCHANGED <<world, task>>

EntityKinds == {"spawn", "remove", "move", "sync", "data", "velocity"}
\* apply_velocity: only of the controller's own entity, and only a simulation that is there.
Pushed(t, p) ==
    IF p.id = t.controller /\ t.sim # None THEN [t EXCEPT !.sim.v = p.v] ELSE t

\* Entity packets go first, and only World Mode decodes them.  The own player's spawn is
\* dropped and its velocity handed on, by the entity id of the first login.
ReadEntity ==
    /\ Reads(EntityKinds)
    /\ IF ~WorldMode THEN Goes(world, task)
       ELSE CASE Frame.kind = "velocity" /\ Frame.id = First -> Goes(world, Pushed(task, Frame))
              [] Frame.kind = "spawn" /\ Frame.id = First -> Goes(world, task)
              [] Frame.kind = "spawn" /\ Frame.id # First ->
                   IF RoomLeft(Vacated(world.store, Frame.id))
                   THEN Goes([world EXCEPT !.store = Spawned(@, Frame.id, Frame.entity)], task)
                   ELSE Ends("entities")
              [] Frame.kind = "remove" ->
                   Goes([world EXCEPT !.store = FoldLeft(Removed, @, Frame.ids)], task)
              [] OTHER -> Goes([world EXCEPT !.store = Updated(@, Frame)], task)
    /\ Answer(<<>>) /\ Took

\* A chunk goes to a decoding worker; nothing but its end or a tick is waited for.
ReadChunk ==
    /\ Reads({"chunk"})
    /\ Goes(world, [task EXCEPT !.decode = Frame])
    /\ Answer(<<>>) /\ Took

\* Load: replaces, or is one chunk too many.
FinishDecode ==
    /\ Running /\ task.decode # None
    /\ LET c == task.decode.at
           others == {d \in Coordinates \ {c} : world.chunks[d] # None}
       IN CASE ~world.active -> Ends("lifecycle")
            [] world.active /\ Cardinality(others) >= MaxChunks -> Ends("chunks")
            [] OTHER -> Goes([world EXCEPT !.chunks[c] = task.decode.chunk],
                             [task EXCEPT !.decode = None])
    /\ UNCHANGED <<ui, up, down, wserver>> /\ WithoutInventory

\* Light, blocks and block entities change a loaded chunk only; Unload takes it out.
ReadChunkUpdate ==
    /\ Reads({"forget", "update"})
    /\ LET c == Frame.at
       IN CASE ~world.active -> Ends("lifecycle")
            [] world.active /\ Frame.kind = "forget" ->
                 Goes([world EXCEPT !.chunks[c] = None], task)
            [] world.active /\ Frame.kind = "update" ->
                 Goes([world EXCEPT !.chunks[c] = IF @ = None THEN None
                         ELSE [@ EXCEPT !.data[Frame.field] = Frame.value]], task)
    /\ Answer(<<>>) /\ Took

\* Events of the world that only set a field of the session.
ReadSetting ==
    /\ Reads({"rain", "mode"})
    /\ IF ~world.active THEN Ends("lifecycle")
       ELSE Goes(IF Frame.kind = "rain" THEN [world EXCEPT !.rain = Frame.rain]
                 ELSE [world EXCEPT !.mode = Frame.mode], task)
    /\ Answer(<<>>) /\ Took

\* WorldMovementController::reset.
Reset(t, own) == [t EXCEPT !.sim = None, !.controller = own]

ReadRespawn ==
    /\ Reads({"respawn"})
    /\ IF ~world.active THEN Ends("lifecycle")
       ELSE Goes(Respawned(world, Frame), Reset(task, world.own))
    /\ Answer(<<>>) /\ Took

\* absolute_position_update and apply_position: World Mode resolves against the local
\* simulation first, Chat Mode against the authoritative position.
Base == IF task.sim # None THEN task.sim.x ELSE world.x
Turned == task.sim # None \/ world.rotated
Refusal(p) ==
    CASE p.relative /\ Base = None -> "baseline"
      [] p.turns /\ ~Turned -> "baseline"
      [] ~world.active -> "lifecycle"
      [] world.teleport # None /\ p.id <= world.teleport -> "stale"
      [] OTHER -> "none"
Target(p) == IF p.relative THEN Base + p.x ELSE p.x

\* Mutant: Chat Mode, which has no simulation, does not answer.
ConfirmedIfSimulated(p) == IF WorldMode THEN <<[kind |-> "confirm", id |-> p.id]>> ELSE <<>>
Confirmation(p) == <<[kind |-> "confirm", id |-> p.id]>>

\* Mutant: a simulation that runs is left where it is.
SimulationKept(sim, p, x) ==
    IF sim # None THEN [sim EXCEPT !.v = NoPush, !.told = FALSE]
    ELSE [x |-> x, v |-> NoPush, after |-> p.serial, told |-> FALSE]
\* Mutant: a correction leaves the velocity as it was.
VelocityKept(sim, p, x) ==
    [x |-> x, v |-> IF sim = None THEN NoPush ELSE sim.v, after |-> p.serial, told |-> FALSE]
\* WorldMovementController::reconcile: the packet tracker starts again at the pose, which
\* the server is therefore not told until the next forced position.
Reconciled(sim, p, x) == [x |-> x, v |-> NoPush, after |-> p.serial, told |-> FALSE]

\* The world, the confirmation and the simulation, with no tick between them.
ReadPosition ==
    /\ Reads({"position"})
    /\ IF Refusal(Frame) # "none" THEN Ends(Refusal(Frame)) /\ Answer(<<>>)
       ELSE LET x == Target(Frame)
            IN /\ Goes([world EXCEPT !.x = x, !.rotated = TRUE, !.teleport = Frame.id],
                       IF WorldMode THEN [task EXCEPT !.sim = Reconciled(task.sim, Frame, x)] ELSE task)
               /\ Answer(Confirmation(Frame))
    /\ Took

\* synchronize_player_rotation, and WorldMovementController::rotate.
ReadRotation ==
    /\ Reads({"rotation"})
    /\ CASE Frame.turns /\ ~Turned -> Ends("baseline")
         [] ~world.active -> Ends("lifecycle")
         [] OTHER -> Goes([world EXCEPT !.rotated = TRUE], task)
    /\ Answer(<<>>) /\ Took

ReadKeepAlive ==
    /\ Reads({"keep_alive"})
    /\ Goes(world, task) /\ Answer(<<Frame>>) /\ Took

\* The end of a batch is acknowledged; the first one also says the player has loaded.
ReadBatchFinished ==
    /\ Reads({"batch_finished"})
    /\ Goes(world, [task EXCEPT !.loaded = TRUE])
    /\ Answer(<<[kind |-> "batch_received"]>>
              \o IF task.loaded THEN <<>> ELSE <<[kind |-> "player_loaded"]>>)
    /\ Took

\* InitialRespawnRecovery: once in a session, and in World Mode only.
ReadHealth ==
    /\ Reads({"health"})
    /\ IF WorldMode /\ ~task.requested
       THEN Goes(world, [task EXCEPT !.requested = TRUE])
            /\ Answer(<<[kind |-> "perform_respawn"]>>)
       ELSE Goes(world, task) /\ Answer(<<>>)
    /\ Took

\* StartConfiguration, up to the wait for the server's configuration, which is inline: no
\* tick and no command is served (the exchange itself is module Login).
ReadStartConfiguration ==
    /\ Reads({"start_configuration"})
    /\ Goes(BeganConfiguration(world), [task EXCEPT !.configuring = TRUE])
    /\ Answer(<<[kind |-> "configuration_acknowledged"]>>)
    /\ Took
FinishConfiguration ==
    /\ Running /\ task.configuring /\ down # <<>> /\ Frame.kind = "login"
    /\ Goes(EnteredWorld(world, Frame),
            Reset([task EXCEPT !.configuring = FALSE], Frame.own))
    /\ Answer(<<>>) /\ Took

\* A tick with a simulation: the player may walk; a changed position is sent, and one the
\* server has not been told is sent after twenty ticks at the latest.
Walk ==
    /\ Running /\ task.sim # None /\ ~task.configuring /\ "walks" \in habit
    /\ ui.inputs < MaxInputs[habit]
    /\ \E x \in {task.sim.x - 1, task.sim.x + 1} \cap Places :
        /\ Goes(world, [task EXCEPT !.sim.x = x, !.sim.told = TRUE])
        /\ Answer(<<[kind |-> "move", x |-> x, after |-> task.sim.after]>>)
    /\ ui' = [ui EXCEPT !.inputs = @ + 1]
    /\ UNCHANGED <<down, wserver>> /\ WithoutInventory
ForcedPosition ==
    /\ Running /\ task.sim # None /\ ~task.configuring /\ ~task.sim.told
    /\ Goes(world, [task EXCEPT !.sim.told = TRUE])
    /\ Answer(<<[kind |-> "move", x |-> task.sim.x, after |-> task.sim.after]>>)
    /\ UNCHANGED <<ui, down, wserver>> /\ WithoutInventory

WorldClient ==
    \/ ReadEntity \/ ReadChunk \/ FinishDecode \/ ReadChunkUpdate \/ ReadSetting \/ ReadRespawn
    \/ ReadPosition \/ ReadRotation \/ ReadKeepAlive \/ ReadBatchFinished \/ ReadHealth
    \/ ReadStartConfiguration \/ FinishConfiguration \/ Walk \/ ForcedPosition

(***************************************************************************)
(* The server's side of the world (external).                              *)
(***************************************************************************)
Playing == Event /\ ~wserver.configuring
Does(w, packets) ==
    /\ wserver' = w
    /\ server' = [server EXCEPT !.events = @ + 1]
    /\ down' = down \o packets
    /\ UNCHANGED <<habit, ui, mailbox, render, net, up, excuses, world, task>>

NewEntity == [id |-> None, x |-> 0, data |-> 0, v |-> NoPush]
Remote == DOMAIN wserver.entities
Tell(p, id, e) ==
    Does([wserver EXCEPT !.entities = [i \in Remote \cup {id} |-> IF i = id THEN e ELSE @[i]]],
         <<p>>)

ServerSpawns ==
    /\ Playing /\ "entities" \in habit
    /\ "crowds" \in habit \/ Cardinality(Remote) < MaxEntities
    /\ \E id \in Ids \ {wserver.own} :
        Tell([kind |-> "spawn", id |-> id, entity |-> NewEntity], id, NewEntity)
ServerMovesEntity ==
    /\ Playing /\ "entities" \in habit
    /\ \E id \in Remote :
        LET e == wserver.entities[id]
        IN \/ \E delta \in {1, -1} :
                /\ e.x + delta \in Places
                /\ Tell([kind |-> "move", id |-> id, delta |-> delta], id,
                        [e EXCEPT !.x = @ + delta])
           \/ Tell([kind |-> "sync", id |-> id, x |-> Line], id, [e EXCEPT !.x = Line])
           \/ Tell([kind |-> "data", id |-> id, data |-> 1], id, [e EXCEPT !.data = 1])
           \/ Tell([kind |-> "velocity", id |-> id, v |-> 1], id, [e EXCEPT !.v = 1])
ServerRemoves ==
    /\ Playing /\ "entities" \in habit
    /\ \E gone \in SUBSET Remote \ {{}} :
        \E ids \in SetToSeqs(gone) :
            Does([wserver EXCEPT !.entities = [i \in Remote \ gone |-> @[i]]],
                 <<[kind |-> "remove", ids |-> ids]>>)
ServerPushes ==
    /\ Playing /\ "pushes" \in habit
    /\ Does([wserver EXCEPT !.v = 1], <<[kind |-> "velocity", id |-> wserver.own, v |-> 1]>>)

\* Chunks come in batches, a batch only after the last one is acknowledged, and unless the
\* server crowds the world no more of them than the session keeps.
ServerSendsChunk ==
    /\ Playing /\ "chunks" \in habit /\ wserver.batches = 0
    /\ \E c \in Coordinates, value \in {0, 1} :
        /\ \/ "crowds" \in habit
           \/ Cardinality({d \in Coordinates \ {c} : wserver.chunks[d] # None}) < MaxChunks
        /\ LET chunk == [stay |-> wserver.stay, data |-> [f \in Fields |-> value]]
           IN Does([wserver EXCEPT !.chunks[c] = chunk, !.batches = 1],
                   <<[kind |-> "chunk", at |-> c, chunk |-> chunk], [kind |-> "batch_finished"]>>)
ServerForgets ==
    /\ Playing /\ "chunks" \in habit
    /\ \E c \in Coordinates :
        /\ wserver.chunks[c] # None
        /\ Does([wserver EXCEPT !.chunks[c] = None], <<[kind |-> "forget", at |-> c]>>)
ServerUpdates ==
    /\ Playing /\ "chunks" \in habit
    /\ \E c \in Coordinates, f \in Fields :
        /\ wserver.chunks[c] # None
        /\ LET value == 1 - wserver.chunks[c].data[f]
           IN Does([wserver EXCEPT !.chunks[c].data[f] = value],
                   <<[kind |-> "update", at |-> c, field |-> f, value |-> value]>>)

ServerSetsWorld ==
    /\ Playing /\ "weather" \in habit
    /\ \/ Does([wserver EXCEPT !.rain = ~@], <<[kind |-> "rain", rain |-> ~wserver.rain]>>)
       \/ Does([wserver EXCEPT !.mode = 1 - @], <<[kind |-> "mode", mode |-> 1 - wserver.mode]>>)

\* A teleport is awaited until its id is confirmed; while it is, it may be sent again under
\* a new id.
Teleported(w, x) ==
    [w EXCEPT !.x = x, !.v = NoPush, !.teleport = @ + 1, !.sent = @ + 1,
              !.awaiting = w.teleport + 1]
PositionPacket(w, x, relative, turns) ==
    [kind |-> "position", id |-> w.teleport, serial |-> w.sent, x |-> x,
     relative |-> relative, turns |-> turns]
ServerTeleports ==
    /\ Playing /\ "teleports" \in habit
    /\ \E x \in Places, relative \in BOOLEAN :
        LET w == Teleported(wserver, x)
        IN Does(w, <<PositionPacket(w, IF relative THEN x - wserver.x ELSE x, relative, relative)>>)
ServerRepeats ==
    /\ Playing /\ "repeats" \in habit /\ wserver.awaiting # None
    /\ LET w == Teleported(wserver, wserver.x)
       IN Does(w, <<PositionPacket(w, w.x, FALSE, FALSE)>>)
ServerTurns ==
    /\ Playing /\ "teleports" \in habit
    /\ Does(wserver, <<[kind |-> "rotation", turns |-> TRUE]>>)

\* Into a world: what was tracked is gone, weather is only told if it rains, and the new
\* position may keep the rotation the client has.
NewStay(w, rain) ==
    [w EXCEPT !.stay = @ + 1, !.rain = rain, !.alive = TRUE,
              !.entities = [i \in {} |-> 0], !.chunks = [c \in Coordinates |-> None]]
Told(rain) == IF rain THEN <<[kind |-> "rain", rain |-> TRUE]>> ELSE <<>>
RespawnPackets(w, keep) ==
    <<[kind |-> "respawn", dim |-> w.dim, mode |-> w.mode, keep |-> keep, stay |-> w.stay],
      PositionPacket(w, w.x, FALSE, TRUE)>> \o Told(w.rain)
ServerRespawns ==
    /\ Playing /\ "respawns" \in habit /\ wserver.alive
    /\ \E dim \in {0, 1}, keep, rain \in BOOLEAN :
        /\ dim = wserver.dim \/ "weather" \notin habit => rain = wserver.rain
        /\ LET w == Teleported(NewStay([wserver EXCEPT !.dim = dim], rain), 0)
           IN Does(w, RespawnPackets(w, keep))
ServerKills ==
    /\ Playing /\ "dies" \in habit /\ wserver.alive
    /\ Does([wserver EXCEPT !.alive = FALSE], <<[kind |-> "health"]>>)

ServerAsks ==
    /\ Playing /\ "asks" \in habit
    /\ LET id == server.events
       IN Does([wserver EXCEPT !.asked = @ \cup {id}], <<[kind |-> "keep_alive", id |-> id]>>)

ServerReconfigures ==
    /\ Playing /\ "reconfigures" \in habit
    /\ wserver' = [wserver EXCEPT !.configuring = TRUE, !.awaiting = None, !.asked = {},
                                  !.batches = 0]
    /\ server' = [server EXCEPT !.events = @ + 1, !.inv = Rejoined(@)]
    /\ down' = Append(down, [kind |-> "start_configuration"])
    /\ excuses' = ExcuseRejoined
    /\ UNCHANGED <<habit, ui, mailbox, render, net, up, world, task>>

\* What the client answers.
WorldAnswers == {"confirm", "move", "keep_alive", "batch_received", "player_loaded",
                 "perform_respawn"}
ServerReceives ==
    /\ up # <<>> /\ Head(up).kind \in WorldAnswers
    /\ LET p == Head(up)
           w == wserver
       IN IF w.configuring THEN wserver' = w /\ UNCHANGED down
          ELSE CASE p.kind = "confirm" ->
                      /\ wserver' = IF p.id = w.awaiting THEN [w EXCEPT !.awaiting = None] ELSE w
                      /\ UNCHANGED down
                 [] p.kind = "move" ->
                      /\ wserver' = IF w.awaiting = None THEN [w EXCEPT !.x = p.x] ELSE w
                      /\ UNCHANGED down
                 [] p.kind = "keep_alive" ->
                      wserver' = [w EXCEPT !.asked = @ \ {p.id}] /\ UNCHANGED down
                 [] p.kind = "batch_received" ->
                      wserver' = [w EXCEPT !.batches = 0] /\ UNCHANGED down
                 [] p.kind = "player_loaded" -> wserver' = w /\ UNCHANGED down
                 [] p.kind = "perform_respawn" ->
                      IF w.alive THEN wserver' = w /\ UNCHANGED down
                      ELSE LET new == Teleported(NewStay(w, w.rain), 0)
                           IN wserver' = new /\ down' = down \o RespawnPackets(new, FALSE)
    /\ up' = Tail(up)
    /\ UNCHANGED <<habit, ui, mailbox, render, net, server, excuses, world, task>>

\* The acknowledgement ends the old login: a new one follows, its teleport ids start again
\* and the player may have another entity id.
ServerRelogs ==
    /\ up # <<>> /\ Head(up).kind = "configuration_acknowledged"
    /\ \E own \in IF "renames" \in habit THEN Ids ELSE {First} :
        LET fresh == NewStay([wserver EXCEPT !.own = own, !.configuring = FALSE,
                                             !.teleport = 0, !.mode = 0, !.dim = 0], FALSE)
            w == Teleported(fresh, 0)
        IN /\ wserver' = w
           /\ down' = down \o <<[kind |-> "login", own |-> own, dim |-> 0, mode |-> 0, stay |-> w.stay],
                                PositionPacket(w, 0, FALSE, FALSE),
                                Content(server.inv.player)>>
    /\ up' = Tail(up)
    /\ UNCHANGED <<habit, ui, mailbox, render, net, server, excuses, world, task>>
\* Inventory packets of the old login are not served any more.
ServerDiscards ==
    /\ up # <<>> /\ wserver.configuring
    /\ Head(up).kind \notin WorldAnswers \cup {"configuration_acknowledged"}
    /\ up' = Tail(up)
    /\ excuses' = excuses \cup {"lost"}
    /\ UNCHANGED <<habit, ui, mailbox, render, net, down, server, world, task, wserver>>

WorldServer ==
    \/ ServerSpawns \/ ServerMovesEntity \/ ServerRemoves \/ ServerPushes \/ ServerSendsChunk
    \/ ServerForgets \/ ServerUpdates \/ ServerSetsWorld \/ ServerTeleports \/ ServerRepeats
    \/ ServerTurns \/ ServerRespawns \/ ServerKills \/ ServerAsks \/ ServerReconfigures
    \/ ServerReceives \/ ServerRelogs \/ ServerDiscards

(***************************************************************************)
(* The inventory in the session: its packets are read by the same task,    *)
(* its commands are served by the ticks of a running simulation.           *)
(***************************************************************************)
InventoryStep ==
    /\ \/ Overlay \/ TakeUpdate
       \/ task.sim # None /\ ~task.configuring /\ Tick
       \/ task.sim = None /\ ~task.configuring /\ TickWithoutSimulation
       \/ Reads(InventoryKinds) /\ ReadPacket
       \/ /\ ~wserver.configuring /\ up # <<>> /\ Head(up).kind \in CommandKinds
          /\ ReceiveClick \/ ReceiveOther
       \/ ~wserver.configuring /\ Server
    /\ UNCHANGED sessionVars

Next == InventoryStep \/ WorldClient \/ WorldServer
Spec == Init /\ [][Next]_vars

(***************************************************************************)
(* Properties.                                                             *)
(***************************************************************************)
\* The world, its store and its chunks keep their bounds and their shapes: an entity or a
\* chunk more than MAX_REMOTE_ENTITIES or MAX_LOADED_CHUNKS is never stored.
WorldTypeOK ==
    /\ world.own \in Ids \cup {None} /\ world.active = (world.own # None)
    /\ world.x \in Int \cup {None} /\ world.teleport \in Nat \cup {None}
    /\ Len(world.store.slots) <= MaxEntities
    /\ Cardinality({c \in Coordinates : world.chunks[c] # None}) <= MaxChunks
    /\ task.controller \in Ids
    /\ task.sim # None => WorldMode /\ task.sim.x \in Int
TypeOK == habit \in Habits /\ InventoryTypeOK /\ WorldTypeOK

\* The server tracks more entities, or sends more chunks, than the session keeps.
Crowded == "crowds" \in habit

\* No packet of the world ends the session: teleport ids, missing baselines and lifecycles
\* never do, and too many entities or chunks only if the server tracks or sends too many
\* (state.rs apply_position, require; entity.rs spawn; chunk.rs load).
OnlyCrowdsEnd ==
    net.ended # None /\ net.ended.kind \notin InventoryKinds \cup {"command"} =>
        net.ended.kind \in {"entities", "chunks"} /\ Crowded

\* No lawful packet ends the session: of the world only a crowd does, and of the inventory
\* only a crossing of closes.
SessionSurvives == OnlyCrowdsEnd /\ OnlyCrossingsEnd

\* Every slot of the entity store is either found by the id it holds, with its generation,
\* or free, once (entity.rs spawn, remove, clear).
StoreExact ==
    LET store == world.store
        used == {store.byId[i].slot : i \in DOMAIN store.byId}
    IN /\ \A i \in DOMAIN store.byId : Lookup(store, i) # None /\ Lookup(store, i).id = i
       /\ used \cup Range(store.free) = DOMAIN store.slots
       /\ Len(store.free) + Cardinality(used) = Len(store.slots)
       /\ Cardinality(used) = Cardinality(DOMAIN store.byId)

\* A chunk in the world was sent for this stay in it: neither a respawn nor a
\* reconfiguration lets one through that a worker was decoding meanwhile.
ChunksCurrent ==
    \A c \in Coordinates : world.chunks[c] # None => world.chunks[c].stay = world.stay

\* What the session keeps of the world is sound, after every packet and every tick.
WorldSound == StoreExact /\ ChunksCurrent

\* The server never moves the player to a position the client computed before it knew of
\* the last teleport (ReadPosition: confirmed and reconciled with no tick between).
NoStaleMoves ==
    [][/\ up # <<>> /\ Head(up).kind = "move"
       /\ up' = Tail(up) /\ wserver'.x # wserver.x
       => Head(up).after = wserver.sent]_vars

\* Once all is quiet the client's world is the server's: dimension, mode, weather, chunks,
\* entities and position; but a remote entity with the id of the first login is not shown.
\* What pushes the own player reaches its simulation, as long as it has that id.
SessionQuiet ==
    /\ Quiet /\ task.decode = None /\ ~task.configuring
    /\ task.sim # None => task.sim.told
KnownEntities == [i \in DOMAIN world.store.byId |-> [Lookup(world.store, i) EXCEPT !.id = None]]
ViewAgrees ==
    SessionQuiet =>
        /\ world.own = wserver.own /\ world.dim = wserver.dim
        /\ world.mode = wserver.mode /\ world.rain = wserver.rain
        /\ world.chunks = wserver.chunks
        /\ WorldMode => /\ KnownEntities = [i \in Remote \ {First} |-> wserver.entities[i]]
                        /\ task.sim.x = wserver.x
                        /\ wserver.own = First => task.sim.v = wserver.v
        /\ ~WorldMode => world.x = wserver.x

\* Once all is quiet nothing waits for an answer: keep-alives, teleports, batches and, the
\* first time in World Mode, a death.
Answered ==
    SessionQuiet =>
        /\ wserver.asked = {} /\ wserver.awaiting = None /\ wserver.batches = 0
        /\ wserver.alive \/ task.requested \/ ~WorldMode
=============================================================================
