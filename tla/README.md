# Cubic, in TLA+

Cubic is a Minecraft client in Rust.  A tokio task owns the connection, the protocol state and the
authoritative `WorldState`; a window thread owns input, user interface and renderer; worker threads
build chunk meshes.  Nothing is shared between them except a handful of bounded mailboxes and
channels, and that is where this verification project starts: at the places where two threads, or
the client and its server, can disagree.

## 1. Inventory

| Part | Source | State | Operations | Interacts with |
|---|---|---|---|---|
| Framing | `cubic-protocol/src/frame.rs`, `varint.rs` | receive buffer, limits | `push`, `next_frame`, `encode_frame` | transport |
| Transforms and connection | `cubic-network/src/transforms.rs`, `connection.rs` | cipher streams, compression threshold, socket | `enable_*`, `write_all`, `read_frame` | framing, login, session |
| Status, login, configuration | `status.rs`, `development_login/`, `online_login.rs` | phase, known packs, registries | one handler per packet | connection, session |
| Play session | `chat_session.rs` | safety tracker, respawn recovery, timers | `select!` loop over packets, commands and the 50 ms tick | every part below |
| Session port | `chat_session.rs` 60-190, `cubic-core` | command and event queues, critical slot | `try_send`, `event`, `critical`, `try_recv_event` | window thread |
| Secure chat | `secure_chat.rs` | last-seen window, signing chain, acknowledgement offset | `accept_incoming`, `prepare_outgoing`, `standalone_acknowledgement` | session |
| World state | `cubic-world/src/state.rs`, `chunk.rs`, `entity.rs`, `environment.rs` | lifecycle, teleport id, chunks, entities | `apply` | session, movement |
| World adapter | `world_adapter.rs` | none | decode a packet into a `WorldState` transition | session |
| Controls | `world_movement.rs` 32-295 | input journal, look, presses, inventory commands | `set_*`, `take` | window thread, movement |
| Movement and packet tracker | `world_movement.rs`, `cubic-world/src/movement.rs` | simulation, last position sent, flight | `tick`, `reconcile` | session, mailbox |
| Block interaction | `world_movement.rs` 931-1360, `cubic-world/src/interaction.rs` | active break, sequence, predictions | `tick`, `acknowledge`, `reconcile_block_updates` | session, mailbox |
| Inventory | `cubic-world/src/inventory.rs`, `service_inventory_command` | containers, cursor, state id | clicks, server snapshots | controls, session |
| Render mailbox | `world_render.rs`, `cubic-world/src/render.rs` | coalesced deltas behind a mutex | `load`, `entity`, `reset`, `pose_*`, `take_update` | session, renderer |
| Renderer and mesh scheduler | `cubic-render/src/world.rs` | chunk store, meshes, dirty map, pending jobs, worker lanes | `apply`, `prepare`, worker loop | mailbox, platform |
| Window application | `cubic-platform/src/lib.rs` | UI mode, renderer lifetime, input sequence | winit callbacks | controls, mailbox, session port |
| User interface | `cubic-ui/src/lib.rs` | text model, scroll, selection, menus | widget operations | platform |
| Authentication | `cubic-auth/src/*` | tokens, secure store, refresh | OAuth, Xbox, Minecraft services, certificates | login, secure chat |
| Resources and versions | `cubic-resources`, `cubic-version`, `tools/version-generator` | content cache on disk | download, verify, install | renderer, protocol |
| Block models and mesher | `cubic-render/src/block_resources.rs`, `mesher.rs` | none between calls | pure functions from snapshots to vertices | mesh scheduler |
| Packet codecs and NBT | `cubic-protocol/src/bootstrap`, `nbt`, `packet_schema` | none between calls | pure encoders and decoders | session |
| Command line and logging | `cubic-app/src/*` | process start-up | argument parsing, log files | all |

What is hard in this code is not the algorithms but the seams.  Three kinds of concurrency meet:

* *threads*: the window thread, the tokio task and the mesh workers run freely and see each other
  only through mutexes and bounded channels, so each read of a mailbox falls between two writes;
* *the select loop*: the session task serves packets, commands and a 50 ms tick in any order, and
  each handler is atomic with respect to the task but not with respect to the other threads;
* *the network*: client and server each act on a state the other has already left.

Every queue between them is bounded, so each has a policy for being full (drop and count, evict the
oldest, refuse, replace by a snapshot, block), and each part has a reset (respawn, reconfiguration,
suspension) that can meet work in flight.  The properties that make a part correct are about those
two moments.  `PROJECT.json` lists the hazards one by one, at the line where each bites.

Correctness, part by part: the mailbox may coalesce but never lose or resurrect; the mesh scheduler
never leaves an outdated mesh and never strands a chunk; predictions are shown until resolved and
the server wins; the port loses nothing silently and always tells the end; the signed-chat window
stays aligned with the server's; the controls lose neither motion nor a key release; collision never
moves the player into a block; the session accepts every lawful server, and its world is the
server's once all is quiet; a click in the inventory converges with the server and conserves items;
the connection loses no byte when a read is cancelled and no phase waits for ever; the cache never
serves an unverified file; a stored account stays usable.

## 2. Plan

The modules, in the order of importance.

| Module | Composes | Abstract or strengthened form |
|---|---|---|
| `RenderMailbox` | | `WorldFeed`, refined for chunks and for entities |
| `MeshScheduler` | starts where the mailbox ends | |
| `BlockPrediction` | | |
| `Inventory`, `InventorySession`, `PlaySession` | each the one before it, on one connection | |
| `FrameTransport`, `Login` | phases over frames | |
| `SessionPort` | | |
| `SecureChat` | | |
| `PlayerControls`, `Movement` | side by side in `MCMovement` | |
| `ContentCache`, `Accounts` | side by side with `Login` in `MCLaunch` | |

The proofs (section 5) cover the safety properties of every part, but for two of the inventory.  What is
left: `Converged` of `InventorySession`, from an account of clicks and state numbers, and `Conserved`, from
one of the items a click moves.

## 3. Modules and code

Every definition that stands for code has an entry under `map` in `PROJECT.json` with its lines.
Common conventions: a Rust struct is a record-valued variable with the struct's field names in camel
case; `Option::None` is the model value `None` (`Nothing` in the mailbox); a lock hold, a channel operation or one loop
iteration is one action; each handler of the session task is one action, whole, except where the
handler itself publishes several times and another thread can look in between.  Definitions whose
comment begins *Mutant* are plausible bugs: replacing the definition by its mutant must break the
named property, and does.

### WorldFeed and RenderMailbox

`WorldFeed` says what the handoff promises without any mailbox: there is a truth, it is published
key by key, and the receiver gets everything published so far in one step; when the receiver is
destroyed it shows nothing, and what was published is gone unless still on its way.

`RenderMailbox` is the handoff as written.  `world` is the session task: its chunks and entities, and
the publications it still owes for the packet it is handling (`owedChunks`, `owedEntities`,
`owedReset`).  `mailbox` is `struct Mailbox` behind its mutex; `EntityDeltaInto` holds the overflow
rule of `WorldRenderRunner::entity`, `ResetInto` and `PoseInto` the coalescing.  `view` is the renderer
(`WorldRenderer::apply`) with the inventory overlay of the platform; it may be dropped by a suspension
and rebuilt.  `intact` is a history variable: this renderer has seen every update since the last
reset.  A chunk, an entity or an inventory is an element of `Versions`; a pose is the number of snaps
before it.  The module's own names begin with `Mailbox` where others have the same (`MailboxInit`, `MailboxSpec`).

### MeshScheduler

`ApplyLoaded`, `ApplyUnloaded` and `ApplyReset` are the arms of `WorldRenderer::apply`; `BeginPrepare`,
`IntegrateResult`, `EndIntegration`, `DropCandidate`, `Dispatch` and `EndPrepare` are the loops of
`prepare` and `dispatch_jobs`, one iteration each, so that workers move in between; `Receive` and
`SendResult` are a worker.  A job carries what the mesher reads: its chunk and the neighbours.
Budgets in time become a nondeterministic end of the loop, after the iteration each loop is sure to
make.

### BlockPrediction

`Interaction` is `BlockInteractionTracker::tick` (survival, creative, use presses), `Registered` is
`register_prediction`, `Retained` and `Shown` reconcile block updates, `Covered` is the loop of
`acknowledge`.  The server is external and honest about its own blocks: it decides about each
action, announces changes, and acknowledges.  What else it does is a set of *habits* chosen in the
initial state: correct every action, change blocks for others, reload the chunk, respawn the player,
change the game mode.

### SessionPort

The module's own names begin with `Port` where the mesh scheduler has the same (`PortInit`, `PortSpec`), so that
`ThreadProofs` can extend the mailbox, the scheduler and the port together.  `port` is what `ChatSessionHandle` and `ChatSessionRunner` share: two bounded queues, the critical slot,
the drop counter.  `task` is the session (Chat or World Mode, chosen initially) with the
`SessionSafetyTracker`; `ui` is `ChatMode::poll`, read by read, and the closing window.  A health packet
raises its alerts one by one, because the window may take the slot between two.

### SecureChat

`chat.sequence` is `SecureChatSequence` with its `LastSeenTracker`; the session is authenticated or
an offline one that keeps no window (chosen initially).  The server numbers its messages, tracks the
signed ones and validates each acknowledgement offset, window and chain index; a violation is
`server.fault`, on which a real server disconnects.  A signature is the serial number of its message.

### PlayerControls and Movement

`mailbox` is `ControlState`; `Recorded` is `record_input_transition`, `Taken` is `take`.  `body` is the
simulation, whose physics is any step of at most `MaxStep`; `tracker` is `MovementPacketTracker`, and
`Tell` is `frames_with_flight`.  `told` is history: what a server knows that has read every frame.  The
model assumes that the player a server creates at a respawn or reconfiguration holds no key.

`Movement` is the collision inside that step, on a grid: `Walk` is `PlayerMovementState::tick` from the
requested displacement on, with `back_off_from_edge`, `collide` (direct and stepped) and the ground
test.  `COLLISION_EPSILON` becomes the difference between touching and overlapping.  What chooses the
displacement (acceleration, fluids, climbing, knock-back) is an input.

### Inventory, InventorySession and PlaySession

`Inventory` is `cubic-world/src/inventory.rs` as operators on `InventoryState`: one per click mode, the
quick-craft gesture, the routes of quick moves and the server's packets.
`InventorySession` puts three copies of it to work: `ui.inv` (the overlay, which predicts), `net.inv` (the
session, which predicts again when its tick drains the command mailbox, and sends the click), and
`server.inv`.  The server is external: it carries out clicks that match its state, answers others
with the whole container, and opens, closes, sets and selects by itself.

The Creative screen is in `InventorySession` with every input it takes: clicks of either button, shift,
double and middle clicks on the player's slots (`CreativeSlotClick`, made on a copy of which the
differences are sent), hotbar keys, Q, shift-clicks on the hotbar and the trash (`CreativeKey`), the
picker (`CreativePick`, with its keys in `CreativeCopy`), and a drop outside the screen.  Its quick craft
is one action, at the release, since it asks for nothing before.  Each command enters the mailbox
by itself, and those that find it full are refused one by one (`Send`); all commands of one input enter it
in the same step, so that a tick between two of them is not modelled.  Menus of other layouts than
chest, furnace and crafting table are left out.

`PlaySession` adds the world on the same connection: `world` is `WorldState` with its `EntityStore` (slots,
generations, free list) and chunks, `task` is what `run_connected` keeps beside it (the id of the first
login, the chunk being decoded on another thread, whether the initial respawn was requested, the
simulation), `wserver` is the server.  `ReadPacket` reads whole packets in order, except that
while a chunk is decoded only ticks and commands run.  What a server may do is limited by a *habit*
chosen in the initial state, so that each run of events is a short one.

### FrameTransport and Login

`FrameTransport` is a connection with bytes as units: a frame is a number of bytes with the marks of
how it was encrypted and compressed, the socket delivers any part of what is on the wire, a read may
be cancelled, `FrameDecoder` takes a frame out when it is whole.  `Login` runs the phases of
`status.rs` and `development_login` over it: one action per packet of the client, with a server that
chooses among everything the phases allow, errors and disconnections included.

### ContentCache and Accounts

`ContentCache` is the bootstrap of `cubic-resources`: `disk` holds final files by content (good, bad,
absent), `parts` the temporary files by name, `program` the program counter of each process.  A step of
a process is one file-system call or one request, so that a crash, damage or the other process falls
between any two.  `Accounts` is one credential store, a token service with a rotation policy, and
commands that sign in, refresh, save and log out, each stopping anywhere.

## 4. Runs

| Run | What it asks | Result |
|---|---|---|
| `mailbox_feed` | Two chunks, two entities over a cap of one, two resets, suspension: do view and pending update always make up the session's world, and does the mailbox implement `WorldFeed`, for chunks and for entities (`Feeds`)? | holds, 1.6 million states |
| `mailbox_presentation` | Poses, target, overlay and one chunk: can the camera glide across a correction, can the overlay stay behind (`PresentationSound`), does polling alone deliver everything? | holds |
| `mesh_scheduler` | Two neighbouring chunks, two workers, a reset with jobs in flight: can an outdated mesh stay or appear, can a chunk be stranded, does it settle? | holds |
| `prediction_ledger` | Three kinds of server, two use presses in a tick: queue discipline, no flicker, resolution, and the server's blocks win | holds |
| `prediction_stale_base` | others change a block while it is being broken | violated |
| `port_session` | Queues of one entry, every way to end: accounting, end and reason shown, closing ends the task | holds |
| `port_drowning` | Is every crossing of the air threshold warned about? | violated in World Mode |
| `chat_chain` | Five messages each signed, unsigned or repeated, three chats, a reconfiguration: does the server ever find fault (`ChatAccepted`)? | holds |
| `controls_tick` | A journal of one entry, teleports, rotations, rollbacks, a respawn: look, what the server is told (`ServerInformed`), held keys; and collision in four small worlds | holds |
| `controls_commands` | Is every accepted inventory command served? | violated |
| `play_session` | Twenty-two kinds of session: clicks in every mode, menus, corrections, entities, chunks, walking, teleports, deaths, reconfigurations: convergence, conservation, no lawful server turned away, nothing stale shown or sent, everything answered | holds, 502 thousand states |
| `launch` | Status query, offline and online login; two processes on one content cache; two commands on one credential store | holds, 450 thousand states |

`launch` and `controls_tick` each follow parts that share no state.  A variable `part`, chosen in the
initial state, says which part of the model a behaviour is about; the others rest.  Nothing is lost
by that: a product of parts that do not interact has no state whose projections are not reached.

### Bounds

Every bound is a named constant of its module.  Capacities are the smallest that still show both
sides of the limit (an entity cap of one with two entities; a queue or journal of one entry; a
prediction queue of two), since the code compares only with the limit.  Counters that grow for
ever in the code (generations, revisions, sequence numbers, messages) are capped by a bound on the
events that increase them: two resets, so that one can hit the work the other left; four chunk
changes; three interactions, enough for a break (two frames) and a placement over it; two packets at
the port, so that one alert meets another; five chat messages for a window of two and a
threshold of one.

In `play_session` the bound is per habit (`MCBounds`: inputs of the user, events of the server), one to
four of each, because a habit enables few kinds of both; stacks hold one to three items, so that
every stack is at its limit soon; collecting (`pickup_all`) begins with one, three (a full stack) and two coals,
once with the pickup that puts a part of one on the cursor, so that it takes from partial stacks before full
ones and stops at the maximum, and once among the clicks that create or drop items, which `Conserved` does
not follow; three chunk coordinates with room for two chunks, so that a server
that *crowds* the world meets that limit and the one of two entity slots; four entity ids, a command
mailbox of two.  In `launch` a read delivers at most two units (`ReadSize`) and at most three are on the wire
(`MaxOnWire`), so that frames of up to three are cut at every place; each phase has two or three
packets (`MaxLoginPackets` and the like stand for the caps of the code), one reconfiguration; one
crash and one damaged file (`MaxCrashes`, `MaxSpoils`) per behaviour and two processes over two process
ids, which may be used again; two commands and two tokens.  In `Movement` a block is two units, the
player one wide and four (three) high, a step is one, and displacements go up to three units, further
than a block; the four worlds have a slab, a fence, a low ceiling, two blocks touching at an edge
and a pit.  At that grain an overhanging fence is always among the cells that the epsilon looks at, so
that its extension in `source_cell_range` is followed and not tested.

No width of an integer matters within a session: sequence numbers are `i32` and
grow by one per action.

Runs may stop (`CHECK_DEADLOCK FALSE`) where a session may end or the bounded environment runs out;
`controls_tick` and `controls_commands` check for deadlock, as the tick never stops.

### Fairness

* `RenderMailbox`: weak fairness of `TakeUpdate` only, because `about_to_wait` polls at least every
  200 ms whatever wakes it.  Resuming a suspended window is left to the user.
* `MeshScheduler`: `has_pending_work` keeps the window redrawing, so `prepare` begins again and goes
  on with its loops while they have work; worker threads are scheduled by the system.
* `BlockPrediction`: both ends go on reading, and the server acknowledges at the end of its tick.
* `SessionPort`: the window polls, an exiting application is dropped, the task is scheduled, and
  `select!` chooses at random among ready branches, so a waiting command is served.  Packets and
  failures are never assumed.
* `PlayerControls`: the 20 Hz interval fires.
* `Login`: the client and the server each take a step they can take, and data on the wire arrives
  (strongly fair, because a cancelled read may be started again and again).
* `PlaySession`, `ContentCache` and `Accounts` state no fairness: their promises are about quiet states.

## 5. Proofs

Each theorem holds for every value of the constants that the module's `ASSUME` admits: any number of
chunks, keys, messages, positions, processes, any capacity and any bound on the environment.
Beyond sizes (a capacity is positive, a set is finite) the assumptions say two kinds of things.  A
special value differs from the ordinary ones: `Option::None` is no number, position, entity or record,
`Absent` or `Gone` no content, `Clean` no revision, `Unloaded` no block state.  And three relations that the code
relies on hold: `MaxPending >= 2 * Workers` (`MAX_PENDING_MESH_JOBS` is 32 and there are at most four workers);
being neighbours is symmetric; and a receive buffer has room for the largest frame with its length
prefix and one read more (`MaxBuffered >= 3 + ReadSize`, where the largest frame of the model has four
units, its prefix included, so that at most three of it are incomplete): `FrameLimits::new` demands the
first part, and the two users of a connection leave more than the second, 256 KiB for frames of
128 KiB and 4 MiB for frames of 2 MiB, with reads of 8 KiB (`connection.rs:14`).

| Module | Theorems about the runs' properties |
|---|---|
| `ThreadProofs` | of the mailbox `NothingLost`, `UpToDate`, `PendingStaysBounded`, `NoGlide`, and `ImplementsFeeds`, the refinement of `WorldFeed` for the terrain and for the entities; of the mesh scheduler `TypeCorrect`, `NoStaleMesh`, and the action property `OnlyGetsCurrent`; of the session port `NothingSilentlyLost` |
| `BlockPredictionProofs` | `TypeCorrect` (with the order and the bound of the queue), `NoFlicker`, `ServerPrevails` |
| `SecureChatProofs` | `TypeCorrect`, `AlwaysAccepted`, `LagStaysBounded` |
| `PlayerControlsProofs` | `TypeCorrect`, `NoLookLost`, `ServerStaysInformed` of the controls; the action property `NeverIntoABlock` of collision; `TickSound` and `TickNeverIntoABlock` of both side by side |
| `PlaySessionProofs` | `WorldStaysSound` from `StaysInductive`; `NothingUnanswered` and the action property `MovesNeverStale` from `TalkInductive` |
| `ViewProofs` | `ViewsAgree` and `OnlyCrowdsEndSessions` (the world's half of `SessionSurvives`) from `ViewsInductive`; the lemmas about clicks and packets of one inventory |
| `InventoryProofs` | `SessionTypes` from `TypesInductive`; `OnlyCrossingsEndSessions` (the inventory's half) from `OrderInductive`; `SessionsSurvive`, the two halves together |
| `LaunchProofs` | `LoginFrames`, `LoginUnderstood`, `LoginRegistries` from `LoginInductive`; `CacheStaysSound`, `AccountsStaySound`; `LaunchSound`, all of them of the composition |

All safety theorems follow from an inductive invariant (`IInv` unless named otherwise) by the same
argument: `Init => IInv`, one lemma per class of step for `IInv /\ [Next]_vars => IInv'`, and `IInv`
implies the property.  TLC checked the properties first, and of the invariants what it can evaluate.  What each adds, and why:

**Render mailbox.**  `PendingCompletesView` is not inductive by itself, for three reasons, and `IInv` adds
one conjunct for each.  A reset that is owed excuses the property, so once it is published the world
must be known to be empty and nothing else owed (`OwedResetEmpty`).  `WorldRenderer::apply` starts afresh
when the *generation* differs, the mailbox when *reset* is pending, and the two must agree for a
renderer that is intact (`IntactGeneration`).  And a take happens only when `dirty` is set, so whatever
is pending must have set it (`DirtyCovers`, which also yields `UpToDate`).  `PInv` is a second
invariant, about what needs no intact renderer: the pending deltas, and what the mailbox and the
renderer know of the last snap.  For the refinement every step of the mailbox is mapped to a
publication, a delivery, a loss or a stutter of `WorldFeed`; `IInv` supplies the state in which the map
is right.

**Mesh scheduler.**  A job, a mesh being built or a result still *counts* when its generation is the
world's and its revision the one its chunk waits for.  `IInv` says of everything that counts, in the
lanes, in the workers' hands and in the results, that it was made from the chunks as they are now
(`LanesSound`, `BuildingSound`, `ResultsSound`), and that no chunk waits for a revision that has not
happened (`DirtyBounded`), so that a new revision makes everything older stop counting.

**Block prediction.**  Whatever the server does, the types and the order of the queue are inductive.  In
a steady world `SteadyInv` adds: nothing travels that replaces the world or the session
(`Undisturbed`); predictions are shown (`Presented`); the next sequence number is ahead of everything under
way, and predictions ahead of what was acknowledged (`Ahead`); the action of each prediction, or an
acknowledgement that covers it, is under way (`Awaited`); and for each position the last update under
way, or else what the client takes the server's block to be, is the server's block, unless a
completed break is under way to a server that corrects it (`Agrees`).  The attempt to prove
`SteadyServerWins` as it was first stated failed: it admitted any server that changes no block for
others, but the player's own placement can replace a block under a break in progress once there is
more than one kind of block, which TLC confirmed with two kinds.  It is now restricted to servers
that correct every action or to one kind of block (`OneKind`); `prediction_stale_base` shows the rest.

**Session port.**  `PortSound` is inductive as it is; the lemmas say what `Offer`, the critical slot and a
poll do to the accounts.

**Secure chat.**  What travels in either direction is described by a *walk*, a function from the places of
a queue to what the receiver will know when it has taken the messages before that place.  A walk
begins with what the receiver knows and ends with what the sender takes for granted, so sending
extends it and receiving drops its first step.  Upwards there is also one record of which messages
the client claims to have seen, which all its reports have to fit.

**Controls.**  While a simulation runs its yaw is the tracker's baseline and was told, the position told
is the baseline unless a rotation moved that, and `told.age` counts with the forced-position reminder
(`SamePose`).  Turning by two deltas, one after the other or at once, is the same modulo a turn
(`TurnTwice`).

**Collision.**  No invariant but the types is needed: the property is about one step.  `Clear` says of a
box that no block anywhere reaches into it, and `FreeIsClear` that `Free`, which looks only at the cells the
box touches and one below, says the same; both this and `Collected`, that `collect_obstacles` finds
everything that overlaps a box, come down to what a division by the cell size bounds
(`CellRange`).  `ResolveSound` is the heart: a component resolved against a set of obstacles goes no
further than requested, and leads into none of them that the box was out of.  The five
resolutions of a step keep that up (`HorizontalSound`, `CollidedSound`), and where they end is
within the box for which the obstacles were collected (`ReachType`, `ClearWithinReach`), so that
nothing outside the collection is met.  The minima over obstacles need no finiteness: what is minimised is
not negative.

**Login.**  `FramesIntact` says what has been handled; to know that the next frame will be, the
proof needs what is under way.  `LoginInv` holds at any time the types, the three properties and
`Handled <= Last`, and of a login still running the conjuncts of `Parts`:

* `StreamSound`: receive buffer and wire, put one after the other, are the frames not yet handled, byte by
  byte.  A read then moves the border between the two and changes nothing else, wherever it cuts;
  the decoder meets the prefix of the next frame at the front; and what is incomplete is less than one
  frame, so that with the assumption on `MaxBuffered` no read overflows.
* `KeysSound`: the position in the key stream of every byte on the wire is the one from which the
  client will decipher it.  This is where a byte that was buffered before the cipher was switched on
  would do harm, and the reason why there is none is `AcksSound`: a packet that changes phase or
  cipher is the last one sent until its acknowledgement, and the acknowledgement is under way only
  when the client has handled everything.
* `PhasesSound`, `FramesPlaced`, `KindSound`: each frame was sent in the phase in which the frame before it
  leaves the client.
* `WritesSound` and `ZipSound`: the same for what the client writes, and for compression, which has no
  acknowledgement: it holds for the frames after `set_compression` at either end, and the client cannot
  write between the server's change and its own, because during the login phase it only answers
  and the server changes only when it is owed no answer.  `OwedSound` is that count, as the cardinality of
  the questions not handled and the answers not read.
* `RegistriesSound`: what has been merged so far, with what the phase in progress would merge, is the
  last frame handled of each registry.

**Play session.**  Three invariants over one basis.  The basis is `Typed`, the shapes of world, task,
server and of every packet in either direction (whole packets, by kind), with `StoreSound`, which says
of the entity store what `StoreExact` counts: a handle leads to a slot of its generation that holds
its id, a free slot is free once, and every slot is one or the other.  `Phase` says where a
reconfiguration is: `start_configuration` is the last packet of the old login downwards,
`configuration_acknowledged` the last upwards, and `login` the first of the new one.

* `TalkInv` adds `Teleports` and `Questions`.  While the server awaits nothing, no position is under
  way, and the simulation and every move under way come after its last teleport; behind the confirmation
  it awaits, the same holds already; and the position it awaits the confirmation of is the last one
  under way.  `MovesNeverStale` is then one step away.  A question of the server is under way down
  or its answer is under way up, so on quiet channels there is none (`NothingUnanswered`).
* `WorldInv` adds `Stays`.  `StayIn` says in which stay the client will be at a place of the stream: the one
  it is in, until a `respawn` or a `login` before that place.  Every chunk under way fits its place, a
  chunk being decoded fits the world, because no frame is read meanwhile, and a world that is being
  reconfigured has no chunks, because login does not clear them (`BeganConfiguration` does).
* `Views` adds what the two sides see of the world.  `View` is the client's side, with a chunk being decoded
  counted as loaded and the position, in World Mode, as the serial number of the last teleport the
  simulation knows; `Shows` is the server's.  `After` says what a packet makes of a view, `Lawful` when it
  may: a chunk or an entity has room, a relative position a baseline, a teleport a new number.  `Leads`
  joins the two: told every packet under way in turn, each lawful in its place, who sees `ClientView`
  comes to see `ServerView`.  A packet sent extends this walk at its end, one read drops its first step,
  and the readers of `PlaySession` change the view as `After` says (`ClientSees`); that each packet is
  lawful where it will be read is why none ends the session, wherever it is met (`OnlyCrowdsEnd`).
  Where the simulation stands the server learns from the moves only: `Poses` says that the last
  move under way is from where it stands, with no confirmation behind it that would undo it, or
  that it is where the server has the player.  `ViewsInductive` needs `TalkInv` for the packets' shapes and the
  phases; on quiet channels the walk has no step left, and the views agree (`QuietAgrees`).

Each of the client's and the server's steps is first reduced to what it does to the channels and the
few fields concerned (`ClientEffect`, `StayEffect`, `TalkEffect`, `InventoryEffect`), and the invariants are
proved from these effects.

**Inventory.**  `InventoryProofs` adds what the packets of the inventory say and what is done with them.

* `Fits` is said of all copies at once (overlay, session, render update, server), of the commands in the
  mailbox and of the packets under way: every container has the slots of its menu, every stack at most its
  maximum, a gesture is over slots of a container that is there, in the state it was begun in.
  `AllFit` speaks of *labels*, one menu for each container id the server has used, because a `content` under
  way must have the slots of the menu that its receiver will have opened by then.  One lemma for each
  click mode and each packet, in `ViewProofs`, says what it leaves of an inventory (`PickupFits`, `QuickMoveFits`,
  `PickupAllFits`, `DragEndFits`, `SetSlotFits`, `ClosedFits`, ...); most of it is arithmetic of the counts,
  as that a share of a spread never overfills (`Shares`).  `Roomy` are the limits of entities and chunks.
  With `WorldInv` these are `TypeInv`, which yields `TypeOK`.
* `Order` is why no update of a container that is not open ends the session.  Containers are opened with
  ascending ids, and the packets under way are *queued*: their ids ascend, an `open` is
  ahead of everything else about its menu, the content ahead of changes of a slot, a `close` behind (`Queued`).
  What the client's copies, its closed menus and the closes in the mailbox know of are *marks* older
  than any opening still under way (`Marked`), and the menu the session has open is not ahead
  of the next packet (`Fronted`).  So a packet that finds its menu closed was overtaken by the user's own
  close, which is `OnlyCrossingsEnd`.

The clicks walk over slots with the folds of the community modules, each of which is a function
chosen to satisfy a recursive equation.  That there is one, with values in the set its steps stay
in, is proved once for finite sets of integers (`FoldExists`), from the minimum principle below; that
what is chosen has the same range is then proved for each fold (`MergesStay`, `MovesStay`, `SpreadsStay`,
`ServeServed`), so that the values themselves are never needed.

**Cache and accounts.**  `CacheInv`: what is about to be promoted has been verified, and what a program saw on
the disk is still there while nothing disturbs it (`Verified`, `Undisturbed`).  `AccountsInv`: a token belongs
to one backend and one holder, what is about to be stored can be redeemed, and what is under way is
under way for the one stored device.  Login, cache and accounts are proved of their own
specifications, and `LaunchSound` of `MCLaunch`, in which one of the three takes its steps and the others
rest; `LaunchInv` holds `CacheInv` only where the cache is the part that moves, because a cache at rest is
full without a program having filled it.

The library's induction theorems take an operator as a parameter, which no installed prover can
instantiate; where induction over the naturals is needed (`Smallest`, for predictions and for folds), it is
derived from the minimum principle for well-founded relations, whose parameters are sets.  For the same
reason definitions that these proofs need are in closed form (`Covered`, `UsePresses`), and no proof
rests on what a recursive function computes.

Only model-checked: all liveness properties (`CatchesUp`, `Settles`, `PredictionsResolve`, `EndIsShown`,
`CloseEndsTask`, `HeldStateArrives`, `ServerIsAnswered`), which with `ENABLED` are outside the prover's
reach; and of the Play session `Converged` and `Conserved`: they rest on what the click modes of `Inventory`
compute, in part by folds over the slots of a container, where `Fits` needs only what they stay within.

## 6. Findings

Three runs show the code disagreeing with its own documentation; `PROJECT.json` quotes the lines.

1. `prediction_stale_base`.  A completed break registers the block state captured when the break
   *started* as the state the server has.  If another player replaced the block meanwhile and the
   server then refuses the break with an acknowledgement alone, the client restores the older block.
2. `port_drowning`.  In World Mode the entity decoder consumes every Set Entity Data packet, the
   player's own too, so the arm that feeds the safety tracker is never reached.
3. `controls_commands`.  A tick without a simulation drains the control mailbox and drops the
   inventory commands in it, which the interface was told were accepted.

Met while modelling, stated in the properties as exceptions, and not given runs of their own:

* A chunk sent again under a pending prediction leaves the retained server state as it was; the
  acknowledgement then writes the older state over the newer block (`chat_session.rs:1067`).  This is
  why `Steady`, which `SteadyServerWins` assumes, asks that the chunk stays.
* A renderer rebuilt after a suspension gets no snapshot: it shows what is published from then on,
  until the next reset.  This is why `PendingCompletesView` speaks of an intact renderer.
* `WorldRenderer::apply` clears `pending` on a reset while jobs of the old world are still queued, so the
  comment at `world.rs:1000` ("`pending` accounts for every accepted worker job until its result is
  integrated") does not hold across resets.  The other direction, the one that matters, does.
* The single critical slot keeps the newest alert: a low-health warning can be overwritten by the next
  alert before the window polls, and is not raised again.  `EndIsShown` holds because the reason of
  a disconnect is always the last to be written.
* Player Rotation makes the current position the baseline and restarts the forced-position count
  without sending a position, so a server that rotates the player at least every 20 ticks is not
  told the position of a player who stands still or drifts below the threshold.
* If signing fails, the acknowledgement count taken for that message is lost (`secure_chat.rs:190`).
* An unsigned session acknowledges a repeated signed message again; a server that counts it once
  finds the second acknowledgement one too many.
* A respawn restarts the interaction sequence at 0 and forgets the latest acknowledgement; one that
  is still on its way sets it to the old, higher number, and new predictions are not retired until
  the sequence has caught up.  `Steady` excludes respawns for this reason.

Of the play session and the inventory:

* An update for a container the user has just closed, or a second close of one, is an error that
  ends the session (`chat_session.rs:1037`, `:1844`, `inventory.rs:459`): `OnlyCrossingsEnd` says that
  nothing else of the inventory does.
* `InventoryState::reset` is called by tests only, though docs/INVENTORY.md:17 says that close, reset
  and disconnect clear transient state: a menu that is open stays after Start Configuration.
* Clicks into the player's own container while the server has another one open are applied locally
  and never corrected; nor is a refused click whose prediction was withheld (docs/INVENTORY.md:29).
* A command that the full mailbox refuses (each by itself, so an input may be half accepted), or that a tick without a simulation drains, leaves the
  overlay mispredicted.  A snapshot that arrives during a drag replaces the overlay's gesture.  Closing
  one's own inventory sends no packet, so that a stack on the cursor stays on the server's.
* A reconfiguration may assign another id to the own player.  Its velocity then goes to the entity
  store and not to the simulation, and a remote entity with the id of the first login is not shown.
* The recovery of the initial respawn counts no chunk (`observe_chunk` is not reached in World Mode), so
  the first death in World Mode is answered by a respawn request whenever it happens, and a second
  one is not.  Player Loaded is sent once per session (docs/NETWORKING.md:99), not once per world.

Of the launch:

* A cached manifest that parses is not fetched again (docs/RESOURCES.md:32 says so); a version
  published later is then unknown.
* `atomic_write` creates its temporary file under a name with process id and sequence number; after
  a crash a process with the same id finds the name taken, fails, and leaves the file.
  Two processes that fill an empty cache at once can remove each other's archive; one of them then
  fails and succeeds when started again.
* A command that stops between redeeming the refresh token and storing its successor (crash, lost
  answer, a failed later request, an unavailable store) loses the account if the service rotates its
  tokens; the user signs in again.  Saving after a concurrent logout restores the account.  Two first
  sign-ins at once can store the account of one with the device of the other.

Of movement:

* A player that stands up takes its full height without a test for room, and may be inside a ceiling
  from then on; `MovementSound` speaks of players that have room.
* The protection of a sneaking player counts any block beside the fall as support, is decided before
  the collision, and ends once the fall reaches the height of a step.  No exact promise about falling
  survives this, and none is stated.

## 7. Not modelled

* Block models and meshing (`block_resources.rs`, `mesher.rs`), packet codecs and NBT: pure functions
  from bytes to values, with vector tests in the repository.  They are half of the program, and
  nothing in them waits, fails half-way or depends on an order.
* Kinematics: accelerations, drag, fluids, climbing, gliding and special surfaces are floating-point
  formulas; they choose the displacement that `Movement` takes as input.
* Presentation: layout, text editing, scrolling, GPU and window set-up, camera, particles.
* Request signing, response formats, certificates; argument parsing, logging, the version generator.
* Values of the world that nothing else in the session reads: border, time, health, experience.

`PROJECT.json` lists every part with its status.  A map of this program stays far below a third of its
lines also because the files hold their own tests (two thirds of `movement.rs`, for example), which
count as lines of the program.
