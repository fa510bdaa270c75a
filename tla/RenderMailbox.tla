---------------------------- MODULE RenderMailbox ----------------------------
(***************************************************************************)
(* The coalescing mailbox between the network task and the render thread   *)
(* (cubic-network/src/world_render.rs), with both of its ends: the network *)
(* task that changes its WorldState and then publishes what it touched,    *)
(* and the render thread that takes an update and applies it               *)
(* (WorldApplication::integrate_world_updates, WorldRenderer::apply).      *)
(*                                                                         *)
(* The network task changes its world first and publishes afterwards, one  *)
(* lock hold per delta, so the renderer may take an update between any two *)
(* of its publications.  A chunk snapshot, an entity and an inventory are  *)
(* members of Versions: nothing here looks inside them.  A pose is the     *)
(* number of snaps (corrections, teleports) that preceded it.              *)
(***************************************************************************)
EXTENDS Naturals, FiniteSets

CONSTANTS Chunks,             \* chunk coordinates
          Ids,                \* remote entity ids
          Versions,           \* contents of a chunk, of an entity, of an inventory
          Targets,            \* block targets (and destroy overlays)
          GameModes,
          MaxRemoteEntities,  \* cap on stored entities and on pending entity deltas
          MaxResets,          \* bound: world resets published
          MaxSnaps            \* bound: pose discontinuities published

CONSTANTS Gone,     \* a store holds nothing under the key / an Unloaded or Remove delta
          NoDelta,  \* the mailbox has nothing to say about the key
          Nothing   \* Option::None

ASSUME MailboxAssumption ==
  /\ MaxRemoteEntities \in Nat \ {0}
  /\ MaxResets \in Nat /\ MaxSnaps \in Nat
  /\ IsFiniteSet(Ids)
  /\ Gone \notin Versions /\ NoDelta \notin Versions \cup {Gone}
  /\ Nothing \notin Versions \cup Targets \cup GameModes
  /\ Nothing \notin [Ids -> Versions \cup {Gone}]
  /\ Nothing \notin [snap : Nat, discontinuity : BOOLEAN] \cup [previous : Nat, current : Nat]

VARIABLES world,    \* the network task: WorldState, and what it still has to publish
          mailbox,  \* struct Mailbox, under its mutex
          view,     \* the render thread: WorldRenderer and the inventory overlay
          intact    \* history: this renderer has seen every update since the last reset

mailboxVars == <<world, mailbox, view, intact>>

Store(K)  == [K -> Versions \cup {Gone}]
Deltas(K) == [K -> Versions \cup {Gone, NoDelta}]
Empty(K)  == [k \in K |-> Gone]
Silent(K) == [k \in K |-> NoDelta]

Poses == [snap : 0..MaxSnaps, discontinuity : BOOLEAN]

MailboxInit ==
  /\ world = [chunks |-> Empty(Chunks), entities |-> Empty(Ids),
              owedChunks |-> {}, owedEntities |-> {}, owedReset |-> FALSE,
              snaps |-> 0, seeded |-> FALSE, running |-> TRUE]
  /\ mailbox = [generation |-> 0, dirty |-> FALSE, reset |-> FALSE,
                chunks |-> Silent(Chunks), entities |-> Silent(Ids), replacement |-> Nothing,
                pose |-> Nothing, target |-> Nothing, gameMode |-> Nothing, inventory |-> Nothing]
  /\ view = [present |-> TRUE, generation |-> 0,
             chunks |-> Empty(Chunks), entities |-> Empty(Ids),
             pose |-> Nothing, target |-> Nothing, gameMode |-> Nothing, inventory |-> Nothing]
  /\ intact = TRUE

-----------------------------------------------------------------------------
(* The network task.  It is one sequential task: it starts on the next     *)
(* packet or tick only when it owes no publication for the last one.       *)

Idle == /\ world.running
        /\ world.owedChunks = {} /\ world.owedEntities = {} /\ ~world.owedReset

Stored == {i \in Ids : world.entities[i] # Gone}

\* Spawn: replaces the entity that held the id; a full store ends the session.
SpawnEntity(i, v) ==
  /\ Idle
  /\ Cardinality(Stored \ {i}) < MaxRemoteEntities
  /\ world' = [world EXCEPT !.entities[i] = v, !.owedEntities = {i}]
  /\ UNCHANGED <<mailbox, view, intact>>

\* A move, velocity, metadata or attribute packet: ignored by the store for an
\* unknown id, which is published (as a Remove) all the same.
UpdateEntity(i, v) ==
  /\ Idle
  /\ world' = [world EXCEPT !.entities[i] = IF @ = Gone THEN Gone ELSE v,
                            !.owedEntities = {i}]
  /\ UNCHANGED <<mailbox, view, intact>>

RemoveEntities(S) ==
  /\ Idle
  /\ world' = [world EXCEPT !.entities = [i \in Ids |-> IF i \in S THEN Gone ELSE @[i]],
                            !.owedEntities = S]
  /\ UNCHANGED <<mailbox, view, intact>>

LoadChunk(c, v) ==
  /\ Idle
  /\ world' = [world EXCEPT !.chunks[c] = v, !.owedChunks = {c}]
  /\ UNCHANGED <<mailbox, view, intact>>

UnloadChunk(c) ==
  /\ Idle
  /\ world' = [world EXCEPT !.chunks[c] = Gone, !.owedChunks = {c}]
  /\ UNCHANGED <<mailbox, view, intact>>

\* Block, light or block-entity updates: only loaded chunks change, and each
\* changed chunk is published as a whole.
EditChunks(S, v) ==
  /\ Idle
  /\ \A c \in S : world.chunks[c] # Gone
  /\ world' = [world EXCEPT !.chunks = [c \in Chunks |-> IF c \in S THEN v ELSE @[c]],
                            !.owedChunks = S]
  /\ UNCHANGED <<mailbox, view, intact>>

\* Respawn, or reconfiguration followed by EnterWorld: the contents go, and so
\* does the movement simulation until the server sends a position again.
ResetWorld ==
  /\ Idle
  /\ mailbox.generation < MaxResets
  /\ world' = [world EXCEPT !.chunks = Empty(Chunks), !.entities = Empty(Ids),
                            !.owedReset = TRUE, !.seeded = FALSE]
  /\ UNCHANGED <<mailbox, view, intact>>

\* Disconnect, or any error: the task stops where it is, and its WorldState is
\* dropped unpublished.  world keeps its last contents as history.
EndSession ==
  /\ world.running
  /\ world' = [world EXCEPT !.running = FALSE]
  /\ UNCHANGED <<mailbox, view, intact>>

-----------------------------------------------------------------------------
(* WorldRenderRunner: one lock hold each.                                  *)

PendingEntities == {i \in Ids : mailbox.entities[i] # NoDelta}

\* Mutant of EntityDeltaInto: a full mailbox drops the delta.
EntityDeltaDropped(i) ==
  IF mailbox.replacement # Nothing
  THEN [mailbox EXCEPT !.replacement[i] = world.entities[i], !.dirty = TRUE]
  ELSE IF Cardinality(PendingEntities) < MaxRemoteEntities \/ i \in PendingEntities
  THEN [mailbox EXCEPT !.entities[i] = world.entities[i], !.dirty = TRUE]
  ELSE [mailbox EXCEPT !.dirty = TRUE]

\* Mutant of EntityDeltaInto: no cap on the pending deltas.
EntityDeltaUncapped(i) == [mailbox EXCEPT !.entities[i] = world.entities[i], !.dirty = TRUE]

\* WorldRenderRunner::entity: the delta carries what the store holds now.
EntityDeltaInto(i) ==
  IF mailbox.replacement # Nothing
  THEN [mailbox EXCEPT !.replacement[i] = world.entities[i], !.dirty = TRUE]
  ELSE IF Cardinality(PendingEntities) < MaxRemoteEntities \/ i \in PendingEntities
  THEN [mailbox EXCEPT !.entities[i] = world.entities[i], !.dirty = TRUE]
  ELSE [mailbox EXCEPT !.entities = Silent(Ids), !.replacement = world.entities,
                       !.dirty = TRUE]

PublishEntity(i) ==
  /\ world.running /\ i \in world.owedEntities
  /\ mailbox' = EntityDeltaInto(i)
  /\ world' = [world EXCEPT !.owedEntities = @ \ {i}]
  /\ UNCHANGED <<view, intact>>

\* Mutant of PublishChunk: the mailbox is not marked dirty.
PublishChunkQuietly(c) ==
  /\ world.running /\ c \in world.owedChunks
  /\ mailbox' = [mailbox EXCEPT !.chunks[c] = world.chunks[c]]
  /\ world' = [world EXCEPT !.owedChunks = @ \ {c}]
  /\ UNCHANGED <<view, intact>>

\* WorldRenderRunner::load and ::unload.
PublishChunk(c) ==
  /\ world.running /\ c \in world.owedChunks
  /\ mailbox' = [mailbox EXCEPT !.chunks[c] = world.chunks[c], !.dirty = TRUE]
  /\ world' = [world EXCEPT !.owedChunks = @ \ {c}]
  /\ UNCHANGED <<view, intact>>

\* Mutant of ResetInto: deltas of the old world stay pending.
ResetKeepingDeltas(g) ==
  [mailbox EXCEPT !.generation = @ + 1, !.reset = TRUE, !.gameMode = g,
                  !.pose = Nothing, !.target = Nothing, !.dirty = TRUE]

\* WorldRenderRunner::reset.  A pending inventory stays.
ResetInto(g) ==
  [mailbox EXCEPT !.generation = @ + 1, !.reset = TRUE, !.gameMode = g,
                  !.pose = Nothing, !.target = Nothing,
                  !.chunks = Silent(Chunks), !.entities = Silent(Ids),
                  !.replacement = Nothing, !.dirty = TRUE]

PublishReset(g) ==
  /\ world.running /\ world.owedReset
  /\ mailbox' = ResetInto(g)
  /\ world' = [world EXCEPT !.owedReset = FALSE]
  /\ UNCHANGED <<view, intact>>

\* Mutant of PoseInto: the newest sample simply replaces the pending one.
PoseOverwritten(snap, discontinuity) ==
  [mailbox EXCEPT !.pose = [snap |-> snap, discontinuity |-> discontinuity], !.dirty = TRUE]

\* set_pose: a discontinuity still pending survives the coalescing.
PoseInto(snap, discontinuity) ==
  [mailbox EXCEPT !.pose = [snap |-> snap,
                            discontinuity |-> discontinuity
                              \/ (mailbox.pose # Nothing /\ mailbox.pose.discontinuity)],
                  !.dirty = TRUE]

\* pose_tick: the simulation runs only once the server has placed the player.
PoseTick ==
  /\ Idle /\ world.seeded
  /\ mailbox' = PoseInto(world.snaps, FALSE)
  /\ UNCHANGED <<world, view, intact>>

\* pose_discontinuity: a position correction, or a rollback of a prediction.
PoseDiscontinuity ==
  /\ Idle /\ world.snaps < MaxSnaps
  /\ world' = [world EXCEPT !.snaps = @ + 1, !.seeded = TRUE]
  /\ mailbox' = PoseInto(world.snaps + 1, TRUE)
  /\ UNCHANGED <<view, intact>>

\* target and breaking are published together at the end of a movement tick.
PublishTarget(t) ==
  /\ Idle /\ world.seeded
  /\ mailbox.target # t
  /\ mailbox' = [mailbox EXCEPT !.target = t, !.dirty = TRUE]
  /\ UNCHANGED <<world, view, intact>>

\* Mutant of PublishGameMode: the mailbox is not marked dirty.
PublishGameModeQuietly(g) ==
  /\ world.running
  /\ mailbox.gameMode # g
  /\ mailbox' = [mailbox EXCEPT !.gameMode = g]
  /\ UNCHANGED <<world, view, intact>>

PublishGameMode(g) ==
  /\ world.running
  /\ mailbox.gameMode # g
  /\ mailbox' = [mailbox EXCEPT !.gameMode = g, !.dirty = TRUE]
  /\ UNCHANGED <<world, view, intact>>

PublishInventory(v) ==
  /\ Idle
  /\ mailbox' = [mailbox EXCEPT !.inventory = v, !.dirty = TRUE]
  /\ UNCHANGED <<world, view, intact>>

-----------------------------------------------------------------------------
(* The render thread.                                                      *)

\* PosePresentation: interpolation runs from the previous sample to this one.
Presented(old, sample) ==
  [previous |-> IF old = Nothing \/ sample.discontinuity THEN sample.snap ELSE old.current,
   current  |-> sample.snap]

\* A store overlaid with the deltas that concern it.
Overlay(store, deltas, K) ==
  [k \in K |-> IF deltas[k] = NoDelta THEN store[k] ELSE deltas[k]]

\* WorldRenderer::apply
Starts(update, v) == update.reset \/ update.generation # v.generation

\* Mutant of AppliedChunks: the chunks of the old world stay.
AppliedChunksKept(update, v) == Overlay(v.chunks, update.chunks, Chunks)

AppliedChunks(update, v) ==
  Overlay(IF Starts(update, v) THEN Empty(Chunks) ELSE v.chunks, update.chunks, Chunks)

\* Mutant of AppliedEntities: ReplaceAll does not clear the old population.
AppliedEntitiesMerged(update, v) ==
  LET kept == IF Starts(update, v) THEN Empty(Ids) ELSE v.entities
  IN  IF update.replacement # Nothing
      THEN [i \in Ids |-> IF update.replacement[i] = Gone THEN kept[i] ELSE update.replacement[i]]
      ELSE Overlay(kept, update.entities, Ids)

AppliedEntities(update, v) ==
  IF update.replacement # Nothing THEN update.replacement
  ELSE Overlay(IF Starts(update, v) THEN Empty(Ids) ELSE v.entities, update.entities, Ids)

AppliedPose(update, v) ==
  LET old == IF Starts(update, v) THEN Nothing ELSE v.pose
  IN  IF update.pose = Nothing THEN old ELSE Presented(old, update.pose)

\* integrate_world_updates: the inventory overlay belongs to the platform and
\* gets its part even while there is no renderer; the rest is then lost.
Integrated(update, v) ==
  LET overlay == [v EXCEPT !.inventory = IF update.inventory = Nothing THEN @ ELSE update.inventory,
                           !.gameMode = IF update.gameMode = Nothing THEN @ ELSE update.gameMode]
  IN  IF ~v.present THEN overlay
      ELSE [overlay EXCEPT !.generation = update.generation,
                           !.chunks = AppliedChunks(update, v),
                           !.entities = AppliedEntities(update, v),
                           !.pose = AppliedPose(update, v),
                           !.target = update.target]

\* WorldRenderHandle::take_update
Taken(m) ==
  [m EXCEPT !.dirty = FALSE, !.reset = FALSE, !.pose = Nothing, !.inventory = Nothing,
            !.chunks = Silent(Chunks), !.entities = Silent(Ids), !.replacement = Nothing]

TakeUpdate ==
  /\ mailbox.dirty
  /\ mailbox' = Taken(mailbox)
  /\ view' = Integrated(mailbox, view)
  /\ intact' = (view.present /\ (intact \/ mailbox.reset))
  /\ UNCHANGED world

\* ApplicationHandler::suspended drops the renderer, ::resumed builds a new one.
Suspend ==
  /\ view.present
  /\ view' = [view EXCEPT !.present = FALSE, !.generation = 0, !.chunks = Empty(Chunks),
                          !.entities = Empty(Ids), !.pose = Nothing, !.target = Nothing]
  /\ intact' = FALSE
  /\ UNCHANGED <<world, mailbox>>

Resume ==
  /\ ~view.present
  /\ view' = [view EXCEPT !.present = TRUE]
  /\ UNCHANGED <<world, mailbox, intact>>

-----------------------------------------------------------------------------
WorldStep ==
  \/ \E i \in Ids, v \in Versions : SpawnEntity(i, v) \/ UpdateEntity(i, v)
  \/ \E S \in SUBSET Ids \ {{}} : RemoveEntities(S)
  \/ \E c \in Chunks, v \in Versions : LoadChunk(c, v)
  \/ \E c \in Chunks : UnloadChunk(c)
  \/ \E S \in SUBSET Chunks \ {{}}, v \in Versions : EditChunks(S, v)
  \/ ResetWorld
  \/ EndSession

PublishStep ==
  \/ \E i \in Ids : PublishEntity(i)
  \/ \E c \in Chunks : PublishChunk(c)
  \/ \E g \in GameModes : PublishReset(g)
  \/ PoseTick
  \/ PoseDiscontinuity
  \/ \E t \in Targets \cup {Nothing} : PublishTarget(t)
  \/ \E g \in GameModes : PublishGameMode(g)
  \/ \E v \in Versions : PublishInventory(v)

RenderStep == TakeUpdate \/ Suspend \/ Resume

MailboxNext == WorldStep \/ PublishStep \/ RenderStep

MailboxSpec == MailboxInit /\ [][MailboxNext]_mailboxVars

\* about_to_wait polls the mailbox at least every 200 ms whatever the wakers do;
\* a suspended window is resumed only by its user.
MailboxFairSpec == MailboxSpec /\ WF_mailboxVars(TakeUpdate)

-----------------------------------------------------------------------------
(* Properties.                                                             *)

WorldType ==
  [chunks : Store(Chunks), entities : Store(Ids),
   owedChunks : SUBSET Chunks, owedEntities : SUBSET Ids, owedReset : BOOLEAN,
   snaps : 0..MaxSnaps, seeded : BOOLEAN, running : BOOLEAN]

MailboxType ==
  [generation : Nat, dirty : BOOLEAN, reset : BOOLEAN,
   chunks : Deltas(Chunks), entities : Deltas(Ids), replacement : Store(Ids) \cup {Nothing},
   pose : Poses \cup {Nothing}, target : Targets \cup {Nothing},
   gameMode : GameModes \cup {Nothing}, inventory : Versions \cup {Nothing}]

ViewType ==
  [present : BOOLEAN, generation : Nat,
   chunks : Store(Chunks), entities : Store(Ids),
   pose : [previous : 0..MaxSnaps, current : 0..MaxSnaps] \cup {Nothing},
   target : Targets \cup {Nothing},
   gameMode : GameModes \cup {Nothing}, inventory : Versions \cup {Nothing}]

\* Every variable stays in the set of values its Rust type can hold.
MailboxTypeOK ==
  /\ world \in WorldType
  /\ mailbox \in MailboxType
  /\ view \in ViewType
  /\ intact \in BOOLEAN

\* What the renderer will have of a store once it takes the pending update.
Promised(store, deltas, K) ==
  Overlay(IF mailbox.reset THEN Empty(K) ELSE store, deltas, K)

PublishedChunks == Promised(view.chunks, mailbox.chunks, Chunks)
PublishedEntities ==
  IF mailbox.replacement # Nothing THEN mailbox.replacement
  ELSE Promised(view.entities, mailbox.entities, Ids)

\* However publications, coalescing, overflow into a full snapshot, resets and
\* takes interleave: what the renderer shows, overlaid with what is pending in
\* the mailbox, is the network task's own world, except for what the task has
\* changed and not published yet.  (A renderer re-created after a suspension
\* is excused until a reset is pending for it: see the README.)
PendingCompletesView ==
  (intact \/ mailbox.reset) /\ ~world.owedReset =>
    /\ \A c \in Chunks \ world.owedChunks : PublishedChunks[c] = world.chunks[c]
    /\ \A i \in Ids \ world.owedEntities : PublishedEntities[i] = world.entities[i]

\* An empty mailbox means that the renderer is up to date: no ghost entity or
\* stale chunk survives a reset, an overflow or a coalesced load and unload,
\* and the selection outline is the one last published.
CleanMeansCurrent ==
  intact /\ ~mailbox.dirty /\ Idle =>
    /\ view.chunks = world.chunks
    /\ view.entities = world.entities
    /\ view.target = mailbox.target

\* Never more pending entity deltas than MAX_REMOTE_ENTITIES, and none beside a
\* full snapshot, however long the renderer stalls.
PendingBounded ==
  /\ Cardinality(PendingEntities) <= MaxRemoteEntities
  /\ mailbox.replacement # Nothing => PendingEntities = {}

\* The camera never glides through a correction or a change of world: the two
\* samples it interpolates between have no snap between them, even when the
\* snapping sample was coalesced with later ones or lost with a renderer.
NoGlideAcrossSnap ==
  view.pose # Nothing => view.pose.previous = view.pose.current

\* The inventory and game-mode overlay is never left behind: with nothing
\* pending it shows the game mode last published, suspended or not.
OverlayFollows ==
  ~mailbox.dirty => /\ mailbox.inventory = Nothing
                    /\ mailbox.gameMode # Nothing => view.gameMode = mailbox.gameMode

\* What the player sees of the camera and of the overlay, in every state.
PresentationSound == NoGlideAcrossSnap /\ OverlayFollows

\* Once the network task has stopped, the renderer catches up with all it
\* published: polling alone delivers it, no waker is needed for chunks.
CatchesUp ==
  <>(~world.running) =>
     <>[](intact => /\ view.target = mailbox.target
                    /\ ~world.owedReset => /\ \A c \in Chunks \ world.owedChunks : view.chunks[c] = world.chunks[c]
                                           /\ \A i \in Ids \ world.owedEntities : view.entities[i] = world.entities[i])

-----------------------------------------------------------------------------
(* The mailbox implements the abstract feed, for terrain and for entities. *)

Terrain == INSTANCE WorldFeed WITH Keys <- Chunks, Values <- Versions, Absent <- Gone,
             truth <- world.chunks, published <- PublishedChunks, shown <- view.chunks

Population == INSTANCE WorldFeed WITH Keys <- Ids, Values <- Versions, Absent <- Gone,
             truth <- world.entities, published <- PublishedEntities, shown <- view.entities

\* The renderer is only ever shown terrain, and an entity population, that was published
\* as a whole: replacing the deltas by a snapshot publishes, it never takes back.
Feeds == Terrain!FeedSpec /\ Population!FeedSpec
=============================================================================
