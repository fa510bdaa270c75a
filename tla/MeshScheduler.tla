---------------------------- MODULE MeshScheduler ----------------------------
(***************************************************************************)
(* The chunk-mesh scheduler of the renderer (cubic-render/src/world.rs).   *)
(*                                                                         *)
(* The window thread applies chunk deltas (WorldRenderer::apply) and, once *)
(* per frame, integrates finished meshes and hands out new jobs (prepare,  *)
(* dispatch_jobs).  Worker threads take jobs from their own bounded lane   *)
(* and send results into one bounded channel.  A job carries a snapshot of *)
(* its chunk and of the four horizontal neighbours, tagged with the        *)
(* generation of the world and the revision that made the chunk dirty.     *)
(*                                                                         *)
(* What a chunk contains is a member of Contents; the mesh of a chunk is a *)
(* pure function of the snapshot, and NoMesh when nothing in it is drawn   *)
(* or the mesher refuses it (its centre is in Invisible).                  *)
(***************************************************************************)
EXTENDS Naturals, Sequences, FiniteSets

CONSTANTS Coords,         \* chunk coordinates
          Near,           \* neighbors_including: a coordinate and its neighbours
          Contents,       \* what a loaded chunk can contain
          Invisible,      \* the contents whose mesh is empty or an error
          Workers,        \* number of worker threads that could be started
          MaxPending,     \* MAX_PENDING_MESH_JOBS
          MaxResults,     \* MAX_MESH_RESULTS_PER_PREPARE
          MaxDispatches,  \* MAX_MESH_DISPATCHES_PER_PREPARE
          MaxRevision,    \* bound: deltas and resets applied
          MaxGeneration   \* bound: resets applied

CONSTANTS Absent,   \* chunk not loaded
          Clean,    \* coordinate not in the dirty map
          NoMesh,   \* coordinate not in the mesh map
          NoJob     \* the worker waits for a job

ASSUME SchedulerAssumption ==
  /\ Near \in [Coords -> SUBSET Coords]
  /\ \A c \in Coords : c \in Near[c] /\ \A d \in Near[c] : c \in Near[d]
  /\ Invisible \subseteq Contents /\ Absent \notin Contents
  /\ {Workers, MaxPending, MaxResults, MaxDispatches} \subseteq Nat \ {0}
  /\ MaxRevision \in Nat /\ MaxGeneration \in Nat
  /\ MaxPending >= 2 * Workers
  /\ Clean \notin Nat
  /\ IsFiniteSet(Coords)

VARIABLES chunks,      \* the renderer's copy of the loaded chunks
          meshes,      \* GPU meshes
          dirty,       \* coordinate -> revision that made it dirty, or Clean
          pending,     \* coordinates with an accepted job
          generation, revision,
          frame,       \* progress of the current call of prepare
          lanes,       \* the job queue of each worker
          nextLane,
          building,    \* the job each worker has taken and not yet sent back
          results      \* the result channel

renderer == <<chunks, meshes, dirty, pending, generation, revision, frame>>
workers  == <<lanes, nextLane, building, results>>
vars     == <<renderer, workers>>

Lanes == 0..(Workers - 1)

\* worker_layout
LaneCapacity == LET share == (MaxPending - Workers) \div Workers
                IN  IF share > 1 THEN share ELSE 1

AllSnapshots == UNION {[Near[c] -> Contents \cup {Absent}] : c \in Coords}
Snapshot(c)  == [d \in Near[c] |-> chunks[d]]

\* mesh_chunk_with_debug, and the worker's Empty or Ready.
MeshOf(c, snapshot) == IF snapshot[c] \in Invisible THEN NoMesh ELSE snapshot

Outside == [phase |-> "outside", count |-> 0, spent |-> FALSE]

Init ==
  /\ chunks = [c \in Coords |-> Absent]
  /\ meshes = [c \in Coords |-> NoMesh]
  /\ dirty = [c \in Coords |-> Clean]
  /\ pending = {}
  /\ generation = 0 /\ revision = 0
  /\ frame = Outside
  /\ lanes = [w \in Lanes |-> <<>>]
  /\ nextLane = 0
  /\ building = [w \in Lanes |-> NoJob]
  /\ results = <<>>

-----------------------------------------------------------------------------
(* WorldRenderer::apply.  An update is a reset or not, then a list of      *)
(* deltas; each delta is applied, and marks its surroundings, by itself.   *)

\* Mutant of MarkedDirty: only the chunk itself is marked.
MarkedAlone(c) == [dirty EXCEPT ![c] = revision + 1]

\* mark_with_neighbors
MarkedDirty(c) == [d \in Coords |-> IF d \in Near[c] THEN revision + 1 ELSE dirty[d]]

ApplyReset ==
  /\ frame = Outside
  /\ generation < MaxGeneration /\ revision < MaxRevision
  /\ generation' = generation + 1
  /\ revision' = revision + 1
  /\ chunks' = [c \in Coords |-> Absent]
  /\ meshes' = [c \in Coords |-> NoMesh]
  /\ dirty' = [c \in Coords |-> Clean]
  /\ pending' = {}
  /\ UNCHANGED <<frame, workers>>

ApplyLoaded(c, v) ==
  /\ frame = Outside
  /\ revision < MaxRevision
  /\ chunks' = [chunks EXCEPT ![c] = v]
  /\ revision' = revision + 1
  /\ dirty' = MarkedDirty(c)
  /\ UNCHANGED <<meshes, pending, generation, frame, workers>>

ApplyUnloaded(c) ==
  /\ frame = Outside
  /\ revision < MaxRevision
  /\ chunks' = [chunks EXCEPT ![c] = Absent]
  /\ meshes' = [meshes EXCEPT ![c] = NoMesh]
  /\ revision' = revision + 1
  /\ dirty' = MarkedDirty(c)
  /\ UNCHANGED <<pending, generation, frame, workers>>

-----------------------------------------------------------------------------
(* WorldRenderer::prepare, one loop iteration at a time: the workers run   *)
(* beside it.                                                              *)

BeginPrepare ==
  /\ frame = Outside
  /\ frame' = [phase |-> "integrate", count |-> 0, spent |-> FALSE]
  /\ UNCHANGED <<chunks, meshes, dirty, pending, generation, revision, workers>>

\* A result counts only for the world and the revision it was made for.
Accepted(r) == r.generation = generation /\ dirty[r.coordinate] = r.revision

\* Mutant of ReleasedBy: a rejected result leaves its coordinate pending.
ReleasedIfAccepted(r) == IF Accepted(r) THEN pending \ {r.coordinate} ELSE pending

ReleasedBy(r) == pending \ {r.coordinate}

\* Mutant of MeshesAfter: an outdated mesh is shown until the next one comes.
MeshesShownEarly(r) ==
  IF r.generation = generation /\ dirty[r.coordinate] # Clean
  THEN [meshes EXCEPT ![r.coordinate] = r.mesh] ELSE meshes

\* Empty and Err remove the mesh, Ready inserts it.
MeshesAfter(r) ==
  IF Accepted(r) THEN [meshes EXCEPT ![r.coordinate] = r.mesh] ELSE meshes

IntegrateResult ==
  /\ frame.phase = "integrate" /\ frame.count < MaxResults
  /\ results # <<>>
  /\ LET r == Head(results)
     IN  /\ pending' = ReleasedBy(r)
         /\ dirty' = IF Accepted(r) THEN [dirty EXCEPT ![r.coordinate] = Clean] ELSE dirty
         /\ meshes' = MeshesAfter(r)
  /\ results' = Tail(results)
  /\ frame' = [frame EXCEPT !.count = @ + 1]
  /\ UNCHANGED <<chunks, generation, revision, lanes, nextLane, building>>

\* The channel is empty, or at least one result was integrated and the count
\* or the time budget is used up.
EndIntegration ==
  /\ frame.phase = "integrate"
  /\ results = <<>> \/ frame.count > 0
  /\ frame' = [phase |-> "dispatch", count |-> 0, spent |-> frame.count > 0]
  /\ UNCHANGED <<chunks, meshes, dirty, pending, generation, revision, workers>>

\* Mutant of Candidates: a chunk that has a mesh is not meshed again.
CandidatesOnce == {c \in Coords : dirty[c] # Clean /\ c \notin pending /\ meshes[c] = NoMesh}

\* next_mesh_candidate takes the nearest; here any.
Candidates == {c \in Coords : dirty[c] # Clean /\ c \notin pending}

Dispatching ==
  /\ frame.phase = "dispatch" /\ frame.count < MaxDispatches
  /\ Cardinality(pending) < MaxPending

DropCandidate(c) ==
  /\ Dispatching /\ c \in Candidates
  /\ chunks[c] = Absent
  /\ dirty' = [dirty EXCEPT ![c] = Clean]
  /\ meshes' = [meshes EXCEPT ![c] = NoMesh]
  /\ UNCHANGED <<chunks, pending, generation, revision, frame, workers>>

LaneAt(offset) == (nextLane + offset) % Workers

\* Mutant of LaneAfter: the round does not wrap.
LaneAfterUnwrapped(w) == w + 1

LaneAfter(w) == (w + 1) % Workers

HasRoom(w) == Len(lanes[w]) < LaneCapacity

\* MeshWorker::try_send: the first lane with room, from nextLane on.
Dispatch(c) ==
  /\ Dispatching /\ c \in Candidates
  /\ chunks[c] # Absent
  /\ \E offset \in Lanes :
       LET w == LaneAt(offset)
       IN  /\ HasRoom(w)
           /\ \A earlier \in 0..(offset - 1) : ~HasRoom(LaneAt(earlier))
           /\ lanes' = [lanes EXCEPT ![w] = Append(@,
                          [coordinate |-> c, snapshot |-> Snapshot(c),
                           generation |-> generation, revision |-> dirty[c]])]
           /\ nextLane' = LaneAfter(w)
  /\ pending' = pending \cup {c}
  /\ frame' = [frame EXCEPT !.count = @ + 1]
  /\ UNCHANGED <<chunks, meshes, dirty, generation, revision, building, results>>

\* Nothing to hand out, no capacity, every lane full, or the budgets used up
\* (a call that integrated nothing has time for at least one job).
EndPrepare ==
  /\ frame.phase = "dispatch"
  /\ \/ frame.count > 0 \/ frame.spent
     \/ Candidates = {}
     \/ Cardinality(pending) >= MaxPending
     \/ \A w \in Lanes : ~HasRoom(w)
  /\ frame' = Outside
  /\ UNCHANGED <<chunks, meshes, dirty, pending, generation, revision, workers>>

-----------------------------------------------------------------------------
(* A worker thread: recv, mesh, send.                                      *)

Receive(w) ==
  /\ building[w] = NoJob /\ lanes[w] # <<>>
  /\ building' = [building EXCEPT ![w] = Head(lanes[w])]
  /\ lanes' = [lanes EXCEPT ![w] = Tail(@)]
  /\ UNCHANGED <<renderer, nextLane, results>>

\* The send blocks while the result channel is full.
SendResult(w) ==
  /\ building[w] # NoJob /\ Len(results) < MaxPending
  /\ LET job == building[w]
     IN  results' = Append(results, [coordinate |-> job.coordinate, generation |-> job.generation,
                                     revision |-> job.revision,
                                     mesh |-> MeshOf(job.coordinate, job.snapshot)])
  /\ building' = [building EXCEPT ![w] = NoJob]
  /\ UNCHANGED <<renderer, lanes, nextLane>>

-----------------------------------------------------------------------------
ApplyStep ==
  \/ ApplyReset
  \/ \E c \in Coords, v \in Contents : ApplyLoaded(c, v)
  \/ \E c \in Coords : ApplyUnloaded(c)

PrepareStep ==
  \/ BeginPrepare \/ IntegrateResult \/ EndIntegration \/ EndPrepare
  \/ \E c \in Coords : DropCandidate(c) \/ Dispatch(c)

WorkerStep(w) == Receive(w) \/ SendResult(w)

Next == ApplyStep \/ PrepareStep \/ \E w \in Lanes : WorkerStep(w)

Spec == Init /\ [][Next]_vars

\* has_pending_work keeps World Mode redrawing, and each loop of prepare goes on
\* while there is something for it; worker threads are scheduled by the system.
FairSpec ==
  /\ Spec
  /\ WF_vars(BeginPrepare) /\ WF_vars(IntegrateResult) /\ WF_vars(EndIntegration)
  /\ WF_vars(EndPrepare)
  /\ WF_vars(\E c \in Coords : DropCandidate(c) \/ Dispatch(c))
  /\ \A w \in Lanes : WF_vars(WorkerStep(w))

-----------------------------------------------------------------------------
(* Properties.                                                             *)

Meshes  == AllSnapshots \cup {NoMesh}
Jobs    == [coordinate : Coords, snapshot : AllSnapshots, generation : Nat, revision : Nat]
Results == [coordinate : Coords, mesh : Meshes, generation : Nat, revision : Nat]

\* Every variable stays in the set of values its Rust type can hold.
TypeOK ==
  /\ chunks \in [Coords -> Contents \cup {Absent}]
  /\ meshes \in [Coords -> Meshes]
  /\ dirty \in [Coords -> Nat \cup {Clean}]
  /\ pending \in SUBSET Coords
  /\ generation \in Nat /\ revision \in Nat
  /\ frame \in [phase : {"outside", "integrate", "dispatch"}, count : Nat, spent : BOOLEAN]
  /\ lanes \in [Lanes -> Seq(Jobs)]
  /\ nextLane \in Lanes
  /\ building \in [Lanes -> Jobs \cup {NoJob}]
  /\ results \in Seq(Results)

\* What the player should see of a chunk.
Drawn(c) == IF chunks[c] = Absent THEN NoMesh ELSE MeshOf(c, Snapshot(c))

\* A coordinate that is not dirty shows exactly the chunk and the neighbours
\* the renderer has now: no result of an older snapshot or of an older world
\* is ever left on screen, and no edit next to a chunk border goes unmeshed.
CleanMeshIsCurrent == \A c \in Coords : dirty[c] = Clean => meshes[c] = Drawn(c)

\* The mesh on screen never goes back: whatever replaces it is either its
\* removal or the mesh of the chunk as it is now.
MeshOnlyGetsCurrent ==
  [][\A c \in Coords : meshes'[c] # meshes[c] => meshes'[c] \in {NoMesh, Drawn(c)}]_vars

\* Once the world stops changing, everything loaded gets its final mesh and
\* the scheduler comes to rest, so that the event loop can go back to sleep.
Settles ==
  <>[](/\ \A c \in Coords : dirty[c] = Clean /\ meshes[c] = Drawn(c)
       /\ pending = {})
=============================================================================
