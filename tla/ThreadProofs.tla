----------------------------- MODULE ThreadProofs -----------------------------
(***************************************************************************)
(* Proofs about the three borders of the window's thread with others: the  *)
(* mesh scheduler's with its workers, for every set of chunks, every       *)
(* number of workers, every capacity and every number of deltas and        *)
(* resets; the session port's with the network's task, for every capacity, *)
(* health scale, threshold and number of packets and messages; and the     *)
(* render mailbox's with it, for every set of chunks, entities and         *)
(* contents, every cap and every number of resets.                         *)
(***************************************************************************)
EXTENDS MeshScheduler, SessionPort, RenderMailbox, SequenceTheorems, FiniteSetTheorems, TLAPS

-----------------------------------------------------------------------------
(***************************************************************************)
(* The mesh scheduler.                                                     *)
(***************************************************************************)
\* A job or a result that still counts (its generation is the world's, its revision the one
\* that its chunk waits for) was made from the chunks the renderer has now.
Counts(j) == j.generation = generation /\ dirty[j.coordinate] = j.revision

JobSound(j) ==
  /\ j.generation <= generation /\ j.revision <= revision
  /\ Counts(j) => /\ chunks[j.coordinate] # Absent
                  /\ j.snapshot = Snapshot(j.coordinate)

ResultSound(r) ==
  /\ r.generation <= generation /\ r.revision <= revision
  /\ Counts(r) => r.mesh = Drawn(r.coordinate)

LanesSound    == \A w \in Lanes : \A i \in 1..Len(lanes[w]) : JobSound(lanes[w][i])
BuildingSound == \A w \in Lanes : building[w] # NoJob => JobSound(building[w])
ResultsSound  == \A i \in 1..Len(results) : ResultSound(results[i])

\* No chunk waits for a revision that has not happened.
DirtyBounded == \A c \in Coords : dirty[c] # Clean => dirty[c] <= revision

\* The inductive invariant behind CleanMeshIsCurrent and MeshOnlyGetsCurrent.
IInv == /\ TypeOK
        /\ LanesSound /\ BuildingSound /\ ResultsSound
        /\ DirtyBounded
        /\ CleanMeshIsCurrent

-----------------------------------------------------------------------------
(* Types.                                                                  *)

\* A snapshot is one, its mesh is one, and the capacity of a lane is positive.
LEMMA SnapshotType ==
  ASSUME TypeOK, NEW c \in Coords
  PROVE  /\ Snapshot(c) \in AllSnapshots
         /\ Drawn(c) \in Meshes
<1>1. Snapshot(c) \in [Near[c] -> Contents \cup {Absent}]
  BY SchedulerAssumption DEF Snapshot, TypeOK
<1>2. Snapshot(c) \in AllSnapshots
  BY <1>1 DEF AllSnapshots
<1> QED BY <1>2 DEF Drawn, MeshOf, Meshes

\* The lane that is tried, and the one that comes next, are lanes.
LEMMA LaneType ==
  ASSUME NEW n \in Nat
  PROVE  n % Workers \in Lanes
BY SchedulerAssumption DEF Lanes

\* A dispatched job is one.
LEMMA DispatchType ==
  ASSUME TypeOK, NEW c \in Coords, Dispatch(c)
  PROVE  /\ lanes' \in [Lanes -> Seq(Jobs)]
         /\ nextLane' \in Lanes
<1> DEFINE job == [coordinate |-> c, snapshot |-> Snapshot(c),
                   generation |-> generation, revision |-> dirty[c]]
<1>1. PICK offset \in Lanes : /\ lanes' = [lanes EXCEPT ![LaneAt(offset)] = Append(@, job)]
                              /\ nextLane' = LaneAfter(LaneAt(offset))
  BY DEF Dispatch
<1>2. job \in Jobs
  <2>1. dirty[c] \in Nat
    BY DEF Dispatch, Candidates, TypeOK
  <2> QED BY <2>1, SnapshotType DEF Jobs, TypeOK
<1>3. LaneAt(offset) \in Lanes
  <2>1. nextLane + offset \in Nat
    BY SchedulerAssumption DEF TypeOK, Lanes
  <2> QED BY <2>1, LaneType DEF LaneAt
<1>4. LaneAt(offset) + 1 \in Nat
  BY <1>3 DEF Lanes
<1>5. nextLane' \in Lanes
  BY <1>1, <1>4, LaneType DEF LaneAfter
<1>6. Append(lanes[LaneAt(offset)], job) \in Seq(Jobs)
  BY <1>2, <1>3, AppendProperties DEF TypeOK
<1> HIDE DEF job
<1>7. lanes' \in [Lanes -> Seq(Jobs)]
  BY <1>1, <1>3, <1>6 DEF TypeOK
<1> QED BY <1>5, <1>7

\* A finished job is a result.
LEMMA SendResultType ==
  ASSUME TypeOK, NEW w \in Lanes, SendResult(w)
  PROVE  results' \in Seq(Results)
<1>1. building[w] \in Jobs
  BY DEF TypeOK, SendResult
<1> DEFINE job == building[w]
           r == [coordinate |-> job.coordinate, generation |-> job.generation,
                 revision |-> job.revision, mesh |-> MeshOf(job.coordinate, job.snapshot)]
<1>2. r \in Results
  BY <1>1 DEF Jobs, Results, Meshes, MeshOf
<1>3. results' = Append(results, r)
  BY DEF SendResult
<1> QED BY <1>2, <1>3, AppendProperties DEF TypeOK

\* Every step keeps the types.
LEMMA TypeStep == TypeOK /\ [Next]_vars => TypeOK'
<1> SUFFICES ASSUME TypeOK, [Next]_vars PROVE TypeOK'
  OBVIOUS
<1>1. CASE ApplyReset
  BY <1>1 DEF TypeOK, ApplyReset, workers, Meshes
<1>2. ASSUME NEW c \in Coords, dirty' = MarkedDirty(c), revision' = revision + 1
      PROVE  dirty' \in [Coords -> Nat \cup {Clean}] /\ revision' \in Nat
  BY <1>2 DEF TypeOK, MarkedDirty
<1>3. ASSUME NEW c \in Coords, NEW v \in Contents, ApplyLoaded(c, v)
      PROVE  TypeOK'
  BY <1>2, <1>3 DEF TypeOK, ApplyLoaded, workers
<1>4. ASSUME NEW c \in Coords, ApplyUnloaded(c)
      PROVE  TypeOK'
  BY <1>2, <1>4 DEF TypeOK, ApplyUnloaded, workers, Meshes
<1>5. CASE BeginPrepare
  BY <1>5 DEF TypeOK, BeginPrepare, workers
<1>6. CASE IntegrateResult
  <2>1. Head(results) \in Results /\ results' \in Seq(Results)
    BY <1>6, HeadTailProperties DEF TypeOK, IntegrateResult
  <2>2. frame' \in [phase : {"outside", "integrate", "dispatch"}, count : Nat, spent : BOOLEAN]
    <3>1. frame' = [frame EXCEPT !.count = frame.count + 1]
      BY <1>6 DEF IntegrateResult
    <3>2. frame.count + 1 \in Nat
      BY DEF TypeOK
    <3> QED BY <3>1, <3>2 DEF TypeOK
  <2>3. /\ pending' \in SUBSET Coords
        /\ dirty' \in [Coords -> Nat \cup {Clean}]
        /\ meshes' \in [Coords -> Meshes]
    BY <1>6, <2>1 DEF TypeOK, IntegrateResult, ReleasedBy, MeshesAfter, Results
  <2> QED BY <1>6, <2>1, <2>2, <2>3 DEF TypeOK, IntegrateResult
<1>7. CASE EndIntegration
  BY <1>7 DEF TypeOK, EndIntegration, workers
<1>8. CASE EndPrepare
  BY <1>8 DEF TypeOK, EndPrepare, workers, Outside
<1>9. ASSUME NEW c \in Coords, DropCandidate(c)
      PROVE  TypeOK'
  BY <1>9 DEF TypeOK, DropCandidate, workers, Meshes
<1>10. ASSUME NEW c \in Coords, Dispatch(c)
       PROVE  TypeOK'
  <2>1. lanes' \in [Lanes -> Seq(Jobs)] /\ nextLane' \in Lanes
    BY <1>10, DispatchType
  <2>2. frame' \in [phase : {"outside", "integrate", "dispatch"}, count : Nat, spent : BOOLEAN]
    <3>1. frame' = [frame EXCEPT !.count = frame.count + 1]
      BY <1>10 DEF Dispatch
    <3>2. frame.count + 1 \in Nat
      BY DEF TypeOK
    <3> QED BY <3>1, <3>2 DEF TypeOK
  <2> QED BY <1>10, <2>1, <2>2 DEF TypeOK, Dispatch
<1>11. ASSUME NEW w \in Lanes, Receive(w)
       PROVE  TypeOK'
  <2>1. Head(lanes[w]) \in Jobs /\ Tail(lanes[w]) \in Seq(Jobs)
    BY <1>11, HeadTailProperties DEF TypeOK, Receive
  <2> QED BY <1>11, <2>1 DEF TypeOK, Receive, renderer
<1>12. ASSUME NEW w \in Lanes, SendResult(w)
       PROVE  TypeOK'
  <2>1. results' \in Seq(Results)
    BY <1>12, SendResultType
  <2> QED BY <1>12, <2>1 DEF TypeOK, SendResult, renderer
<1>13. CASE UNCHANGED vars
  BY <1>13 DEF TypeOK, vars, renderer, workers
<1> QED
  BY <1>1, <1>3, <1>4, <1>5, <1>6, <1>7, <1>8, <1>9, <1>10, <1>11, <1>12, <1>13
     DEF Next, ApplyStep, PrepareStep, WorkerStep

-----------------------------------------------------------------------------
(* Jobs and results under way.                                             *)

\* What is under way stays sound when each job and each result does.
LEMMA UnderWay ==
  ASSUME TypeOK, LanesSound, BuildingSound, ResultsSound, UNCHANGED workers,
         \A j \in Jobs : JobSound(j) => JobSound(j)',
         \A r \in Results : ResultSound(r) => ResultSound(r)'
  PROVE  LanesSound' /\ BuildingSound' /\ ResultsSound'
<1>1. ASSUME NEW w \in Lanes, NEW i \in 1..Len(lanes[w])
      PROVE  JobSound(lanes[w][i])'
  <2>1. lanes[w][i] \in Jobs /\ JobSound(lanes[w][i])
    BY <1>1, ElementOfSeq DEF TypeOK, LanesSound
  <2> QED BY <2>1 DEF workers, JobSound, Counts, Snapshot
<1>2. LanesSound'
  BY <1>1 DEF workers, LanesSound
<1>3. BuildingSound'
  BY DEF workers, BuildingSound, TypeOK
<1>4. ResultsSound'
  BY ElementOfSeq DEF workers, ResultsSound, TypeOK
<1> QED BY <1>2, <1>3, <1>4

\* A delta puts the chunk and its neighbours into a revision that no job knows; what is
\* under way for any other chunk does not contain the one that changed.
LEMMA DeltaSound ==
  ASSUME TypeOK, NEW c \in Coords, NEW v \in Contents \cup {Absent},
         chunks' = [chunks EXCEPT ![c] = v], dirty' = MarkedDirty(c),
         revision' = revision + 1, generation' = generation
  PROVE  /\ \A j \in Jobs : JobSound(j) => JobSound(j)'
         /\ \A r \in Results : ResultSound(r) => ResultSound(r)'
         /\ \A d \in Coords \ Near[c] : dirty'[d] = dirty[d] /\ Drawn(d)' = Drawn(d)
         /\ \A d \in Near[c] : dirty'[d] = revision + 1
<1>1. \A d \in Coords \ Near[c] : dirty'[d] = dirty[d]
  BY DEF MarkedDirty
<1>2. \A d \in Near[c] : dirty'[d] = revision + 1
  BY SchedulerAssumption DEF MarkedDirty
<1>3. ASSUME NEW d \in Coords \ Near[c]
      PROVE  chunks'[d] = chunks[d] /\ Snapshot(d)' = Snapshot(d)
  <2>1. c \notin Near[d] /\ c # d
    BY SchedulerAssumption
  <2> QED BY <2>1, SchedulerAssumption DEF Snapshot, TypeOK
<1>4. \A d \in Coords \ Near[c] : Drawn(d)' = Drawn(d)
  BY <1>3 DEF Drawn
<1>5. ASSUME NEW j \in Jobs, JobSound(j)
      PROVE  JobSound(j)'
  <2>1. j.coordinate \in Coords /\ j.revision \in Nat /\ j.generation \in Nat
    BY DEF Jobs
  <2>2. CASE j.coordinate \in Near[c]
    BY <1>2, <1>5, <2>1, <2>2 DEF JobSound, Counts, TypeOK
  <2>3. CASE j.coordinate \notin Near[c]
    BY <1>1, <1>3, <1>5, <2>1, <2>3 DEF JobSound, Counts, TypeOK
  <2> QED BY <2>2, <2>3
<1>6. ASSUME NEW r \in Results, ResultSound(r)
      PROVE  ResultSound(r)'
  <2>1. r.coordinate \in Coords /\ r.revision \in Nat /\ r.generation \in Nat
    BY DEF Results
  <2>2. CASE r.coordinate \in Near[c]
    BY <1>2, <1>6, <2>1, <2>2 DEF ResultSound, Counts, TypeOK
  <2>3. CASE r.coordinate \notin Near[c]
    BY <1>1, <1>4, <1>6, <2>1, <2>3 DEF ResultSound, Counts, TypeOK
  <2> QED BY <2>2, <2>3
<1> QED BY <1>1, <1>2, <1>4, <1>5, <1>6

\* A result that is integrated is the mesh of its chunk as it is now (integrate's
\* comparison of generation and revision).
LEMMA AcceptedIsDrawn ==
  ASSUME TypeOK, ResultsSound, results # <<>>
  PROVE  /\ Head(results) \in Results
         /\ Accepted(Head(results)) => Head(results).mesh = Drawn(Head(results).coordinate)
<1>1. Head(results) \in Results
  BY HeadTailProperties DEF TypeOK
<1>2. ResultSound(Head(results))
  <2>1. Head(results) = results[1] /\ 1 \in 1..Len(results)
    BY EmptySeq, LenProperties DEF TypeOK
  <2> QED BY <2>1 DEF ResultsSound
<1> QED BY <1>1, <1>2 DEF Accepted, ResultSound, Counts

-----------------------------------------------------------------------------
(* The steps of the window thread.                                         *)

\* Deltas and resets keep the invariant: what they change is dirty, or gone.
LEMMA ApplyStepInv == IInv /\ TypeOK' /\ ApplyStep => IInv'
<1> SUFFICES ASSUME IInv, TypeOK', ApplyStep PROVE IInv'
  OBVIOUS
<1> USE DEF IInv
<1>1. CASE ApplyReset
  <2>1. /\ generation' = generation + 1 /\ revision' = revision + 1
        /\ generation \in Nat /\ revision \in Nat
    BY <1>1 DEF ApplyReset, TypeOK
  <2>2. \A j \in Jobs : JobSound(j) => JobSound(j)'
    BY <2>1 DEF JobSound, Counts, Jobs
  <2>3. \A r \in Results : ResultSound(r) => ResultSound(r)'
    BY <2>1 DEF ResultSound, Counts, Results
  <2>4. LanesSound' /\ BuildingSound' /\ ResultsSound'
    BY <1>1, <2>2, <2>3, UnderWay DEF ApplyReset
  <2>5. DirtyBounded' /\ CleanMeshIsCurrent'
    BY <1>1 DEF ApplyReset, DirtyBounded, CleanMeshIsCurrent, Drawn
  <2> QED BY <2>4, <2>5
<1>2. ASSUME NEW c \in Coords, NEW v \in Contents \cup {Absent},
             chunks' = [chunks EXCEPT ![c] = v], dirty' = MarkedDirty(c),
             revision' = revision + 1, UNCHANGED <<generation, workers>>,
             \A d \in Coords \ {c} : meshes'[d] = meshes[d]
      PROVE  IInv'
  <2>1. LanesSound' /\ BuildingSound' /\ ResultsSound'
    BY <1>2, DeltaSound, UnderWay
  <2>2. /\ \A d \in Coords \ Near[c] : dirty'[d] = dirty[d] /\ Drawn(d)' = Drawn(d)
        /\ \A d \in Near[c] : dirty'[d] = revision + 1
    BY <1>2, DeltaSound
  <2>3. revision \in Nat /\ dirty \in [Coords -> Nat \cup {Clean}]
    BY DEF TypeOK
  <2>4. DirtyBounded'
    BY <1>2, <2>2, <2>3, SchedulerAssumption DEF DirtyBounded
  <2>5. CleanMeshIsCurrent'
    BY <1>2, <2>2, <2>3, SchedulerAssumption DEF CleanMeshIsCurrent
  <2> QED BY <2>1, <2>4, <2>5
<1>3. ASSUME NEW c \in Coords, NEW v \in Contents, ApplyLoaded(c, v)
      PROVE  IInv'
  BY <1>2, <1>3 DEF ApplyLoaded
<1>4. ASSUME NEW c \in Coords, ApplyUnloaded(c)
      PROVE  IInv'
  BY <1>2, <1>4 DEF ApplyUnloaded, TypeOK
<1> QED BY <1>1, <1>3, <1>4 DEF ApplyStep

\* A chunk that becomes clean stays out of reach of everything under way.
LEMMA CleanSound ==
  ASSUME TypeOK, NEW c \in Coords, dirty' = [dirty EXCEPT ![c] = Clean],
         UNCHANGED <<chunks, generation, revision>>
  PROVE  /\ \A j \in Jobs : JobSound(j) => JobSound(j)'
         /\ \A r \in Results : ResultSound(r) => ResultSound(r)'
         /\ \A d \in Coords : Drawn(d)' = Drawn(d)
<1>1. \A d \in Coords : Snapshot(d)' = Snapshot(d) /\ Drawn(d)' = Drawn(d)
  BY DEF Snapshot, Drawn
<1>2. \A d \in Coords : dirty'[d] \in Nat => dirty'[d] = dirty[d]
  BY SchedulerAssumption DEF TypeOK
<1> QED BY <1>1, <1>2 DEF JobSound, ResultSound, Counts, Jobs, Results

\* Integrating and dispatching keep the invariant.
LEMMA PrepareStepInv == IInv /\ TypeOK' /\ PrepareStep => IInv'
<1> SUFFICES ASSUME IInv, TypeOK', PrepareStep PROVE IInv'
  OBVIOUS
<1> USE DEF IInv
<1>1. ASSUME UNCHANGED <<chunks, meshes, dirty, generation, revision, workers>>
      PROVE  IInv'
  BY <1>1 DEF workers, LanesSound, BuildingSound, ResultsSound, JobSound, ResultSound, Counts,
              DirtyBounded, CleanMeshIsCurrent, Drawn, Snapshot
<1>2. CASE IntegrateResult
  <2> DEFINE r == Head(results)
  <2>1. /\ r \in Results /\ r.coordinate \in Coords
        /\ Accepted(r) => r.mesh = Drawn(r.coordinate)
    BY <1>2, AcceptedIsDrawn DEF IntegrateResult, Results
  <2>2. /\ results' = Tail(results)
        /\ meshes' = IF Accepted(r) THEN [meshes EXCEPT ![r.coordinate] = r.mesh] ELSE meshes
        /\ dirty' = IF Accepted(r) THEN [dirty EXCEPT ![r.coordinate] = Clean] ELSE dirty
        /\ UNCHANGED <<chunks, generation, revision, lanes, building>>
    BY <1>2 DEF IntegrateResult, MeshesAfter
  <2> HIDE DEF r
  <2>3. /\ \A j \in Jobs : JobSound(j) => JobSound(j)'
        /\ \A s \in Results : ResultSound(s) => ResultSound(s)'
        /\ \A d \in Coords : Drawn(d)' = Drawn(d)
    <3>1. CASE Accepted(r)
      BY <2>1, <2>2, <3>1, CleanSound
    <3>2. CASE ~Accepted(r)
      BY <2>2, <3>2 DEF JobSound, ResultSound, Counts, Drawn, Snapshot
    <3> QED BY <3>1, <3>2
  <2>4. LanesSound'
    BY <2>2, <2>3, ElementOfSeq DEF LanesSound, TypeOK
  <2>5. BuildingSound'
    BY <2>2, <2>3 DEF BuildingSound, TypeOK
  <2>6. ResultsSound'
    <3> SUFFICES ASSUME NEW i \in 1..Len(results') PROVE ResultSound(results[i])'
      BY DEF ResultsSound
    <3>1. results' = Tail(results) /\ results # <<>> /\ results \in Seq(Results)
      BY <1>2 DEF IntegrateResult, TypeOK
    <3>2. results'[i] = results[i + 1] /\ i + 1 \in 1..Len(results)
      BY <3>1, HeadTailProperties, LenProperties
    <3> QED BY <2>3, <3>1, <3>2, ElementOfSeq DEF ResultsSound
  <2>7. DirtyBounded' /\ CleanMeshIsCurrent'
    BY <2>1, <2>2, <2>3 DEF DirtyBounded, CleanMeshIsCurrent, TypeOK
  <2> QED BY <2>4, <2>5, <2>6, <2>7
<1>3. ASSUME NEW c \in Coords, DropCandidate(c)
      PROVE  IInv'
  <2>1. /\ dirty' = [dirty EXCEPT ![c] = Clean] /\ meshes' = [meshes EXCEPT ![c] = NoMesh]
        /\ chunks[c] = Absent /\ UNCHANGED <<chunks, generation, revision, workers>>
    BY <1>3 DEF DropCandidate
  <2>2. LanesSound' /\ BuildingSound' /\ ResultsSound'
    BY <2>1, CleanSound, UnderWay
  <2>3. DirtyBounded' /\ CleanMeshIsCurrent'
    BY <2>1, CleanSound DEF DirtyBounded, CleanMeshIsCurrent, TypeOK, Drawn
  <2> QED BY <2>2, <2>3
<1>4. ASSUME NEW c \in Coords, Dispatch(c)
      PROVE  IInv'
  <2> DEFINE job == [coordinate |-> c, snapshot |-> Snapshot(c),
                     generation |-> generation, revision |-> dirty[c]]
  <2>1. PICK w : lanes' = [lanes EXCEPT ![w] = Append(@, job)]
    BY <1>4 DEF Dispatch
  <2>2. chunks[c] # Absent /\ dirty[c] \in Nat /\ dirty[c] <= revision
    BY <1>4 DEF Dispatch, Candidates, TypeOK, DirtyBounded
  <2>3. UNCHANGED <<chunks, meshes, dirty, generation, revision, building, results>>
    BY <1>4 DEF Dispatch
  <2>4. JobSound(job)
    BY <2>2 DEF JobSound, TypeOK
  <2>5. job \in Jobs
    BY <2>2, SnapshotType DEF Jobs, TypeOK
  <2> HIDE DEF job
  <2>6. ASSUME NEW v \in Lanes, NEW i \in 1..Len(lanes'[v])
        PROVE  JobSound(lanes[v][i])'
    <3>1. JobSound(lanes'[v][i])
      <4>1. CASE v # w
        BY <2>1, <2>6, <4>1 DEF LanesSound, TypeOK
      <4>2. CASE v = w
        <5>1. lanes[v] \in Seq(Jobs) /\ lanes'[v] = Append(lanes[v], job)
          BY <2>1, <4>2 DEF TypeOK
        <5>2. /\ Len(lanes'[v]) = Len(lanes[v]) + 1 /\ Len(lanes[v]) \in Nat
              /\ \A k \in 1..Len(lanes[v]) : lanes'[v][k] = lanes[v][k]
              /\ lanes'[v][Len(lanes[v]) + 1] = job
          BY <2>5, <5>1, AppendProperties, LenProperties
        <5> QED BY <2>4, <2>6, <5>2 DEF LanesSound
      <4> QED BY <4>1, <4>2
    <3> QED BY <2>3, <3>1 DEF JobSound, Counts, Snapshot
  <2>7. LanesSound'
    BY <2>6 DEF LanesSound
  <2>8. BuildingSound' /\ ResultsSound'
    BY <2>3 DEF BuildingSound, ResultsSound, JobSound, ResultSound, Counts, Drawn, Snapshot
  <2>9. DirtyBounded' /\ CleanMeshIsCurrent'
    BY <2>3 DEF DirtyBounded, CleanMeshIsCurrent, Drawn, Snapshot
  <2> QED BY <2>7, <2>8, <2>9
<1> QED
  BY <1>1, <1>2, <1>3, <1>4
     DEF PrepareStep, BeginPrepare, EndIntegration, EndPrepare

-----------------------------------------------------------------------------
(* The worker threads.                                                     *)

\* Taking a job moves it; a finished one is the mesh of its snapshot.
LEMMA WorkerStepInv ==
  ASSUME IInv, TypeOK', NEW w \in Lanes, WorkerStep(w)
  PROVE  IInv'
<1> USE DEF IInv
<1>1. DirtyBounded' /\ CleanMeshIsCurrent'
  BY DEF WorkerStep, Receive, SendResult, renderer, DirtyBounded, CleanMeshIsCurrent, Drawn,
         Snapshot
<1>2. /\ \A j \in Jobs : JobSound(j) => JobSound(j)'
      /\ \A r \in Results : ResultSound(r) => ResultSound(r)'
  BY DEF WorkerStep, Receive, SendResult, renderer, JobSound, ResultSound, Counts, Drawn,
         Snapshot
<1>3. CASE Receive(w)
  <2>1. /\ lanes[w] \in Seq(Jobs) /\ lanes[w] # <<>> /\ results' = results
        /\ building' = [building EXCEPT ![w] = Head(lanes[w])]
        /\ lanes' = [lanes EXCEPT ![w] = Tail(lanes[w])]
    BY <1>3 DEF Receive, TypeOK
  <2>2. /\ lanes[w][1] = Head(lanes[w]) /\ lanes[w][1] \in Jobs /\ JobSound(lanes[w][1])
    BY <2>1, EmptySeq, LenProperties, HeadTailProperties DEF LanesSound
  <2>3. ASSUME NEW v \in Lanes, NEW i \in 1..Len(lanes'[v])
        PROVE  JobSound(lanes[v][i])'
    <3>1. CASE v # w
      BY <1>2, <2>1, <2>3, <3>1, ElementOfSeq DEF LanesSound, TypeOK
    <3>2. CASE v = w
      <4>1. /\ lanes'[v][i] = lanes[v][i + 1] /\ i + 1 \in 1..Len(lanes[v])
        BY <2>1, <2>3, <3>2, HeadTailProperties, LenProperties DEF TypeOK
      <4> QED BY <1>2, <2>1, <3>2, <4>1, ElementOfSeq DEF LanesSound
    <3> QED BY <3>1, <3>2
  <2>4. LanesSound'
    BY <2>3 DEF LanesSound
  <2>5. BuildingSound'
    BY <1>2, <2>1, <2>2 DEF BuildingSound, TypeOK
  <2>6. ResultsSound'
    BY <1>2, <2>1, ElementOfSeq DEF ResultsSound, TypeOK
  <2> QED BY <1>1, <2>4, <2>5, <2>6
<1>4. CASE SendResult(w)
  <2> DEFINE job == building[w]
             r == [coordinate |-> job.coordinate, generation |-> job.generation,
                   revision |-> job.revision, mesh |-> MeshOf(job.coordinate, job.snapshot)]
  <2>1. /\ job \in Jobs /\ JobSound(job) /\ results \in Seq(Results)
        /\ results' = Append(results, r)
        /\ building' = [building EXCEPT ![w] = NoJob] /\ lanes' = lanes
    BY <1>4 DEF SendResult, BuildingSound, TypeOK
  <2>2. r \in Results
    BY <2>1 DEF Jobs, Results, Meshes, MeshOf
  <2>3. ResultSound(r)
    BY <2>1 DEF JobSound, ResultSound, Counts, Drawn, MeshOf
  <2> HIDE DEF r
  <2>4. ASSUME NEW i \in 1..Len(results')
        PROVE  ResultSound(results[i])'
    <3>1. /\ Len(results') = Len(results) + 1 /\ Len(results) \in Nat
          /\ \A k \in 1..Len(results) : results'[k] = results[k]
          /\ results'[Len(results) + 1] = r
      BY <2>1, <2>2, AppendProperties, LenProperties
    <3>2. CASE i = Len(results) + 1
      BY <1>2, <2>2, <2>3, <3>1, <3>2
    <3>3. CASE i # Len(results) + 1
      BY <1>2, <2>1, <2>4, <3>1, <3>3, ElementOfSeq DEF ResultsSound
    <3> QED BY <3>2, <3>3
  <2>5. ResultsSound'
    BY <2>4 DEF ResultsSound
  <2>6. LanesSound' /\ BuildingSound'
    BY <1>2, <2>1, ElementOfSeq DEF LanesSound, BuildingSound, TypeOK
  <2> QED BY <1>1, <2>5, <2>6
<1> QED BY <1>3, <1>4 DEF WorkerStep

-----------------------------------------------------------------------------
(* The theorems.                                                           *)

\* An empty scheduler has nothing under way and nothing loaded.
LEMMA InitInv == Init => IInv
<1> SUFFICES ASSUME Init PROVE IInv
  OBVIOUS
<1>1. \A w \in Lanes : lanes[w] = <<>> /\ building[w] = NoJob
  BY DEF Init
<1>2. TypeOK
  <2>1. 0 \in Lanes
    BY SchedulerAssumption DEF Lanes
  <2> QED BY <2>1 DEF Init, TypeOK, Meshes, Outside
<1>3. LanesSound /\ BuildingSound /\ ResultsSound
  BY <1>1, EmptySeq DEF Init, LanesSound, BuildingSound, ResultsSound
<1>4. DirtyBounded /\ CleanMeshIsCurrent
  BY DEF Init, DirtyBounded, CleanMeshIsCurrent, Drawn
<1> QED BY <1>2, <1>3, <1>4 DEF IInv

LEMMA NextInv == IInv /\ [Next]_vars => IInv'
<1> SUFFICES ASSUME IInv, [Next]_vars PROVE IInv'
  OBVIOUS
<1>1. TypeOK'
  BY TypeStep DEF IInv
<1>2. CASE UNCHANGED vars
  <2>1. UNCHANGED <<chunks, dirty, meshes, generation, revision, lanes, building, results>>
    BY <1>2 DEF vars, renderer, workers
  <2>2. \A j : JobSound(j)' = JobSound(j)
    BY <2>1 DEF JobSound, Counts, Snapshot
  <2>3. \A r : ResultSound(r)' = ResultSound(r)
    BY <2>1 DEF ResultSound, Counts, Drawn, Snapshot
  <2>4. LanesSound' /\ BuildingSound' /\ ResultsSound'
    BY <2>1, <2>2, <2>3 DEF IInv, LanesSound, BuildingSound, ResultsSound
  <2>5. DirtyBounded' /\ CleanMeshIsCurrent'
    BY <2>1 DEF IInv, DirtyBounded, CleanMeshIsCurrent, Drawn, Snapshot
  <2> QED BY <1>1, <2>4, <2>5 DEF IInv
<1> QED BY <1>1, <1>2, ApplyStepInv, PrepareStepInv, WorkerStepInv DEF Next

\* Everything under way that still counts was made from the chunks as they are now.
THEOREM Inductive == Spec => []IInv
BY InitInv, NextInv, PTL DEF Spec

\* Every variable keeps the values its Rust type can hold, the sequence numbers included.
THEOREM TypeCorrect == Spec => []TypeOK
<1>1. IInv => TypeOK
  BY DEF IInv
<1> QED BY <1>1, Inductive, PTL

\* No stale mesh stays on screen: whatever the workers, the neighbours' edits and resets
\* interleave to, a chunk that is not dirty shows what it contains (WorldRenderer::integrate,
\* mark_with_neighbors).
THEOREM NoStaleMesh == Spec => []CleanMeshIsCurrent
<1>1. IInv => CleanMeshIsCurrent
  BY DEF IInv
<1> QED BY <1>1, Inductive, PTL

\* The mesh of a chunk is only ever replaced by the present one or taken away.
THEOREM OnlyGetsCurrent == Spec => MeshOnlyGetsCurrent
<1>1. IInv /\ [Next]_vars =>
        [\A c \in Coords : meshes'[c] # meshes[c] => meshes'[c] \in {NoMesh, Drawn(c)}]_vars
  <2> SUFFICES ASSUME IInv, Next, NEW c \in Coords, meshes'[c] # meshes[c]
               PROVE  meshes'[c] \in {NoMesh, Drawn(c)}
    OBVIOUS
  <2>1. CASE IntegrateResult
    <3>1. /\ Head(results) \in Results
          /\ Accepted(Head(results)) => Head(results).mesh = Drawn(Head(results).coordinate)
          /\ meshes' = MeshesAfter(Head(results))
      BY <2>1, AcceptedIsDrawn DEF IInv, IntegrateResult
    <3> QED BY <3>1 DEF MeshesAfter, IInv, TypeOK
  <2>2. CASE ApplyReset
    BY <2>2 DEF ApplyReset
  <2>3. ASSUME NEW d \in Coords, ApplyUnloaded(d) \/ DropCandidate(d)
        PROVE  meshes'[c] = NoMesh
    BY <2>3 DEF ApplyUnloaded, DropCandidate, IInv, TypeOK
  <2>4. CASE UNCHANGED meshes
    BY <2>4
  <2> QED
    BY <2>1, <2>2, <2>3, <2>4
       DEF Next, ApplyStep, PrepareStep, WorkerStep, ApplyLoaded, BeginPrepare, EndIntegration,
           EndPrepare, Dispatch, Receive, SendResult, renderer
<1> QED BY <1>1, Inductive, PTL DEF Spec, MeshOnlyGetsCurrent

-----------------------------------------------------------------------------
(***************************************************************************)
(* The session port.                                                       *)
(***************************************************************************)
\* The values of the four variables, as PortTypeOK gives them.
PortType == [events : Seq(Regular), commands : Seq(Commands),
             critical : Alerts \cup {"Disconnected", None},
             dropped : Nat, mode : {"Play", "Chat"}, open : BOOLEAN]

SafetyType == [health : 0..MaxHealth \cup {None}, low : BOOLEAN, dead : BOOLEAN, drowning : BOOLEAN]

TaskType == [kind : Kinds,
             phase : {"connecting", "playing", "configuring", "returning", "ended"},
             alerts : Seq(Alerts), packets : 0..MaxPackets, safety : SafetyType]

UiType == [loop : {"running", "exiting", "closed"},
           poll : {"idle", "events", "critical", "dropped"},
           state : {"Connecting", "Connected", "Disconnected"},
           reported : BOOLEAN, sends : 0..MaxSends]

SeenType == [offered : Nat, received : Nat, told : Nat,
             raised : [Alerts -> Nat], shown : [Alerts -> Nat],
             reason : {"none", "given", "shown"}, lowAir : BOOLEAN, crossings : Nat]

\* The queues of the port hold what they may, and no more than their capacity.
GoodPort(p) == /\ p \in PortType
               /\ Len(p.events) <= EventCapacity /\ Len(p.commands) <= CommandCapacity

USE PortAssumption

LEMMA TypeParts ==
  PortTypeOK <=> GoodPort(port) /\ task \in TaskType /\ ui \in UiType /\ seen \in SeenType
  BY DEF PortTypeOK, GoodPort, PortType, TaskType, SafetyType, UiType, SeenType

-----------------------------------------------------------------------------
(* The operations on the port.                                             *)

\* ChatSessionRunner::event keeps the queue within its capacity, and the event is in the
\* queue or counted as dropped, unless the window is gone.
LEMMA OfferLemma ==
  ASSUME NEW p, GoodPort(p), NEW e \in Regular
  PROVE  /\ GoodPort(Offer(p, e))
         /\ Offer(p, e).open = p.open
         /\ Len(Offer(p, e).events) + Offer(p, e).dropped =
              Len(p.events) + p.dropped + (IF p.open THEN 1 ELSE 0)
<1> USE DEF GoodPort, PortType
<1>1. CASE ~p.open
  BY <1>1, LenProperties DEF Offer
<1>2. CASE p.open /\ Len(p.events) < EventCapacity
  <2> DEFINE q == [p EXCEPT !.events = Append(p.events, e)]
  <2>1. Offer(p, e) = q
    BY <1>2 DEF Offer
  <2>2. Append(p.events, e) \in Seq(Regular) /\ Len(Append(p.events, e)) = Len(p.events) + 1
    BY AppendProperties
  <2>3. q \in PortType /\ q.events = Append(p.events, e)
        /\ q.commands = p.commands /\ q.dropped = p.dropped /\ q.open = p.open
    BY <2>2
  <2> HIDE DEF q
  <2>4. Len(p.events) \in Nat /\ p.dropped \in Nat
    BY LenProperties
  <2>5. GoodPort(q)
    BY <1>2, <2>2, <2>3, <2>4
  <2>6. Len(q.events) + q.dropped = Len(p.events) + p.dropped + 1
    BY <2>2, <2>3, <2>4
  <2> QED BY <1>2, <2>1, <2>3, <2>5, <2>6
<1>3. CASE p.open /\ ~(Len(p.events) < EventCapacity)
  <2> DEFINE q == [p EXCEPT !.dropped = p.dropped + 1]
  <2>1. Offer(p, e) = q
    BY <1>3 DEF Offer
  <2>2. p.dropped + 1 \in Nat
    OBVIOUS
  <2>3. q \in PortType /\ q.events = p.events
        /\ q.commands = p.commands /\ q.dropped = p.dropped + 1 /\ q.open = p.open
    BY <2>2
  <2> HIDE DEF q
  <2>4. Len(p.events) \in Nat
    BY LenProperties
  <2> QED BY <1>3, <2>1, <2>2, <2>3, <2>4
<1> QED BY <1>1, <1>2, <1>3

\* try_send of a command keeps the command queue within its capacity, and leaves events
\* and drops alone.
LEMMA WithCommandLemma ==
  ASSUME GoodPort(port), NEW c \in Commands
  PROVE  /\ GoodPort(WithCommand(port, c))
         /\ WithCommand(port, c).events = port.events /\ WithCommand(port, c).dropped = port.dropped
<1> USE DEF GoodPort, PortType
<1>1. CASE ~(RunnerLives /\ Len(port.commands) < CommandCapacity)
  BY <1>1 DEF WithCommand
<1>2. CASE RunnerLives /\ Len(port.commands) < CommandCapacity
  <2> DEFINE q == [port EXCEPT !.commands = Append(port.commands, c)]
  <2>1. WithCommand(port, c) = q
    BY <1>2 DEF WithCommand
  <2>2. Append(port.commands, c) \in Seq(Commands)
        /\ Len(Append(port.commands, c)) = Len(port.commands) + 1
    BY AppendProperties
  <2>3. q \in PortType /\ q.commands = Append(port.commands, c)
        /\ q.events = port.events /\ q.dropped = port.dropped
    BY <2>2
  <2> HIDE DEF q
  <2>4. Len(port.commands) \in Nat
    BY LenProperties
  <2> QED BY <1>2, <2>1, <2>2, <2>3, <2>4
<1> QED BY <1>1, <1>2

\* The critical slot takes any alert, and the end of the session.
LEMMA CriticalLemma ==
  ASSUME NEW p, GoodPort(p), NEW e \in Alerts \cup {"Disconnected"}
  PROVE  /\ GoodPort(Critical(p, e))
         /\ Critical(p, e).events = p.events /\ Critical(p, e).dropped = p.dropped
  BY DEF GoodPort, PortType, Critical

\* The tracker raises alerts, and stays a tracker.
LEMMA TrackerLemma ==
  ASSUME NEW s \in SafetyType, NEW h \in 0..MaxHealth, NEW dangerous \in BOOLEAN
  PROVE  /\ HealthAlerts(s, h) \in Seq(Alerts)
         /\ AirAlerts(s, dangerous) \in Seq(Alerts)
         /\ AfterHealth(s, h) \in SafetyType
         /\ FreshTracker \in SafetyType
<1>1. \A condition \in BOOLEAN, alert \in Alerts : When(condition, alert) \in Seq(Alerts)
  BY DEF When
<1>2. /\ When(h = 0 /\ ~s.dead, "Death") \in Seq(Alerts)
      /\ When(h # 0 /\ s.health # None /\ h < s.health, "Damage") \in Seq(Alerts)
      /\ When(h # 0 /\ h <= LowHealthThreshold /\ ~s.low, "LowHealth") \in Seq(Alerts)
      /\ When(dangerous /\ ~s.drowning, "Drowning") \in Seq(Alerts)
  BY <1>1 DEF When, Alerts
<1>3. HealthAlerts(s, h) \in Seq(Alerts)
  BY <1>2, ConcatProperties DEF HealthAlerts
<1>4. AfterHealth(s, h) \in SafetyType
  BY DEF AfterHealth, SafetyType
<1>5. FreshTracker \in SafetyType
  BY DEF FreshTracker, SafetyType
<1> QED BY <1>2, <1>3, <1>4, <1>5 DEF AirAlerts

-----------------------------------------------------------------------------
(* The steps.                                                              *)

\* What is known before a step.
LEMMA Before ==
  ASSUME PortSound
  PROVE  /\ GoodPort(port) /\ task \in TaskType /\ ui \in UiType /\ seen \in SeenType
         /\ port.events \in Seq(Regular) /\ port.commands \in Seq(Commands)
         /\ Len(port.events) \in Nat /\ port.dropped \in Nat
         /\ seen.offered \in Nat /\ seen.received \in Nat /\ seen.told \in Nat
         /\ seen.offered = seen.received + Len(port.events) + port.dropped + seen.told
<1>1. GoodPort(port) /\ task \in TaskType /\ ui \in UiType /\ seen \in SeenType
  BY TypeParts DEF PortSound
<1>2. /\ port.events \in Seq(Regular) /\ port.commands \in Seq(Commands) /\ port.dropped \in Nat
  BY <1>1 DEF GoodPort, PortType
<1>3. seen.offered \in Nat /\ seen.received \in Nat /\ seen.told \in Nat
  BY <1>1 DEF SeenType
<1> QED BY <1>1, <1>2, <1>3, LenProperties DEF PortSound, DropsAccounted

\* What has to be shown after one.
LEMMA After ==
  ASSUME GoodPort(port'), task' \in TaskType, ui' \in UiType, seen' \in SeenType,
         seen'.offered = seen'.received + Len(port'.events) + port'.dropped + seen'.told
  PROVE  PortSound'
  BY DEF PortSound, PortTypeOK, DropsAccounted, GoodPort, PortType, TaskType, SafetyType, UiType,
         SeenType

\* A step that leaves the event queue, the drop count and the accounts alone.
LEMMA Beside ==
  ASSUME PortSound, GoodPort(port'), port'.events = port.events, port'.dropped = port.dropped,
         task' \in TaskType, ui' \in UiType, seen' \in SeenType,
         seen'.offered = seen.offered, seen'.received = seen.received, seen'.told = seen.told
  PROVE  PortSound'
  BY Before, After

\* A step that brings one event more, offered, to the queue or to the drop count.
LEMMA Balanced ==
  ASSUME PortSound, GoodPort(port'), task' \in TaskType, ui' \in UiType, seen' \in SeenType,
         seen'.received = seen.received, seen'.told = seen.told,
         NEW k \in Nat, seen'.offered = seen.offered + k,
         Len(port'.events) + port'.dropped = Len(port.events) + port.dropped + k
  PROVE  PortSound'
<1>1. port'.events \in Seq(Regular) /\ port'.dropped \in Nat /\ Len(port'.events) \in Nat
  BY LenProperties DEF GoodPort, PortType
<1>2. /\ seen.offered \in Nat /\ seen.received \in Nat /\ seen.told \in Nat
      /\ Len(port.events) \in Nat /\ port.dropped \in Nat
      /\ seen.offered = seen.received + Len(port.events) + port.dropped + seen.told
  BY Before
<1>3. seen'.offered = seen'.received + Len(port'.events) + port'.dropped + seen'.told
  <2>1. seen'.offered = seen.received + Len(port.events) + port.dropped + seen.told + k
    BY <1>2
  <2>2. @ = seen.received + (Len(port.events) + port.dropped + k) + seen.told
    BY <1>2
  <2>3. @ = seen'.received + (Len(port'.events) + port'.dropped) + seen'.told
    BY <1>1, <1>2
  <2>4. @ = seen'.received + Len(port'.events) + port'.dropped + seen'.told
    <3>1. seen'.received \in Nat /\ seen'.told \in Nat
      BY <1>2
    <3>2. \A a, b, c, d \in Nat : a + (b + c) + d = a + b + c + d
      OBVIOUS
    <3> QED BY <1>1, <3>1, <3>2
  <2> QED BY <2>1, <2>2, <2>3, <2>4
<1> QED BY <1>3, After

\* An event offered to the window, with the count of those offered.
LEMMA OfferStep ==
  ASSUME PortSound, NEW p, GoodPort(p), p.events = port.events, p.dropped = port.dropped,
         p.open = port.open, NEW e \in Regular, port' = Offer(p, e),
         seen' \in SeenType, seen'.received = seen.received, seen'.told = seen.told,
         seen'.offered = IF port.open THEN seen.offered + 1 ELSE seen.offered,
         task' \in TaskType, ui' \in UiType
  PROVE  PortSound'
<1>1. /\ GoodPort(port')
      /\ Len(port'.events) + port'.dropped = Len(port.events) + port.dropped + (IF port.open THEN 1 ELSE 0)
  BY OfferLemma
<1>2. CASE port.open
  BY <1>1, <1>2, Balanced
<1>3. CASE ~port.open
  <2>1. seen'.offered = seen.offered + 0
    BY <1>3, Before
  <2> QED BY <1>1, <1>3, <2>1, Balanced
<1> QED BY <1>2, <1>3

\* Event(e), the offer the select loop's arms make.
LEMMA EventStep ==
  ASSUME PortSound, NEW e \in Regular, Event(e), task' \in TaskType, ui' \in UiType
  PROVE  PortSound'
<1>1. GoodPort(port) /\ seen \in SeenType /\ seen.offered \in Nat
  BY Before
<1>2. /\ seen' \in SeenType /\ seen'.received = seen.received /\ seen'.told = seen.told
      /\ seen'.offered = IF port.open THEN seen.offered + 1 ELSE seen.offered
  BY <1>1 DEF Event, SeenType
<1> QED BY <1>1, <1>2, OfferStep DEF Event

\* Every step of the network task keeps the port sound.
LEMMA NetworkSound == PortSound /\ Network => PortSound'
<1> SUFFICES ASSUME PortSound, Network PROVE PortSound'
  OBVIOUS
<1>0. GoodPort(port) /\ task \in TaskType /\ ui \in UiType /\ seen \in SeenType
  BY Before
<1>r. "Connected" \in Regular /\ "Message" \in Regular /\ "Warning" \in Regular
  BY DEF Regular
<1>1. CASE Connect
  <2>1. task' \in TaskType
    BY <1>0, <1>1 DEF Connect, TaskType
  <2> QED BY <1>0, <1>1, <1>r, <2>1, EventStep DEF Connect
<1>e. <<>> \in Seq(Alerts) /\ Returning(task) \in TaskType
  BY <1>0, EmptySeq DEF Returning, TaskType
<1>2. ASSUME NEW explained \in BOOLEAN, ConnectFails(explained) PROVE PortSound'
  <2>1. seen' \in SeenType /\ seen'.offered = seen.offered /\ seen'.received = seen.received /\ seen'.told = seen.told
    BY <1>0, <1>2 DEF ConnectFails, SeenType
  <2>2. GoodPort(port') /\ port'.events = port.events /\ port'.dropped = port.dropped
    BY <1>0, <1>2, CriticalLemma DEF ConnectFails
  <2>3. task' \in TaskType /\ ui' \in UiType
    BY <1>0, <1>2, <1>e DEF ConnectFails
  <2> QED BY <2>1, <2>2, <2>3, Beside
<1>n. NextPacket => task.packets + 1 \in 0..MaxPackets
  BY <1>0 DEF NextPacket, TaskType
<1>3. CASE ChatPacket
  <2>1. task' \in TaskType
    BY <1>0, <1>n, <1>3 DEF ChatPacket, TaskType
  <2> QED BY <1>0, <1>3, <1>r, <2>1, EventStep DEF ChatPacket
<1>4. ASSUME NEW h \in 0..MaxHealth, HealthPacket(h) PROVE PortSound'
  <2>1. HealthAlerts(task.safety, h) \in Seq(Alerts) /\ AfterHealth(task.safety, h) \in SafetyType
    BY <1>0, TrackerLemma DEF TaskType
  <2>2. task' \in TaskType
    BY <1>0, <1>n, <1>4, <2>1 DEF HealthPacket, TaskType
  <2> QED BY <1>0, <1>4, <2>2, Beside DEF HealthPacket
<1>5. ASSUME NEW dangerous \in BOOLEAN, AirPacket(dangerous) PROVE PortSound'
  <2>1. AirAlerts(task.safety, dangerous) \in Seq(Alerts)
    BY <1>0, TrackerLemma DEF TaskType
  <2>2. task' \in TaskType
    <3>1. [task EXCEPT !.packets = task.packets + 1] \in TaskType
      BY <1>0, <1>n, <1>5 DEF AirPacket, TaskType
    <3>2. [task.safety EXCEPT !.drowning = dangerous] \in SafetyType
      BY <1>0 DEF TaskType, SafetyType
    <3>3. [task EXCEPT !.packets = task.packets + 1, !.alerts = AirAlerts(task.safety, dangerous),
                       !.safety = [task.safety EXCEPT !.drowning = dangerous]] \in TaskType
      BY <1>0, <1>n, <1>5, <2>1, <3>2 DEF AirPacket, TaskType
    <3>4. [task EXCEPT !.packets = @ + 1, !.alerts = AirAlerts(task.safety, dangerous),
                       !.safety.drowning = dangerous] =
          [task EXCEPT !.packets = task.packets + 1, !.alerts = AirAlerts(task.safety, dangerous),
                       !.safety = [task.safety EXCEPT !.drowning = dangerous]]
      BY <1>0 DEF TaskType
    <3> QED BY <1>5, <3>1, <3>3, <3>4 DEF AirPacket
  <2>3. seen.crossings \in Nat
    BY <1>0 DEF SeenType
  <2>4. seen' \in SeenType /\ seen'.offered = seen.offered /\ seen'.received = seen.received /\ seen'.told = seen.told
    <3> DEFINE count == IF dangerous /\ ~seen.lowAir THEN seen.crossings + 1 ELSE seen.crossings
    <3>1. seen' = [seen EXCEPT !.lowAir = dangerous, !.crossings = count]
      BY <1>5 DEF AirPacket
    <3>2. count \in Nat
      BY <2>3
    <3> HIDE DEF count
    <3> QED BY <1>0, <3>1, <3>2 DEF SeenType
  <2> QED BY <1>0, <1>5, <2>2, <2>4, Beside DEF AirPacket
<1>6. CASE DisplacementPacket
  <2>1. <<"LargeDisplacement">> \in Seq(Alerts)
    BY DEF Alerts
  <2>2. task' \in TaskType
    BY <1>0, <1>n, <1>6, <2>1 DEF DisplacementPacket, TaskType
  <2> QED BY <1>0, <1>6, <2>2, Beside DEF DisplacementPacket
<1>7. CASE RaiseAlert
  <2>1. task.alerts \in Seq(Alerts) /\ task.alerts # <<>>
    BY <1>0, <1>7 DEF RaiseAlert, TaskType
  <2>2. Head(task.alerts) \in Alerts /\ Tail(task.alerts) \in Seq(Alerts)
    BY <2>1, HeadTailProperties
  <2>3. task' \in TaskType
    BY <1>0, <1>7, <2>2 DEF RaiseAlert, TaskType
  <2>4. GoodPort(port') /\ port'.events = port.events /\ port'.dropped = port.dropped
    BY <1>0, <1>7, <2>2, CriticalLemma DEF RaiseAlert
  <2>5. seen' \in SeenType /\ seen'.offered = seen.offered /\ seen'.received = seen.received /\ seen'.told = seen.told
    <3> DEFINE raised == [seen.raised EXCEPT ![Head(task.alerts)] = @ + 1]
    <3>1. raised \in [Alerts -> Nat]
      BY <1>0, <2>2 DEF SeenType
    <3>2. seen' = [seen EXCEPT !.raised = raised]
      BY <1>7 DEF RaiseAlert
    <3> HIDE DEF raised
    <3> QED BY <1>0, <3>1, <3>2 DEF SeenType
  <2> QED BY <1>0, <1>7, <2>3, <2>4, <2>5, Beside DEF RaiseAlert
<1>8. CASE StartConfiguration
  <2>1. task' \in TaskType
    BY <1>0, <1>n, <1>8 DEF StartConfiguration, TaskType
  <2> QED BY <1>0, <1>8, <2>1, Beside DEF StartConfiguration
<1>9. CASE FinishConfiguration
  <2>1. FreshTracker \in SafetyType
    BY DEF FreshTracker, SafetyType
  <2>2. task' \in TaskType
    BY <1>0, <1>9, <2>1 DEF FinishConfiguration, TaskType
  <2>3. seen.offered \in Nat
    BY Before
  <2>4. /\ seen' \in SeenType /\ seen'.received = seen.received /\ seen'.told = seen.told
        /\ seen'.offered = IF port.open THEN seen.offered + 1 ELSE seen.offered
    <3> DEFINE count == IF port.open THEN seen.offered + 1 ELSE seen.offered
    <3>1. seen' = [seen EXCEPT !.offered = count, !.lowAir = FALSE]
      BY <1>9 DEF FinishConfiguration
    <3>2. count \in Nat
      BY <2>3
    <3> HIDE DEF count
    <3>3. seen' \in SeenType /\ seen'.offered = count /\ seen'.received = seen.received /\ seen'.told = seen.told
      BY <1>0, <3>1, <3>2 DEF SeenType
    <3> QED BY <3>3 DEF count
  <2> QED BY <1>0, <1>9, <1>r, <2>2, <2>4, OfferStep DEF FinishConfiguration
<1>10. CASE ServerDisconnects
  <2>1. GoodPort(port') /\ port'.events = port.events /\ port'.dropped = port.dropped
    BY <1>0, <1>10, CriticalLemma DEF ServerDisconnects
  <2>2. seen' \in SeenType /\ seen'.offered = seen.offered /\ seen'.received = seen.received /\ seen'.told = seen.told
    BY <1>0, <1>10 DEF ServerDisconnects, SeenType
  <2> QED BY <1>0, <1>10, <1>e, <2>1, <2>2, Beside DEF ServerDisconnects
<1>11. CASE TaskFails
  BY <1>0, <1>11, <1>e, Beside DEF TaskFails
<1>12. ASSUME NEW ok \in BOOLEAN, SendCommand(ok) PROVE PortSound'
  <2> DEFINE rest == [port EXCEPT !.commands = Tail(port.commands)]
  <2>1. port.commands \in Seq(Commands) /\ port.commands # <<>>
    BY <1>12, Before DEF SendCommand
  <2>2. Tail(port.commands) \in Seq(Commands) /\ Len(Tail(port.commands)) = Len(port.commands) - 1
    BY <2>1, HeadTailProperties
  <2>3. /\ rest \in PortType /\ rest.events = port.events /\ rest.dropped = port.dropped
        /\ rest.open = port.open /\ rest.commands = Tail(port.commands)
    BY <1>0, <2>2 DEF GoodPort, PortType
  <2>4. Len(port.commands) \in Nat
    BY <2>1, LenProperties
  <2>5. GoodPort(rest)
    BY <1>0, <2>2, <2>3, <2>4 DEF GoodPort
  <2>6. /\ port' = IF ok THEN rest ELSE Offer(rest, "Warning")
        /\ seen' = [seen EXCEPT !.offered = IF ~ok /\ port.open THEN @ + 1 ELSE @]
        /\ UNCHANGED <<task, ui>>
    BY <1>12 DEF SendCommand
  <2> HIDE DEF rest
  <2>7. seen.offered \in Nat
    BY Before
  <2>8. /\ seen' \in SeenType /\ seen'.received = seen.received /\ seen'.told = seen.told
        /\ seen'.offered = IF ~ok /\ port.open THEN seen.offered + 1 ELSE seen.offered
    BY <1>0, <2>6, <2>7 DEF SeenType
  <2>9. CASE ok
    BY <1>0, <2>3, <2>5, <2>6, <2>8, <2>9, Beside
  <2>10. CASE ~ok
    BY <1>0, <1>r, <2>3, <2>5, <2>6, <2>8, <2>10, OfferStep
  <2> QED BY <2>9, <2>10
<1>13. CASE LeaveCommand
  BY <1>0, <1>13, <1>e, Beside DEF LeaveCommand
<1>14. CASE DropRunner
  <2>1. task' \in TaskType
    BY <1>0, <1>14 DEF DropRunner, TaskType
  <2> QED BY <1>0, <1>14, <2>1, Beside DEF DropRunner
<1> QED
  BY <1>1, <1>2, <1>3, <1>4, <1>5, <1>6, <1>7, <1>8, <1>9, <1>10, <1>11, <1>12, <1>13, <1>14
  DEF Network, Connecting, Serve

\* Every step of the window thread keeps the port sound, each read of a poll by itself.
LEMMA WindowSound == PortSound /\ Window => PortSound'
<1> SUFFICES ASSUME PortSound, Window PROVE PortSound'
  OBVIOUS
<1>0. GoodPort(port) /\ task \in TaskType /\ ui \in UiType /\ seen \in SeenType
  BY Before
<1>1. CASE BeginPoll
  <2>1. ui' \in UiType
    BY <1>0, <1>1 DEF BeginPoll, UiType
  <2> QED BY <1>0, <1>1, <2>1, Beside DEF BeginPoll
<1>2. CASE PollEvent
  <2>1. port.events \in Seq(Regular) /\ port.events # <<>>
    BY <1>2, Before DEF PollEvent
  <2>2. Tail(port.events) \in Seq(Regular) /\ Len(Tail(port.events)) = Len(port.events) - 1
    BY <2>1, HeadTailProperties
  <2>3. /\ port' \in PortType /\ port'.events = Tail(port.events)
        /\ port'.dropped = port.dropped /\ port'.commands = port.commands
    BY <1>0, <1>2, <2>2 DEF PollEvent, GoodPort, PortType
  <2>4. Len(port.events) \in Nat /\ Len(port.events) # 0
    BY <2>1, LenProperties, EmptySeq
  <2>5. GoodPort(port')
    BY <1>0, <2>2, <2>3, <2>4 DEF GoodPort
  <2>6. ui' \in UiType
    BY <1>0, <1>2 DEF PollEvent, UiType, Applied
  <2>7. seen.received \in Nat
    BY Before
  <2>8. seen' \in SeenType /\ seen'.offered = seen.offered
        /\ seen'.received = seen.received + 1 /\ seen'.told = seen.told
    <3>1. seen' = [seen EXCEPT !.received = seen.received + 1] /\ seen.received + 1 \in Nat
      BY <1>2, <2>7 DEF PollEvent
    <3> QED BY <1>0, <3>1 DEF SeenType
  <2>9. seen'.offered = seen'.received + Len(port'.events) + port'.dropped + seen'.told
    BY <2>2, <2>3, <2>4, <2>8, Before
  <2> QED BY <1>0, <1>2, <2>5, <2>6, <2>8, <2>9, After DEF PollEvent
<1>3. CASE PollClosed
  <2>1. ui' \in UiType
    BY <1>0, <1>3 DEF PollClosed, UiType, Applied
  <2> QED BY <1>0, <1>3, <2>1, Beside DEF PollClosed
<1>4. CASE PollEmpty
  <2>1. ui' \in UiType
    BY <1>0, <1>4 DEF PollEmpty, UiType
  <2> QED BY <1>0, <1>4, <2>1, Beside DEF PollEmpty
<1>5. CASE PollCritical
  <2>1. GoodPort(port') /\ port'.events = port.events /\ port'.dropped = port.dropped
    BY <1>0, <1>5 DEF PollCritical, GoodPort, PortType
  <2>2. ui' \in UiType
    BY <1>0, <1>5 DEF PollCritical, UiType, Applied
  <2>3. [k \in Alerts |-> IF k = port.critical THEN seen.shown[k] + 1 ELSE seen.shown[k]] \in [Alerts -> Nat]
    BY <1>0 DEF SeenType
  <2>4. seen' \in SeenType /\ seen'.offered = seen.offered
        /\ seen'.received = seen.received /\ seen'.told = seen.told
    BY <1>0, <1>5, <2>3 DEF PollCritical, SeenType
  <2> QED BY <1>0, <1>5, <2>1, <2>2, <2>4, Beside DEF PollCritical
<1>6. CASE PollDropped
  <2>1. /\ GoodPort(port') /\ port'.events = port.events /\ port'.dropped = 0
    BY <1>0, <1>6 DEF PollDropped, GoodPort, PortType
  <2>2. ui' \in UiType
    BY <1>0, <1>6 DEF PollDropped, UiType
  <2>3. seen.told + port.dropped \in Nat
    BY Before
  <2>4. seen' \in SeenType /\ seen'.offered = seen.offered
        /\ seen'.received = seen.received /\ seen'.told = seen.told + port.dropped
    BY <1>0, <1>6, <2>3 DEF PollDropped, SeenType
  <2>5. seen'.offered = seen'.received + Len(port'.events) + port'.dropped + seen'.told
    BY <2>1, <2>4, Before
  <2> QED BY <1>0, <1>6, <2>1, <2>2, <2>4, <2>5, After DEF PollDropped
<1>7. CASE UserSends
  <2>1. ui' \in UiType
    BY <1>0, <1>7 DEF UserSends, UiType
  <2>2. "SendMessage" \in Commands
    BY DEF Commands
  <2> QED BY <1>0, <1>7, <2>1, <2>2, WithCommandLemma, Beside DEF UserSends
<1>8. CASE CloseWindow
  <2>1. ui' \in UiType
    BY <1>0, <1>8 DEF CloseWindow, UiType
  <2>2. "Disconnect" \in Commands
    BY DEF Commands
  <2> QED BY <1>0, <1>8, <2>1, <2>2, WithCommandLemma, Beside DEF CloseWindow
<1>9. CASE DropHandle
  <2>1. ui' \in UiType
    BY <1>0, <1>9 DEF DropHandle, UiType
  <2>2. GoodPort(port') /\ port'.events = port.events /\ port'.dropped = port.dropped
    BY <1>0, <1>9 DEF DropHandle, GoodPort, PortType
  <2> QED BY <1>0, <1>9, <2>1, <2>2, Beside DEF DropHandle
<1>10. ASSUME NEW m \in {"Play", "Chat"}, SetMode(m) PROVE PortSound'
  <2>1. GoodPort(port') /\ port'.events = port.events /\ port'.dropped = port.dropped
    BY <1>0, <1>10 DEF SetMode, GoodPort, PortType
  <2> QED BY <1>0, <1>10, <2>1, Beside DEF SetMode
<1> QED
  BY <1>1, <1>2, <1>3, <1>4, <1>5, <1>6, <1>7, <1>8, <1>9, <1>10 DEF Window, Poll

-----------------------------------------------------------------------------
\* A session that starts has nothing to account for.
LEMMA InitSound == PortInit => PortSound
<1> SUFFICES ASSUME PortInit PROVE PortSound
  OBVIOUS
<1>1. GoodPort(port) /\ Len(port.events) = 0 /\ port.dropped = 0
  <2>1. <<>> \in Seq(Regular) /\ <<>> \in Seq(Commands) /\ Len(<<>>) = 0
    BY EmptySeq
  <2> QED BY <2>1 DEF PortInit, GoodPort, PortType
<1>2. task \in TaskType
  <2>1. <<>> \in Seq(Alerts) /\ FreshTracker \in SafetyType
    BY EmptySeq DEF FreshTracker, SafetyType
  <2> QED BY <2>1 DEF PortInit, TaskType
<1>3. ui \in UiType
  BY DEF PortInit, UiType
<1>4. seen \in SeenType
  BY DEF PortInit, SeenType, NoAlerts
<1>5. DropsAccounted
  BY <1>1 DEF PortInit, DropsAccounted
<1> QED BY <1>1, <1>2, <1>3, <1>4, <1>5, TypeParts DEF PortSound

\* No event disappears silently and no queue outgrows its capacity, for every capacity and
\* however the task's steps fall between the reads of a poll (ChatSessionRunner::event,
\* ChatMode::poll).
THEOREM NothingSilentlyLost == PortSpec => []PortSound
<1>1. PortSound /\ UNCHANGED portVars => PortSound'
  BY Before, Beside DEF portVars
<1>2. PortSound /\ [PortNext]_portVars => PortSound'
  BY <1>1, NetworkSound, WindowSound DEF PortNext
<1> QED BY InitSound, <1>2, PTL DEF PortSpec

-----------------------------------------------------------------------------
(***************************************************************************)
(* The render mailbox.                                                     *)
(***************************************************************************)
\* A reset is owed only while the world is empty and nothing else is owed.
OwedResetEmpty ==
  world.owedReset => /\ world.chunks = Empty(Chunks) /\ world.entities = Empty(Ids)
                     /\ world.owedChunks = {} /\ world.owedEntities = {}

\* An intact renderer is there, and of the mailbox's generation unless a reset
\* is on its way.
IntactGeneration ==
  intact => /\ view.present
            /\ mailbox.reset \/ view.generation = mailbox.generation

\* Whatever is pending is announced by the dirty flag.
DirtyCovers ==
  ~mailbox.dirty => /\ ~mailbox.reset
                    /\ mailbox.chunks = Silent(Chunks) /\ mailbox.entities = Silent(Ids)
                    /\ mailbox.replacement = Nothing
                    /\ intact => view.target = mailbox.target

\* The inductive invariant behind PendingCompletesView and CleanMeansCurrent.
MailboxInv ==
  /\ MailboxTypeOK
  /\ OwedResetEmpty
  /\ IntactGeneration
  /\ DirtyCovers
  /\ PendingCompletesView

-----------------------------------------------------------------------------
USE MailboxAssumption DEF WorldType, MailboxType, ViewType, Store, Deltas, Poses, Empty, Silent

\* The empty mailbox and the empty renderer satisfy the invariant (WorldRenderHandle::new).
LEMMA MailboxInitInv == MailboxInit => MailboxInv
<1> SUFFICES ASSUME MailboxInit PROVE MailboxInv
  OBVIOUS
<1>1. MailboxTypeOK
  BY DEF MailboxInit, MailboxTypeOK
<1>2. OwedResetEmpty /\ IntactGeneration /\ DirtyCovers
  BY DEF MailboxInit, OwedResetEmpty, IntactGeneration, DirtyCovers
<1>3. PendingCompletesView
  BY DEF MailboxInit, PendingCompletesView, PublishedChunks, PublishedEntities, Promised, Overlay
<1> QED BY <1>1, <1>2, <1>3 DEF MailboxInv

-----------------------------------------------------------------------------
(* Steps that change the network task's world and leave the mailbox alone. *)

\* A change of world is harmless when all that changed is owed to the renderer.
LEMMA OwedChange ==
  ASSUME MailboxInv, Idle, UNCHANGED <<mailbox, view, intact>>,
         world' \in WorldType, ~world'.owedReset,
         \A c \in Chunks \ world'.owedChunks : world'.chunks[c] = world.chunks[c],
         \A i \in Ids \ world'.owedEntities : world'.entities[i] = world.entities[i]
  PROVE  MailboxInv'
<1>1. MailboxTypeOK'
  BY DEF MailboxInv, MailboxTypeOK
<1>2. OwedResetEmpty' /\ IntactGeneration' /\ DirtyCovers'
  BY DEF MailboxInv, OwedResetEmpty, IntactGeneration, DirtyCovers
<1>3. PendingCompletesView'
  <2>1. PublishedChunks' = PublishedChunks /\ PublishedEntities' = PublishedEntities
    BY DEF PublishedChunks, PublishedEntities, Promised
  <2> QED BY <2>1 DEF MailboxInv, Idle, PendingCompletesView
<1> QED BY <1>1, <1>2, <1>3 DEF MailboxInv

\* Every change the session makes to its world keeps the invariant: it only adds to
\* what is owed.
LEMMA WorldStepInv == MailboxInv /\ WorldStep => MailboxInv'
<1> SUFFICES ASSUME MailboxInv, WorldStep PROVE MailboxInv'
  OBVIOUS
<1>0. world \in WorldType
  BY DEF MailboxInv, MailboxTypeOK
<1>1. ASSUME NEW i \in Ids, NEW v \in Versions, SpawnEntity(i, v)
      PROVE  MailboxInv'
  <2>1. Idle /\ UNCHANGED <<mailbox, view, intact>>
        /\ world' = [world EXCEPT !.entities[i] = v, !.owedEntities = {i}]
    BY <1>1 DEF SpawnEntity
  <2>2. world' \in WorldType
    BY <1>0, <2>1
  <2> QED BY <1>0, <2>1, <2>2, OwedChange DEF Idle
<1>2. ASSUME NEW i \in Ids, NEW v \in Versions, UpdateEntity(i, v)
      PROVE  MailboxInv'
  <2> DEFINE w == IF world.entities[i] = Gone THEN Gone ELSE v
  <2>1. Idle /\ UNCHANGED <<mailbox, view, intact>>
        /\ world' = [world EXCEPT !.entities[i] = w, !.owedEntities = {i}]
    BY <1>2 DEF UpdateEntity
  <2>2. w \in Versions \cup {Gone}
    OBVIOUS
  <2> HIDE DEF w
  <2>3. world' \in WorldType
    BY <1>0, <2>1, <2>2
  <2> QED BY <1>0, <2>1, <2>3, OwedChange DEF Idle
<1>3. ASSUME NEW S \in SUBSET Ids, RemoveEntities(S)
      PROVE  MailboxInv'
  <2>1. Idle /\ UNCHANGED <<mailbox, view, intact>>
        /\ world' = [world EXCEPT !.entities = [i \in Ids |-> IF i \in S THEN Gone ELSE world.entities[i]],
                                  !.owedEntities = S]
    BY <1>3 DEF RemoveEntities
  <2>2. world' \in WorldType
    BY <1>0, <2>1
  <2> QED BY <1>0, <2>1, <2>2, OwedChange DEF Idle
<1>4. ASSUME NEW c \in Chunks, NEW v \in Versions \cup {Gone}, Idle,
             UNCHANGED <<mailbox, view, intact>>,
             world' = [world EXCEPT !.chunks[c] = v, !.owedChunks = {c}]
      PROVE  MailboxInv'
  <2>1. world' \in WorldType
    BY <1>0, <1>4
  <2> QED BY <1>0, <1>4, <2>1, OwedChange DEF Idle
<1>5. ASSUME NEW S \in SUBSET Chunks, NEW v \in Versions, EditChunks(S, v)
      PROVE  MailboxInv'
  <2>1. Idle /\ UNCHANGED <<mailbox, view, intact>>
        /\ world' = [world EXCEPT !.chunks = [c \in Chunks |-> IF c \in S THEN v ELSE world.chunks[c]],
                                  !.owedChunks = S]
    BY <1>5 DEF EditChunks
  <2>2. world' \in WorldType
    BY <1>0, <2>1
  <2> QED BY <1>0, <2>1, <2>2, OwedChange DEF Idle
<1>6. ASSUME ResetWorld PROVE MailboxInv'
  <2>1. world' = [world EXCEPT !.chunks = Empty(Chunks), !.entities = Empty(Ids),
                               !.owedReset = TRUE, !.seeded = FALSE]
        /\ Idle /\ UNCHANGED <<mailbox, view, intact>>
    BY <1>6 DEF ResetWorld
  <2>2. world' \in WorldType
    BY <1>0, <2>1
  <2>3. MailboxTypeOK'
    BY <2>1, <2>2 DEF MailboxInv, MailboxTypeOK
  <2>4. OwedResetEmpty'
    BY <1>0, <2>1 DEF OwedResetEmpty, Idle
  <2>5. IntactGeneration' /\ DirtyCovers'
    BY <2>1 DEF MailboxInv, IntactGeneration, DirtyCovers
  <2>6. PendingCompletesView'
    BY <1>0, <2>1 DEF PendingCompletesView
  <2> QED BY <2>3, <2>4, <2>5, <2>6 DEF MailboxInv
<1>7. ASSUME EndSession PROVE MailboxInv'
  <2>1. world' = [world EXCEPT !.running = FALSE] /\ UNCHANGED <<mailbox, view, intact>>
    BY <1>7 DEF EndSession
  <2>2. world' \in WorldType
    BY <1>0, <2>1
  <2>3. /\ world'.chunks = world.chunks /\ world'.entities = world.entities
        /\ world'.owedChunks = world.owedChunks /\ world'.owedEntities = world.owedEntities
        /\ world'.owedReset = world.owedReset
    BY <1>0, <2>1
  <2>4. MailboxTypeOK'
    BY <2>1, <2>2 DEF MailboxInv, MailboxTypeOK
  <2>5. OwedResetEmpty' /\ IntactGeneration' /\ DirtyCovers'
    BY <2>1, <2>3 DEF MailboxInv, OwedResetEmpty, IntactGeneration, DirtyCovers
  <2>6. PendingCompletesView'
    BY <2>1, <2>3 DEF MailboxInv, PendingCompletesView, PublishedChunks, PublishedEntities, Promised
  <2> QED BY <2>4, <2>5, <2>6 DEF MailboxInv
<1>8. ASSUME NEW c \in Chunks, NEW v \in Versions, LoadChunk(c, v) PROVE MailboxInv'
  BY <1>4, <1>8 DEF LoadChunk
<1>9. ASSUME NEW c \in Chunks, UnloadChunk(c) PROVE MailboxInv'
  BY <1>4, <1>9 DEF UnloadChunk
<1> QED
  BY <1>1, <1>2, <1>3, <1>5, <1>6, <1>7, <1>8, <1>9 DEF WorldStep

-----------------------------------------------------------------------------
(* Publications.                                                           *)

\* A publication is harmless when it settles what it claims to settle: what the
\* renderer is promised afterwards is the world, but for what is still owed.
LEMMA SettledPublication ==
  ASSUME MailboxInv, UNCHANGED <<view, intact>>,
         world' \in WorldType, mailbox' \in MailboxType,
         world'.chunks = world.chunks, world'.entities = world.entities,
         ~world'.owedReset, mailbox'.dirty,
         intact => mailbox'.reset \/ (~mailbox.reset /\ mailbox'.generation = mailbox.generation),
         PendingCompletesView'
  PROVE  MailboxInv'
<1>1. MailboxTypeOK'
  BY DEF MailboxInv, MailboxTypeOK
<1>2. OwedResetEmpty' /\ IntactGeneration' /\ DirtyCovers'
  BY DEF MailboxInv, OwedResetEmpty, IntactGeneration, DirtyCovers
<1> QED BY <1>1, <1>2 DEF MailboxInv

\* WorldRenderRunner::entity keeps the invariant, in all three of its cases: a full
\* snapshot is pending, the delta fits, or the deltas overflow into a snapshot.
LEMMA PublishEntityInv ==
  ASSUME MailboxInv, NEW i \in Ids, PublishEntity(i)
  PROVE  MailboxInv'
<1>0. world \in WorldType /\ mailbox \in MailboxType /\ view \in ViewType
  BY DEF MailboxInv, MailboxTypeOK
<1>1. /\ mailbox' = EntityDeltaInto(i)
      /\ world' = [world EXCEPT !.owedEntities = @ \ {i}]
      /\ UNCHANGED <<view, intact>>
      /\ i \in world.owedEntities
  BY DEF PublishEntity
<1>2. world' \in WorldType
  BY <1>0, <1>1
<1>3. /\ world'.chunks = world.chunks /\ world'.entities = world.entities
      /\ world'.owedChunks = world.owedChunks /\ world'.owedReset = world.owedReset
      /\ world'.owedEntities = world.owedEntities \ {i}
  BY <1>0, <1>1
<1>4. ~world.owedReset
  BY <1>1 DEF MailboxInv, OwedResetEmpty
<1>5. world.entities \in Store(Ids) /\ mailbox.replacement \in Store(Ids) \cup {Nothing}
  BY <1>0
<1>6. Nothing \notin Store(Ids)
  OBVIOUS
<1>7. ASSUME mailbox'.dirty, mailbox' \in MailboxType,
             mailbox'.reset = mailbox.reset, mailbox'.generation = mailbox.generation,
             mailbox'.chunks = mailbox.chunks,
             PublishedEntities'[i] = world.entities[i],
             \A j \in Ids : \/ PublishedEntities'[j] = world.entities[j]
                            \/ PublishedEntities'[j] = PublishedEntities[j]
      PROVE  MailboxInv'
  <2>1. PublishedChunks' = PublishedChunks
    BY <1>1, <1>7 DEF PublishedChunks, Promised
  <2>2. PendingCompletesView'
    BY <1>1, <1>3, <1>4, <1>7, <2>1 DEF MailboxInv, PendingCompletesView
  <2>3. intact => mailbox'.reset \/ (~mailbox.reset /\ mailbox'.generation = mailbox.generation)
    BY <1>0, <1>7
  <2> QED BY <1>1, <1>2, <1>3, <1>4, <1>7, <2>2, <2>3, SettledPublication
<1>8. CASE mailbox.replacement # Nothing
  <2>1. mailbox' = [mailbox EXCEPT !.replacement[i] = world.entities[i], !.dirty = TRUE]
    BY <1>1, <1>8 DEF EntityDeltaInto
  <2>2. mailbox.replacement \in Store(Ids)
    BY <1>5, <1>8
  <2>3. mailbox' \in MailboxType
    BY <1>0, <1>5, <2>1, <2>2
  <2>4. mailbox'.replacement = [mailbox.replacement EXCEPT ![i] = world.entities[i]]
        /\ mailbox'.replacement # Nothing
    BY <1>0, <1>5, <1>6, <2>1, <2>2
  <2>5. PublishedEntities = mailbox.replacement /\ PublishedEntities' = mailbox'.replacement
    BY <1>8, <2>4 DEF PublishedEntities
  <2>6. /\ mailbox'.dirty /\ mailbox'.reset = mailbox.reset /\ mailbox'.chunks = mailbox.chunks
        /\ mailbox'.generation = mailbox.generation
    BY <1>0, <2>1
  <2> QED BY <1>7, <2>2, <2>3, <2>4, <2>5, <2>6
<1>9. CASE /\ mailbox.replacement = Nothing
           /\ Cardinality(PendingEntities) < MaxRemoteEntities \/ i \in PendingEntities
  <2>1. mailbox' = [mailbox EXCEPT !.entities[i] = world.entities[i], !.dirty = TRUE]
    BY <1>1, <1>9 DEF EntityDeltaInto
  <2>2. mailbox' \in MailboxType
    BY <1>0, <2>1
  <2>3. /\ mailbox'.entities = [mailbox.entities EXCEPT ![i] = world.entities[i]]
        /\ mailbox'.replacement = Nothing
        /\ mailbox'.dirty /\ mailbox'.reset = mailbox.reset /\ mailbox'.chunks = mailbox.chunks
        /\ mailbox'.generation = mailbox.generation
    BY <1>0, <1>9, <2>1
  <2>4. /\ PublishedEntities = Promised(view.entities, mailbox.entities, Ids)
        /\ PublishedEntities' = Promised(view.entities, mailbox.entities, Ids)'
    BY <1>9, <2>3 DEF PublishedEntities
  <2>5. PublishedEntities'[i] = world.entities[i]
    BY <1>0, <2>3, <2>4 DEF Promised, Overlay
  <2>6. \A j \in Ids \ {i} : PublishedEntities'[j] = PublishedEntities[j]
    BY <1>0, <1>1, <2>3, <2>4 DEF Promised, Overlay
  <2> QED BY <1>7, <2>2, <2>3, <2>5, <2>6
<1>10. CASE /\ mailbox.replacement = Nothing
            /\ ~(Cardinality(PendingEntities) < MaxRemoteEntities \/ i \in PendingEntities)
  <2>1. mailbox' = [mailbox EXCEPT !.entities = Silent(Ids), !.replacement = world.entities,
                                   !.dirty = TRUE]
    BY <1>1, <1>10 DEF EntityDeltaInto
  <2>2. mailbox' \in MailboxType
    BY <1>0, <1>5, <2>1
  <2>3. /\ mailbox'.replacement = world.entities /\ mailbox'.replacement # Nothing
        /\ mailbox'.dirty /\ mailbox'.reset = mailbox.reset /\ mailbox'.chunks = mailbox.chunks
        /\ mailbox'.generation = mailbox.generation
    BY <1>0, <1>5, <1>6, <2>1
  <2>4. PublishedEntities' = world.entities
    BY <2>3 DEF PublishedEntities
  <2> QED BY <1>7, <2>2, <2>3, <2>4
<1> QED BY <1>8, <1>9, <1>10

\* WorldRenderRunner::load and unload keep the invariant.
LEMMA PublishChunkInv ==
  ASSUME MailboxInv, NEW c \in Chunks, PublishChunk(c)
  PROVE  MailboxInv'
<1>0. world \in WorldType /\ mailbox \in MailboxType /\ view \in ViewType
  BY DEF MailboxInv, MailboxTypeOK
<1>1. /\ mailbox' = [mailbox EXCEPT !.chunks[c] = world.chunks[c], !.dirty = TRUE]
      /\ world' = [world EXCEPT !.owedChunks = @ \ {c}]
      /\ UNCHANGED <<view, intact>>
      /\ c \in world.owedChunks
  BY DEF PublishChunk
<1>2. world' \in WorldType /\ mailbox' \in MailboxType
  BY <1>0, <1>1
<1>3. /\ world'.chunks = world.chunks /\ world'.entities = world.entities
      /\ world'.owedEntities = world.owedEntities /\ world'.owedReset = world.owedReset
      /\ world'.owedChunks = world.owedChunks \ {c}
  BY <1>0, <1>1
<1>4. /\ mailbox'.chunks = [mailbox.chunks EXCEPT ![c] = world.chunks[c]]
      /\ mailbox'.dirty /\ mailbox'.reset = mailbox.reset /\ mailbox'.entities = mailbox.entities
      /\ mailbox'.generation = mailbox.generation /\ mailbox'.replacement = mailbox.replacement
  BY <1>0, <1>1
<1>5. ~world.owedReset
  BY <1>1 DEF MailboxInv, OwedResetEmpty
<1>6. PublishedEntities' = PublishedEntities
  BY <1>1, <1>4 DEF PublishedEntities, Promised
<1>7. PublishedChunks'[c] = world.chunks[c]
  BY <1>0, <1>4 DEF PublishedChunks, Promised, Overlay
<1>8. \A d \in Chunks \ {c} : PublishedChunks'[d] = PublishedChunks[d]
  BY <1>0, <1>1, <1>4 DEF PublishedChunks, Promised, Overlay
<1>9. PendingCompletesView'
  BY <1>1, <1>3, <1>5, <1>6, <1>7, <1>8 DEF MailboxInv, PendingCompletesView
<1>10. intact => mailbox'.reset \/ (~mailbox.reset /\ mailbox'.generation = mailbox.generation)
  BY <1>0, <1>4
<1> QED BY <1>1, <1>2, <1>3, <1>4, <1>5, <1>9, <1>10, SettledPublication

\* WorldRenderRunner::reset keeps the invariant: it wipes every pending delta, and the
\* renderer will start from nothing.
LEMMA PublishResetInv ==
  ASSUME MailboxInv, NEW g \in GameModes, PublishReset(g)
  PROVE  MailboxInv'
<1>0. world \in WorldType /\ mailbox \in MailboxType /\ view \in ViewType
  BY DEF MailboxInv, MailboxTypeOK
<1>1. /\ mailbox' = ResetInto(g)
      /\ world' = [world EXCEPT !.owedReset = FALSE]
      /\ UNCHANGED <<view, intact>>
      /\ world.owedReset
  BY DEF PublishReset
<1>2. world' \in WorldType
  BY <1>0, <1>1
<1>3. mailbox' \in MailboxType
  <2>1. mailbox.generation + 1 \in Nat
    BY <1>0
  <2>2. Silent(Chunks) \in Deltas(Chunks) /\ Silent(Ids) \in Deltas(Ids)
    OBVIOUS
  <2> HIDE DEF Silent, Deltas
  <2> QED BY <1>0, <1>1, <2>1, <2>2 DEF ResetInto
<1>4. /\ world'.chunks = world.chunks /\ world'.entities = world.entities
      /\ ~world'.owedReset
  BY <1>0, <1>1
<1>5. world.chunks = Empty(Chunks) /\ world.entities = Empty(Ids)
  BY <1>1 DEF MailboxInv, OwedResetEmpty
<1>6. /\ mailbox'.reset /\ mailbox'.dirty /\ mailbox'.replacement = Nothing
      /\ mailbox'.chunks = Silent(Chunks) /\ mailbox'.entities = Silent(Ids)
  BY <1>0, <1>1 DEF ResetInto
<1>7. PublishedChunks' = Empty(Chunks) /\ PublishedEntities' = Empty(Ids)
  BY <1>6 DEF PublishedChunks, PublishedEntities, Promised, Overlay
<1>8. PendingCompletesView'
  BY <1>4, <1>5, <1>7 DEF PendingCompletesView
<1> QED BY <1>1, <1>2, <1>3, <1>4, <1>6, <1>8, SettledPublication

\* Pose, target, game mode and inventory touch neither terrain nor entities.
LEMMA SidePublication ==
  ASSUME MailboxInv, UNCHANGED <<view, intact>>,
         world' \in WorldType, mailbox' \in MailboxType, mailbox'.dirty,
         mailbox'.reset = mailbox.reset, mailbox'.generation = mailbox.generation,
         mailbox'.chunks = mailbox.chunks, mailbox'.entities = mailbox.entities,
         mailbox'.replacement = mailbox.replacement,
         world'.chunks = world.chunks, world'.entities = world.entities,
         world'.owedChunks = world.owedChunks, world'.owedEntities = world.owedEntities,
         world'.owedReset = world.owedReset
  PROVE  MailboxInv'
<1>1. MailboxTypeOK'
  BY DEF MailboxInv, MailboxTypeOK
<1>2. OwedResetEmpty' /\ IntactGeneration' /\ DirtyCovers'
  BY DEF MailboxInv, OwedResetEmpty, IntactGeneration, DirtyCovers
<1>3. PublishedChunks' = PublishedChunks /\ PublishedEntities' = PublishedEntities
  BY DEF PublishedChunks, PublishedEntities, Promised
<1>4. PendingCompletesView'
  BY <1>3 DEF MailboxInv, PendingCompletesView
<1> QED BY <1>1, <1>2, <1>4 DEF MailboxInv

\* Every publication keeps the invariant.
LEMMA PublishStepInv == MailboxInv /\ PublishStep => MailboxInv'
<1> SUFFICES ASSUME MailboxInv, PublishStep PROVE MailboxInv'
  OBVIOUS
<1>0. world \in WorldType /\ mailbox \in MailboxType
  BY DEF MailboxInv, MailboxTypeOK
<1>1. ASSUME PoseTick PROVE MailboxInv'
  <2>1. mailbox' = PoseInto(world.snaps, FALSE) /\ UNCHANGED <<world, view, intact>>
    BY <1>1 DEF PoseTick
  <2>2. mailbox' \in MailboxType
    BY <1>0, <2>1 DEF PoseInto
  <2>3. /\ mailbox'.dirty /\ mailbox'.reset = mailbox.reset
        /\ mailbox'.generation = mailbox.generation /\ mailbox'.chunks = mailbox.chunks
        /\ mailbox'.entities = mailbox.entities /\ mailbox'.replacement = mailbox.replacement
    BY <1>0, <2>1 DEF PoseInto
  <2> QED BY <1>0, <2>1, <2>2, <2>3, SidePublication
<1>2. ASSUME PoseDiscontinuity PROVE MailboxInv'
  <2>1. /\ mailbox' = PoseInto(world.snaps + 1, TRUE) /\ UNCHANGED <<view, intact>>
        /\ world' = [world EXCEPT !.snaps = @ + 1, !.seeded = TRUE]
        /\ world.snaps < MaxSnaps
    BY <1>2 DEF PoseDiscontinuity
  <2>2. world.snaps + 1 \in 0..MaxSnaps
    BY <1>0, <2>1
  <2>3. mailbox' \in MailboxType
    BY <1>0, <2>1, <2>2 DEF PoseInto
  <2>4. world' \in WorldType
    BY <1>0, <2>1, <2>2
  <2>5. /\ mailbox'.dirty /\ mailbox'.reset = mailbox.reset
        /\ mailbox'.generation = mailbox.generation /\ mailbox'.chunks = mailbox.chunks
        /\ mailbox'.entities = mailbox.entities /\ mailbox'.replacement = mailbox.replacement
    BY <1>0, <2>1 DEF PoseInto
  <2>6. /\ world'.chunks = world.chunks /\ world'.entities = world.entities
        /\ world'.owedChunks = world.owedChunks /\ world'.owedEntities = world.owedEntities
        /\ world'.owedReset = world.owedReset
    BY <1>0, <2>1
  <2> QED BY <2>1, <2>3, <2>4, <2>5, <2>6, SidePublication
<1>3. ASSUME NEW t \in Targets \cup {Nothing}, PublishTarget(t) PROVE MailboxInv'
  <2>1. mailbox' = [mailbox EXCEPT !.target = t, !.dirty = TRUE] /\ UNCHANGED <<world, view, intact>>
    BY <1>3 DEF PublishTarget
  <2>2. mailbox' \in MailboxType
    BY <1>0, <2>1
  <2> QED BY <1>0, <2>1, <2>2, SidePublication
<1>4. ASSUME NEW g \in GameModes, PublishGameMode(g) PROVE MailboxInv'
  <2>1. mailbox' = [mailbox EXCEPT !.gameMode = g, !.dirty = TRUE] /\ UNCHANGED <<world, view, intact>>
    BY <1>4 DEF PublishGameMode
  <2>2. mailbox' \in MailboxType
    BY <1>0, <2>1
  <2> QED BY <1>0, <2>1, <2>2, SidePublication
<1>5. ASSUME NEW v \in Versions, PublishInventory(v) PROVE MailboxInv'
  <2>1. mailbox' = [mailbox EXCEPT !.inventory = v, !.dirty = TRUE] /\ UNCHANGED <<world, view, intact>>
    BY <1>5 DEF PublishInventory
  <2>2. mailbox' \in MailboxType
    BY <1>0, <2>1
  <2> QED BY <1>0, <2>1, <2>2, SidePublication
<1> QED
  BY <1>1, <1>2, <1>3, <1>4, <1>5, PublishEntityInv, PublishChunkInv, PublishResetInv
  DEF PublishStep

-----------------------------------------------------------------------------
(* The render thread.                                                      *)

\* What the mailbox promises an intact renderer is what taking it delivers.
LEMMA DeliversPromise ==
  ASSUME MailboxInv, intact
  PROVE  /\ AppliedChunks(mailbox, view) = PublishedChunks
         /\ AppliedEntities(mailbox, view) = PublishedEntities
<1>1. Starts(mailbox, view) <=> mailbox.reset
  BY DEF MailboxInv, IntactGeneration, Starts
<1> QED
  BY <1>1 DEF AppliedChunks, AppliedEntities, PublishedChunks, PublishedEntities, Promised

\* A renderer that starts afresh takes the whole of a reset update.
LEMMA DeliversReset ==
  ASSUME mailbox.reset
  PROVE  /\ AppliedChunks(mailbox, view) = PublishedChunks
         /\ AppliedEntities(mailbox, view) = PublishedEntities
  BY DEF Starts, AppliedChunks, AppliedEntities, PublishedChunks, PublishedEntities, Promised

\* What an update is applied to stays well-typed (WorldRenderer::apply).
LEMMA AppliedTypes ==
  ASSUME mailbox \in MailboxType, view \in ViewType
  PROVE  /\ AppliedChunks(mailbox, view) \in Store(Chunks)
         /\ AppliedEntities(mailbox, view) \in Store(Ids)
         /\ AppliedPose(mailbox, view) \in [previous : 0..MaxSnaps, current : 0..MaxSnaps] \cup {Nothing}
<1>1. AppliedChunks(mailbox, view) \in Store(Chunks)
  <2>1. mailbox.chunks \in Deltas(Chunks) /\ view.chunks \in Store(Chunks)
    OBVIOUS
  <2> QED BY <2>1 DEF AppliedChunks, Overlay
<1>2. AppliedEntities(mailbox, view) \in Store(Ids)
  <2>1. mailbox.entities \in Deltas(Ids) /\ view.entities \in Store(Ids)
        /\ mailbox.replacement \in Store(Ids) \cup {Nothing}
    OBVIOUS
  <2> QED BY <2>1 DEF AppliedEntities, Overlay
<1>3. AppliedPose(mailbox, view) \in [previous : 0..MaxSnaps, current : 0..MaxSnaps] \cup {Nothing}
  BY DEF AppliedPose, Presented
<1> QED BY <1>1, <1>2, <1>3

\* take_update followed by apply keeps the invariant: the renderer becomes what it was
\* promised.
LEMMA TakeUpdateInv == MailboxInv /\ TakeUpdate => MailboxInv'
<1> SUFFICES ASSUME MailboxInv, TakeUpdate PROVE MailboxInv'
  OBVIOUS
<1>0. world \in WorldType /\ mailbox \in MailboxType /\ view \in ViewType /\ intact \in BOOLEAN
  BY DEF MailboxInv, MailboxTypeOK
<1>1. /\ mailbox' = Taken(mailbox)
      /\ view' = Integrated(mailbox, view)
      /\ intact' = (view.present /\ (intact \/ mailbox.reset))
      /\ world' = world
  BY DEF TakeUpdate
<1>2. mailbox' \in MailboxType
  <2>1. Silent(Chunks) \in Deltas(Chunks) /\ Silent(Ids) \in Deltas(Ids)
    OBVIOUS
  <2> HIDE DEF Silent, Deltas
  <2> QED BY <1>0, <1>1, <2>1 DEF Taken
<1>3. /\ ~mailbox'.dirty /\ ~mailbox'.reset /\ mailbox'.replacement = Nothing
      /\ mailbox'.chunks = Silent(Chunks) /\ mailbox'.entities = Silent(Ids)
      /\ mailbox'.generation = mailbox.generation /\ mailbox'.target = mailbox.target
  BY <1>0, <1>1 DEF Taken
<1>4. view' \in ViewType
  <2> DEFINE held == IF mailbox.inventory = Nothing THEN view.inventory ELSE mailbox.inventory
             mode == IF mailbox.gameMode = Nothing THEN view.gameMode ELSE mailbox.gameMode
             overlay == [view EXCEPT !.inventory = held, !.gameMode = mode]
  <2>1. overlay \in ViewType
    <3>1. held \in Versions \cup {Nothing} /\ mode \in GameModes \cup {Nothing}
      BY <1>0
    <3> HIDE DEF held, mode
    <3> QED BY <1>0, <3>1
  <2>2. view' = IF ~view.present THEN overlay
                ELSE [overlay EXCEPT !.generation = mailbox.generation,
                                     !.chunks = AppliedChunks(mailbox, view),
                                     !.entities = AppliedEntities(mailbox, view),
                                     !.pose = AppliedPose(mailbox, view),
                                     !.target = mailbox.target]
    BY <1>1 DEF Integrated
  <2>3. mailbox.generation \in Nat /\ mailbox.target \in Targets \cup {Nothing}
    BY <1>0
  <2> HIDE DEF overlay, Store
  <2> QED BY <1>0, <2>1, <2>2, <2>3, AppliedTypes
<1>5. intact' => /\ view'.present /\ view'.generation = mailbox.generation
                 /\ view'.target = mailbox.target
                 /\ view'.chunks = AppliedChunks(mailbox, view)
                 /\ view'.entities = AppliedEntities(mailbox, view)
  BY <1>0, <1>1 DEF Integrated
<1>6. intact' => view'.chunks = PublishedChunks /\ view'.entities = PublishedEntities
  BY <1>0, <1>1, <1>5, DeliversPromise, DeliversReset
<1>7. MailboxTypeOK'
  BY <1>0, <1>1, <1>2, <1>4 DEF MailboxTypeOK
<1>8. OwedResetEmpty' /\ IntactGeneration' /\ DirtyCovers'
  BY <1>1, <1>3, <1>5 DEF MailboxInv, OwedResetEmpty, IntactGeneration, DirtyCovers
<1>9. PublishedChunks' = view'.chunks /\ PublishedEntities' = view'.entities
  BY <1>3, <1>4 DEF PublishedChunks, PublishedEntities, Promised, Overlay
<1>10. PendingCompletesView'
  <2>1. intact' /\ ~world.owedReset =>
          /\ \A c \in Chunks \ world.owedChunks : PublishedChunks[c] = world.chunks[c]
          /\ \A i \in Ids \ world.owedEntities : PublishedEntities[i] = world.entities[i]
    BY <1>1 DEF MailboxInv, PendingCompletesView
  <2>2. intact' => PublishedChunks' = PublishedChunks /\ PublishedEntities' = PublishedEntities
    BY <1>6, <1>9
  <2> QED BY <1>1, <1>3, <2>1, <2>2 DEF PendingCompletesView
<1> QED BY <1>7, <1>8, <1>10 DEF MailboxInv

\* Taking, suspending and resuming keep the invariant.
LEMMA RenderStepInv == MailboxInv /\ RenderStep => MailboxInv'
<1> SUFFICES ASSUME MailboxInv, RenderStep PROVE MailboxInv'
  OBVIOUS
<1>0. view \in ViewType
  BY DEF MailboxInv, MailboxTypeOK
<1>1. ASSUME Suspend PROVE MailboxInv'
  <2>1. /\ view' = [view EXCEPT !.present = FALSE, !.generation = 0, !.chunks = Empty(Chunks),
                                !.entities = Empty(Ids), !.pose = Nothing, !.target = Nothing]
        /\ intact' = FALSE /\ UNCHANGED <<world, mailbox>>
    BY <1>1 DEF Suspend
  <2>2. view' \in ViewType
    <3>1. Empty(Chunks) \in Store(Chunks) /\ Empty(Ids) \in Store(Ids)
      OBVIOUS
    <3> HIDE DEF Empty, Store
    <3> QED BY <1>0, <2>1, <3>1
  <2>3. MailboxTypeOK'
    BY <2>1, <2>2 DEF MailboxInv, MailboxTypeOK
  <2>4. OwedResetEmpty' /\ IntactGeneration' /\ DirtyCovers'
    BY <2>1 DEF MailboxInv, OwedResetEmpty, IntactGeneration, DirtyCovers
  <2>5. mailbox.reset => PublishedChunks' = PublishedChunks /\ PublishedEntities' = PublishedEntities
    BY <2>1 DEF PublishedChunks, PublishedEntities, Promised
  <2>6. PendingCompletesView'
    BY <2>1, <2>5 DEF MailboxInv, PendingCompletesView
  <2> QED BY <2>3, <2>4, <2>6 DEF MailboxInv
<1>2. ASSUME Resume PROVE MailboxInv'
  <2>1. /\ view' = [view EXCEPT !.present = TRUE]
        /\ UNCHANGED <<world, mailbox, intact>> /\ ~view.present
    BY <1>2 DEF Resume
  <2>2. view' \in ViewType
    BY <1>0, <2>1
  <2>3. view'.chunks = view.chunks /\ view'.entities = view.entities
    BY <1>0, <2>1
  <2>4. ~intact
    BY <2>1 DEF MailboxInv, IntactGeneration
  <2>5. MailboxTypeOK'
    BY <2>1, <2>2 DEF MailboxInv, MailboxTypeOK
  <2>6. OwedResetEmpty' /\ IntactGeneration' /\ DirtyCovers'
    BY <2>1, <2>4 DEF MailboxInv, OwedResetEmpty, IntactGeneration, DirtyCovers
  <2>7. PublishedChunks' = PublishedChunks /\ PublishedEntities' = PublishedEntities
    BY <2>1, <2>3 DEF PublishedChunks, PublishedEntities, Promised
  <2>8. PendingCompletesView'
    BY <2>1, <2>7 DEF MailboxInv, PendingCompletesView
  <2> QED BY <2>5, <2>6, <2>8 DEF MailboxInv
<1> QED BY <1>1, <1>2, TakeUpdateInv DEF RenderStep

\* The inductive invariant holds in every reachable state, whatever the sets of
\* chunks, entities and contents, the entity cap and the bounds are.
THEOREM MailboxInductive == MailboxSpec => []MailboxInv
<1>1. MailboxInv /\ UNCHANGED mailboxVars => MailboxInv'
  BY DEF MailboxInv, mailboxVars, MailboxTypeOK, OwedResetEmpty, IntactGeneration, DirtyCovers,
     PendingCompletesView, PublishedChunks, PublishedEntities, Promised
<1>2. MailboxInv /\ [MailboxNext]_mailboxVars => MailboxInv'
  BY <1>1, WorldStepInv, PublishStepInv, RenderStepInv DEF MailboxNext
<1> QED BY MailboxInitInv, <1>2, PTL DEF MailboxSpec

\* Type correctness of the mailbox and of both of its ends.
THEOREM MailboxTypes == MailboxSpec => []MailboxTypeOK
<1>1. MailboxInv => MailboxTypeOK
  BY DEF MailboxInv
<1> QED BY <1>1, MailboxInductive, PTL

\* What the renderer shows overlaid with what is pending is the network task's
\* world, but for what the task still owes.
THEOREM NothingLost == MailboxSpec => []PendingCompletesView
<1>1. MailboxInv => PendingCompletesView
  BY DEF MailboxInv
<1> QED BY <1>1, MailboxInductive, PTL

\* With an empty mailbox and nothing owed, the renderer shows exactly the
\* network task's world.
THEOREM UpToDate == MailboxSpec => []CleanMeansCurrent
<1>1. MailboxInv => CleanMeansCurrent
  <2> SUFFICES ASSUME MailboxInv, intact, ~mailbox.dirty, Idle
               PROVE  /\ view.chunks = world.chunks /\ view.entities = world.entities
                      /\ view.target = mailbox.target
    BY DEF CleanMeansCurrent
  <2>1. world.chunks \in Store(Chunks) /\ world.entities \in Store(Ids)
        /\ view.chunks \in Store(Chunks) /\ view.entities \in Store(Ids)
    BY DEF MailboxInv, MailboxTypeOK
  <2>2. PublishedChunks = view.chunks /\ PublishedEntities = view.entities
    BY <2>1 DEF MailboxInv, DirtyCovers, PublishedChunks, PublishedEntities, Promised, Overlay
  <2>3. /\ \A c \in Chunks : view.chunks[c] = world.chunks[c]
        /\ \A i \in Ids : view.entities[i] = world.entities[i]
    BY <2>2 DEF MailboxInv, Idle, PendingCompletesView
  <2> QED BY <2>1, <2>3 DEF MailboxInv, DirtyCovers
<1> QED BY <1>1, MailboxInductive, PTL

-----------------------------------------------------------------------------
(* The bound on what is pending, the camera and the overlay.               *)

\* A renderer that is not there shows nothing; one of another generation has been
\* shown nothing yet, unless the reset that will empty it is still pending.
RendererSound ==
  /\ ~view.present => /\ view.chunks = Empty(Chunks) /\ view.entities = Empty(Ids)
                      /\ view.pose = Nothing
  /\ \/ mailbox.reset \/ view.generation = mailbox.generation
     \/ view.chunks = Empty(Chunks) /\ view.entities = Empty(Ids)

\* Every sample pending is the newest; one that is not marked as a discontinuity
\* continues the sample the camera is at, and with nothing pending the camera is at
\* the newest sample.
PoseSound ==
  /\ mailbox.pose # Nothing =>
       /\ mailbox.pose.snap = world.snaps
       /\ view.pose # Nothing /\ ~mailbox.reset /\ ~mailbox.pose.discontinuity =>
            view.pose.current = mailbox.pose.snap
  /\ mailbox.pose = Nothing /\ view.pose # Nothing /\ ~mailbox.reset /\ world.seeded =>
       view.pose.current = world.snaps

\* The inductive invariant behind PendingBounded and PresentationSound.
PInv == /\ RendererSound
        /\ PendingBounded
        /\ PoseSound
        /\ PresentationSound

\* What a step does that only the network task sees.
LEMMA WorldStepOnly ==
  ASSUME MailboxTypeOK, WorldStep
  PROVE  /\ UNCHANGED <<mailbox, view, intact>>
         /\ world'.snaps = world.snaps /\ world'.seeded \in {world.seeded, FALSE}
<1>1. world \in WorldType
  BY DEF MailboxTypeOK
<1>2. ASSUME NEW i \in Ids, NEW v \in Versions, SpawnEntity(i, v) \/ UpdateEntity(i, v)
      PROVE  UNCHANGED <<mailbox, view, intact>> /\ world'.snaps = world.snaps /\ world'.seeded = world.seeded
  BY <1>1, <1>2 DEF SpawnEntity, UpdateEntity
<1>3. ASSUME NEW S, RemoveEntities(S)
      PROVE  UNCHANGED <<mailbox, view, intact>> /\ world'.snaps = world.snaps /\ world'.seeded = world.seeded
  BY <1>1, <1>3 DEF RemoveEntities
<1>4. ASSUME NEW c \in Chunks, NEW v \in Versions, LoadChunk(c, v)
      PROVE  UNCHANGED <<mailbox, view, intact>> /\ world'.snaps = world.snaps /\ world'.seeded = world.seeded
  BY <1>1, <1>4 DEF LoadChunk
<1>5. ASSUME NEW S, NEW v, EditChunks(S, v)
      PROVE  UNCHANGED <<mailbox, view, intact>> /\ world'.snaps = world.snaps /\ world'.seeded = world.seeded
  BY <1>1, <1>5 DEF EditChunks
<1>6. ASSUME ResetWorld \/ EndSession
      PROVE  /\ UNCHANGED <<mailbox, view, intact>>
             /\ world'.snaps = world.snaps /\ world'.seeded \in {world.seeded, FALSE}
  BY <1>1, <1>6 DEF ResetWorld, EndSession
<1>7. ASSUME NEW c \in Chunks, UnloadChunk(c)
      PROVE  UNCHANGED <<mailbox, view, intact>> /\ world'.snaps = world.snaps /\ world'.seeded = world.seeded
  BY <1>1, <1>7 DEF UnloadChunk
<1> QED BY <1>2, <1>3, <1>4, <1>5, <1>6, <1>7 DEF WorldStep

\* No publication touches the renderer.
LEMMA PublishStepOnly ==
  ASSUME PublishStep
  PROVE  UNCHANGED <<view, intact>>
  BY DEF PublishStep, PublishEntity, PublishChunk, PublishReset, PoseTick, PoseDiscontinuity,
         PublishTarget, PublishGameMode, PublishInventory

\* A publication announces itself, and leaves reset, generation and what is known of the
\* sample alone unless it is one of these.
LEMMA PublicationMarks ==
  ASSUME MailboxInv, PublishStep
  PROVE  /\ mailbox'.dirty
         /\ \/ mailbox'.reset /\ mailbox'.pose = Nothing
            \/ mailbox'.reset = mailbox.reset /\ mailbox'.generation = mailbox.generation
<1>0. world \in WorldType /\ mailbox \in MailboxType
  BY DEF MailboxInv, MailboxTypeOK
<1>1. ASSUME NEW i \in Ids, PublishEntity(i)
      PROVE  mailbox'.dirty /\ mailbox'.reset = mailbox.reset /\ mailbox'.generation = mailbox.generation
  BY <1>0, <1>1 DEF PublishEntity, EntityDeltaInto
<1>2. ASSUME NEW c \in Chunks, PublishChunk(c)
      PROVE  mailbox'.dirty /\ mailbox'.reset = mailbox.reset /\ mailbox'.generation = mailbox.generation
  BY <1>0, <1>2 DEF PublishChunk
<1>3. ASSUME NEW g \in GameModes, PublishReset(g)
      PROVE  mailbox'.dirty /\ mailbox'.reset /\ mailbox'.pose = Nothing
  BY <1>0, <1>3 DEF PublishReset, ResetInto
<1>4. ASSUME PoseTick \/ PoseDiscontinuity
      PROVE  mailbox'.dirty /\ mailbox'.reset = mailbox.reset /\ mailbox'.generation = mailbox.generation
  <2>1. PICK snap, discontinuity : mailbox' = PoseInto(snap, discontinuity)
    BY <1>4 DEF PoseTick, PoseDiscontinuity
  <2> QED BY <1>0, <2>1 DEF PoseInto
<1>5. ASSUME NEW t, PublishTarget(t) \/ PublishGameMode(t) \/ PublishInventory(t)
      PROVE  mailbox'.dirty /\ mailbox'.reset = mailbox.reset /\ mailbox'.generation = mailbox.generation
  <2>1. \/ mailbox' = [mailbox EXCEPT !.target = t, !.dirty = TRUE]
        \/ mailbox' = [mailbox EXCEPT !.gameMode = t, !.dirty = TRUE]
        \/ mailbox' = [mailbox EXCEPT !.inventory = t, !.dirty = TRUE]
    BY <1>5 DEF PublishTarget, PublishGameMode, PublishInventory
  <2>2. CASE mailbox' = [mailbox EXCEPT !.target = t, !.dirty = TRUE]
    BY <1>0, <2>2
  <2>3. CASE mailbox' = [mailbox EXCEPT !.gameMode = t, !.dirty = TRUE]
    BY <1>0, <2>3
  <2>4. CASE mailbox' = [mailbox EXCEPT !.inventory = t, !.dirty = TRUE]
    BY <1>0, <2>4
  <2> QED BY <2>1, <2>2, <2>3, <2>4
<1> QED BY <1>1, <1>2, <1>3, <1>4, <1>5 DEF PublishStep

\* What taking an update does to the fields the properties below are about.
LEMMA TakeEffect ==
  ASSUME MailboxInv, TakeUpdate
  PROVE  /\ world' = world /\ mailbox.dirty
         /\ ~mailbox'.dirty /\ ~mailbox'.reset /\ mailbox'.pose = Nothing /\ mailbox'.inventory = Nothing
         /\ mailbox'.entities = Silent(Ids) /\ mailbox'.replacement = Nothing
         /\ mailbox'.generation = mailbox.generation /\ mailbox'.gameMode = mailbox.gameMode
         /\ view'.present = view.present
         /\ view'.gameMode = IF mailbox.gameMode = Nothing THEN view.gameMode ELSE mailbox.gameMode
         /\ ~view.present => /\ view'.chunks = view.chunks /\ view'.entities = view.entities
                             /\ view'.pose = view.pose /\ view'.generation = view.generation
         /\ view.present => /\ view'.chunks = AppliedChunks(mailbox, view)
                            /\ view'.entities = AppliedEntities(mailbox, view)
                            /\ view'.pose = AppliedPose(mailbox, view)
                            /\ view'.generation = mailbox.generation
<1>0. mailbox \in MailboxType /\ view \in ViewType
  BY DEF MailboxInv, MailboxTypeOK
<1>1. mailbox' = Taken(mailbox) /\ view' = Integrated(mailbox, view) /\ world' = world /\ mailbox.dirty
  BY DEF TakeUpdate
<1>2. /\ ~mailbox'.dirty /\ ~mailbox'.reset /\ mailbox'.pose = Nothing /\ mailbox'.inventory = Nothing
      /\ mailbox'.entities = Silent(Ids) /\ mailbox'.replacement = Nothing
      /\ mailbox'.generation = mailbox.generation /\ mailbox'.gameMode = mailbox.gameMode
  BY <1>0, <1>1 DEF Taken
<1>3. /\ view'.present = view.present
      /\ view'.gameMode = IF mailbox.gameMode = Nothing THEN view.gameMode ELSE mailbox.gameMode
  BY <1>0, <1>1 DEF Integrated
<1>4. ~view.present => /\ view'.chunks = view.chunks /\ view'.entities = view.entities
                       /\ view'.pose = view.pose /\ view'.generation = view.generation
  BY <1>0, <1>1 DEF Integrated
<1>5. view.present => /\ view'.chunks = AppliedChunks(mailbox, view)
                      /\ view'.entities = AppliedEntities(mailbox, view)
                      /\ view'.pose = AppliedPose(mailbox, view)
                      /\ view'.generation = mailbox.generation
  BY <1>0, <1>1 DEF Integrated
<1> QED BY <1>1, <1>2, <1>3, <1>4, <1>5

\* ApplicationHandler::suspended and ::resumed.
LEMMA WindowEffect ==
  ASSUME MailboxInv, Suspend \/ Resume
  PROVE  /\ UNCHANGED <<world, mailbox>> /\ view'.gameMode = view.gameMode
         /\ \/ /\ view'.chunks = Empty(Chunks) /\ view'.entities = Empty(Ids) /\ view'.pose = Nothing
            \/ /\ view'.chunks = view.chunks /\ view'.entities = view.entities
               /\ view'.pose = view.pose /\ view'.generation = view.generation /\ view'.present
<1>0. view \in ViewType
  BY DEF MailboxInv, MailboxTypeOK
<1>1. CASE Suspend
  BY <1>0, <1>1 DEF Suspend
<1>2. CASE Resume
  BY <1>0, <1>2 DEF Resume
<1> QED BY <1>1, <1>2

LEMMA RendererSoundStep == MailboxInv /\ RendererSound /\ MailboxNext => RendererSound'
<1> SUFFICES ASSUME MailboxInv, RendererSound, MailboxNext PROVE RendererSound'
  OBVIOUS
<1>1. CASE WorldStep
  BY <1>1, WorldStepOnly DEF MailboxInv, RendererSound
<1>2. CASE PublishStep
  BY <1>2, PublishStepOnly, PublicationMarks DEF RendererSound
<1>3. CASE TakeUpdate
  BY <1>3, TakeEffect DEF RendererSound
<1>4. CASE Suspend \/ Resume
  BY <1>4, WindowEffect DEF RendererSound
<1> QED BY <1>1, <1>2, <1>3, <1>4 DEF MailboxNext, RenderStep

\* Counting the pending deltas before a publication keeps them within the cap
\* (WorldRenderRunner::entity).
LEMMA PendingBoundedStep == MailboxInv /\ PendingBounded /\ MailboxNext => PendingBounded'
<1> SUFFICES ASSUME MailboxInv, PendingBounded, MailboxNext PROVE PendingBounded'
  OBVIOUS
<1>0. world \in WorldType /\ mailbox \in MailboxType
  BY DEF MailboxInv, MailboxTypeOK
<1>1. ASSUME mailbox'.entities = mailbox.entities, mailbox'.replacement = mailbox.replacement
      PROVE  PendingBounded'
  BY <1>1 DEF PendingBounded, PendingEntities
<1>2. ASSUME mailbox'.entities = Silent(Ids) PROVE PendingBounded'
  <2>1. PendingEntities' = {}
    BY <1>2 DEF PendingEntities
  <2> QED BY <2>1, FS_EmptySet DEF PendingBounded
<1>3. ASSUME NEW i \in Ids, PublishEntity(i) PROVE PendingBounded'
  <2>1. mailbox' = EntityDeltaInto(i)
    BY <1>3 DEF PublishEntity
  <2>2. CASE mailbox.replacement # Nothing
    <3>1. mailbox'.entities = mailbox.entities
      BY <1>0, <2>1, <2>2 DEF EntityDeltaInto
    <3> QED BY <3>1, <2>2 DEF PendingBounded, PendingEntities
  <2>3. CASE /\ mailbox.replacement = Nothing
             /\ Cardinality(PendingEntities) < MaxRemoteEntities \/ i \in PendingEntities
    <3>1. /\ mailbox'.entities = [mailbox.entities EXCEPT ![i] = world.entities[i]]
          /\ mailbox'.replacement = Nothing
      BY <1>0, <2>1, <2>3 DEF EntityDeltaInto
    <3>2. world.entities[i] # NoDelta
      BY <1>0
    <3>3. PendingEntities' = PendingEntities \cup {i}
      BY <1>0, <3>1, <3>2 DEF PendingEntities
    <3>4. IsFiniteSet(PendingEntities)
      BY FS_Subset DEF PendingEntities
    <3>5. Cardinality(PendingEntities) \in Nat
      BY <3>4, FS_CardinalityType
    <3>6. Cardinality(PendingEntities') <= MaxRemoteEntities
      <4>1. CASE i \in PendingEntities
        BY <3>3, <4>1 DEF PendingBounded
      <4>2. CASE i \notin PendingEntities
        <5>1. Cardinality(PendingEntities') = Cardinality(PendingEntities) + 1
          BY <3>3, <3>4, <4>2, FS_AddElement
        <5> QED BY <2>3, <3>5, <4>2, <5>1
      <4> QED BY <4>1, <4>2
    <3> QED BY <3>1, <3>6 DEF PendingBounded
  <2>4. CASE /\ mailbox.replacement = Nothing
             /\ ~(Cardinality(PendingEntities) < MaxRemoteEntities \/ i \in PendingEntities)
    <3>1. mailbox'.entities = Silent(Ids)
      BY <1>0, <2>1, <2>4 DEF EntityDeltaInto
    <3> QED BY <1>2, <3>1
  <2> QED BY <2>2, <2>3, <2>4
<1>4. ASSUME NEW g \in GameModes, PublishReset(g) PROVE PendingBounded'
  <2>1. mailbox'.entities = Silent(Ids)
    BY <1>0, <1>4 DEF PublishReset, ResetInto
  <2> QED BY <1>2, <2>1
<1>5. CASE TakeUpdate
  BY <1>2, <1>5, TakeEffect
<1>6. ASSUME NEW c \in Chunks, PublishChunk(c) PROVE PendingBounded'
  BY <1>0, <1>1, <1>6 DEF PublishChunk
<1>7. CASE PoseTick \/ PoseDiscontinuity
  <2>1. PICK snap, discontinuity : mailbox' = PoseInto(snap, discontinuity)
    BY <1>7 DEF PoseTick, PoseDiscontinuity
  <2>2. mailbox'.entities = mailbox.entities /\ mailbox'.replacement = mailbox.replacement
    BY <1>0, <2>1 DEF PoseInto
  <2> QED BY <1>1, <2>2
<1>8. ASSUME NEW t, PublishTarget(t) \/ PublishGameMode(t) \/ PublishInventory(t) PROVE PendingBounded'
  <2>1. \/ mailbox' = [mailbox EXCEPT !.target = t, !.dirty = TRUE]
        \/ mailbox' = [mailbox EXCEPT !.gameMode = t, !.dirty = TRUE]
        \/ mailbox' = [mailbox EXCEPT !.inventory = t, !.dirty = TRUE]
    BY <1>8 DEF PublishTarget, PublishGameMode, PublishInventory
  <2>2. CASE mailbox' = [mailbox EXCEPT !.target = t, !.dirty = TRUE]
    BY <1>0, <1>1, <2>2
  <2>3. CASE mailbox' = [mailbox EXCEPT !.gameMode = t, !.dirty = TRUE]
    BY <1>0, <1>1, <2>3
  <2>4. CASE mailbox' = [mailbox EXCEPT !.inventory = t, !.dirty = TRUE]
    BY <1>0, <1>1, <2>4
  <2> QED BY <2>1, <2>2, <2>3, <2>4
<1>9. CASE WorldStep
  BY <1>1, <1>9, WorldStepOnly DEF MailboxInv
<1>10. CASE Suspend \/ Resume
  BY <1>1, <1>10 DEF Suspend, Resume
<1> QED BY <1>3, <1>4, <1>5, <1>6, <1>7, <1>8, <1>9, <1>10 DEF MailboxNext, PublishStep, RenderStep

\* set_pose keeps the samples in step: the one given is the newest, and unless it is a
\* discontinuity it continues the world the camera is in.
LEMMA PoseIntoSound ==
  ASSUME MailboxInv, PoseSound, NEW snap \in 0..MaxSnaps, NEW discontinuity \in BOOLEAN,
         mailbox' = PoseInto(snap, discontinuity), view' = view, world'.snaps = snap,
         ~discontinuity => world.seeded /\ world.snaps = snap
  PROVE  PoseSound'
<1>0. mailbox \in MailboxType
  BY DEF MailboxInv, MailboxTypeOK
<1> DEFINE kept == discontinuity \/ (mailbox.pose # Nothing /\ mailbox.pose.discontinuity)
<1>1. kept \in BOOLEAN
  OBVIOUS
<1>2. ~kept => ~discontinuity /\ (mailbox.pose # Nothing => ~mailbox.pose.discontinuity)
  OBVIOUS
<1>3. mailbox' = [mailbox EXCEPT !.pose = [snap |-> snap, discontinuity |-> kept], !.dirty = TRUE]
  BY DEF PoseInto
<1> HIDE DEF kept
<1>4. /\ mailbox'.pose = [snap |-> snap, discontinuity |-> kept]
      /\ mailbox'.reset = mailbox.reset
  BY <1>0, <1>3
<1>5. mailbox'.pose.snap = snap /\ mailbox'.pose.discontinuity = kept
  BY <1>4
<1>6. mailbox'.pose # Nothing
  BY <1>1, <1>4
<1>7. ASSUME view'.pose # Nothing, ~mailbox'.reset, ~kept
      PROVE  view'.pose.current = snap
  BY <1>2, <1>4, <1>7 DEF PoseSound
<1> QED BY <1>5, <1>6, <1>7 DEF PoseSound

\* A step that leaves every sample alone keeps them in step.
LEMMA PoseUntouched ==
  ASSUME PoseSound, mailbox'.pose = mailbox.pose, mailbox'.reset = mailbox.reset,
         view'.pose = view.pose, world'.snaps = world.snaps, world'.seeded \in {world.seeded, FALSE}
  PROVE  PoseSound'
  BY DEF PoseSound

\* Whatever is coalesced, dropped with a suspended renderer or wiped by a reset, the
\* pending sample says what the camera has to know.
LEMMA PoseSoundStep == MailboxInv /\ RendererSound /\ PoseSound /\ MailboxNext => PoseSound'
<1> SUFFICES ASSUME MailboxInv, RendererSound, PoseSound, MailboxNext PROVE PoseSound'
  OBVIOUS
<1>0. world \in WorldType /\ mailbox \in MailboxType /\ view \in ViewType
  BY DEF MailboxInv, MailboxTypeOK
<1>1. CASE WorldStep
  BY <1>1, WorldStepOnly, PoseUntouched DEF MailboxInv
<1>2. ASSUME NEW i \in Ids, PublishEntity(i) PROVE PoseSound'
  <2>1. mailbox'.pose = mailbox.pose /\ mailbox'.reset = mailbox.reset
    BY <1>0, <1>2 DEF PublishEntity, EntityDeltaInto
  <2>2. world'.snaps = world.snaps /\ world'.seeded = world.seeded /\ view' = view
    BY <1>0, <1>2 DEF PublishEntity
  <2> QED BY <2>1, <2>2, PoseUntouched
<1>3. ASSUME NEW c \in Chunks, PublishChunk(c) PROVE PoseSound'
  <2>1. mailbox'.pose = mailbox.pose /\ mailbox'.reset = mailbox.reset
    BY <1>0, <1>3 DEF PublishChunk
  <2>2. world'.snaps = world.snaps /\ world'.seeded = world.seeded /\ view' = view
    BY <1>0, <1>3 DEF PublishChunk
  <2> QED BY <2>1, <2>2, PoseUntouched
<1>4. ASSUME NEW g \in GameModes, PublishReset(g) PROVE PoseSound'
  <2>1. mailbox'.pose = Nothing /\ mailbox'.reset
    BY <1>0, <1>4 DEF PublishReset, ResetInto
  <2> QED BY <2>1 DEF PoseSound
<1>5. CASE PoseTick
  BY <1>0, <1>5, PoseIntoSound DEF PoseTick
<1>6. CASE PoseDiscontinuity
  <2>1. /\ world.snaps + 1 \in 0..MaxSnaps
        /\ world' = [world EXCEPT !.snaps = world.snaps + 1, !.seeded = TRUE]
        /\ mailbox' = PoseInto(world.snaps + 1, TRUE) /\ view' = view
    BY <1>0, <1>6 DEF PoseDiscontinuity
  <2>2. world'.snaps = world.snaps + 1
    BY <1>0, <2>1
  <2> QED BY <2>1, <2>2, PoseIntoSound
<1>7. ASSUME NEW t, PublishTarget(t) \/ PublishGameMode(t) \/ PublishInventory(t) PROVE PoseSound'
  <2>1. \/ mailbox' = [mailbox EXCEPT !.target = t, !.dirty = TRUE]
        \/ mailbox' = [mailbox EXCEPT !.gameMode = t, !.dirty = TRUE]
        \/ mailbox' = [mailbox EXCEPT !.inventory = t, !.dirty = TRUE]
    BY <1>7 DEF PublishTarget, PublishGameMode, PublishInventory
  <2>2. UNCHANGED <<world, view>>
    BY <1>7 DEF PublishTarget, PublishGameMode, PublishInventory
  <2>3. CASE mailbox' = [mailbox EXCEPT !.target = t, !.dirty = TRUE]
    BY <1>0, <2>2, <2>3, PoseUntouched
  <2>4. CASE mailbox' = [mailbox EXCEPT !.gameMode = t, !.dirty = TRUE]
    BY <1>0, <2>2, <2>4, PoseUntouched
  <2>5. CASE mailbox' = [mailbox EXCEPT !.inventory = t, !.dirty = TRUE]
    BY <1>0, <2>2, <2>5, PoseUntouched
  <2> QED BY <2>1, <2>3, <2>4, <2>5
<1>8. CASE TakeUpdate
  <2>1. /\ mailbox'.pose = Nothing /\ ~mailbox'.reset /\ world' = world
        /\ view.present => view'.pose = AppliedPose(mailbox, view)
        /\ ~view.present => view'.pose = Nothing
    BY <1>8, TakeEffect DEF RendererSound
  <2>2. CASE mailbox.pose = Nothing
    <3>1. AppliedPose(mailbox, view) # Nothing => ~mailbox.reset /\ AppliedPose(mailbox, view) = view.pose
      BY <2>2 DEF AppliedPose, Starts
    <3> QED BY <2>1, <2>2, <3>1 DEF PoseSound
  <2>3. CASE mailbox.pose # Nothing
    <3>1. AppliedPose(mailbox, view).current = mailbox.pose.snap
      BY <2>3 DEF AppliedPose, Presented
    <3> QED BY <2>1, <2>3, <3>1 DEF PoseSound
  <2> QED BY <2>2, <2>3
<1>9. CASE Suspend \/ Resume
  BY <1>9, WindowEffect DEF PoseSound
<1> QED
  BY <1>1, <1>2, <1>3, <1>4, <1>5, <1>6, <1>7, <1>8, <1>9 DEF MailboxNext, PublishStep, RenderStep

\* The camera only ever takes a sample that snaps or continues its own, and the overlay
\* follows the take that empties the mailbox.
LEMMA PresentationStep ==
  MailboxInv /\ RendererSound /\ PoseSound /\ PresentationSound /\ MailboxNext => PresentationSound'
<1> SUFFICES ASSUME MailboxInv, RendererSound, PoseSound, PresentationSound, MailboxNext
             PROVE  PresentationSound'
  OBVIOUS
<1> USE DEF PresentationSound, NoGlideAcrossSnap, OverlayFollows
<1>1. CASE WorldStep
  BY <1>1, WorldStepOnly DEF MailboxInv
<1>2. CASE PublishStep
  BY <1>2, PublishStepOnly, PublicationMarks
<1>3. CASE TakeUpdate
  <2>1. OverlayFollows'
    BY <1>3, TakeEffect
  <2>2. NoGlideAcrossSnap'
    <3>1. CASE ~view.present
      BY <1>3, <3>1, TakeEffect DEF RendererSound
    <3>2. CASE view.present
      <4>1. view'.pose = AppliedPose(mailbox, view)
        BY <1>3, <3>2, TakeEffect
      <4>2. CASE mailbox.pose = Nothing
        BY <4>1, <4>2 DEF AppliedPose
      <4>3. CASE mailbox.pose # Nothing
        <5>1. view.pose # Nothing /\ ~Starts(mailbox, view) /\ ~mailbox.pose.discontinuity =>
                view.pose.current = mailbox.pose.snap
          BY <4>3 DEF PoseSound, Starts
        <5> QED BY <4>1, <4>3, <5>1 DEF AppliedPose, Presented
      <4> QED BY <4>2, <4>3
    <3> QED BY <3>1, <3>2
  <2> QED BY <2>1, <2>2
<1>4. CASE Suspend \/ Resume
  BY <1>4, WindowEffect
<1> QED BY <1>1, <1>2, <1>3, <1>4 DEF MailboxNext, RenderStep

\* The second inductive invariant holds in every reachable state.
THEOREM PresentationInductive == MailboxSpec => []PInv
<1>1. MailboxInit => PInv
  <2> SUFFICES ASSUME MailboxInit PROVE PInv
    OBVIOUS
  <2>1. RendererSound /\ PoseSound /\ PresentationSound
    BY DEF MailboxInit, RendererSound, PoseSound, PresentationSound, NoGlideAcrossSnap, OverlayFollows
  <2>2. PendingEntities = {}
    BY DEF MailboxInit, PendingEntities
  <2>3. PendingBounded
    BY <2>2, FS_EmptySet DEF PendingBounded
  <2> QED BY <2>1, <2>3 DEF PInv
<1>2. MailboxInv /\ PInv /\ [MailboxNext]_mailboxVars => PInv'
  <2>1. CASE UNCHANGED mailboxVars
    BY <2>1 DEF PInv, mailboxVars, RendererSound, PoseSound, PresentationSound, NoGlideAcrossSnap,
                OverlayFollows, PendingBounded, PendingEntities
  <2> QED
    BY <2>1, RendererSoundStep, PendingBoundedStep, PoseSoundStep, PresentationStep DEF PInv
<1> QED BY <1>1, <1>2, MailboxInductive, PTL DEF MailboxSpec

\* Never more pending entity deltas than the cap, and none beside a full snapshot, however
\* long the renderer stalls (WorldRenderRunner::entity).
THEOREM PendingStaysBounded == MailboxSpec => []PendingBounded
<1>1. PInv => PendingBounded
  BY DEF PInv
<1> QED BY <1>1, PresentationInductive, PTL

\* The camera never glides through a snap, and the overlay shows what was last published
\* once nothing is pending (PosePresentation, integrate_world_updates).
THEOREM NoGlide == MailboxSpec => []PresentationSound
<1>1. PInv => PresentationSound
  BY DEF PInv
<1> QED BY <1>1, PresentationInductive, PTL

-----------------------------------------------------------------------------
(* The refinement: the mailbox implements WorldFeed for the terrain and    *)
(* for the entities.                                                       *)

\* An entity delta publishes that entity, or all of them when it overflows into a snapshot.
LEMMA EntityPublishes ==
  ASSUME MailboxInv, NEW i \in Ids, PublishEntity(i)
  PROVE  /\ PublishedChunks' = PublishedChunks
         /\ \E S \in SUBSET Ids :
              PublishedEntities' = [j \in Ids |-> IF j \in S THEN world.entities[j] ELSE PublishedEntities[j]]
<1>0. world \in WorldType /\ mailbox \in MailboxType /\ view \in ViewType
  BY DEF MailboxInv, MailboxTypeOK
<1>1. mailbox' = EntityDeltaInto(i) /\ view' = view
  BY DEF PublishEntity
<1>2. mailbox'.chunks = mailbox.chunks /\ mailbox'.reset = mailbox.reset
  BY <1>0, <1>1 DEF EntityDeltaInto
<1>3. PublishedChunks' = PublishedChunks
  BY <1>1, <1>2 DEF PublishedChunks, Promised
<1>4. world.entities \in Store(Ids) /\ Nothing \notin Store(Ids)
  BY <1>0
<1>5. CASE mailbox.replacement # Nothing
  <2>1. mailbox.replacement \in Store(Ids)
    BY <1>0, <1>5
  <2>2. mailbox'.replacement = [mailbox.replacement EXCEPT ![i] = world.entities[i]]
        /\ mailbox'.replacement # Nothing
    BY <1>0, <1>1, <1>4, <1>5, <2>1 DEF EntityDeltaInto
  <2>3. PublishedEntities' = [PublishedEntities EXCEPT ![i] = world.entities[i]]
        /\ PublishedEntities \in Store(Ids)
    BY <1>5, <2>1, <2>2 DEF PublishedEntities
  <2>4. PublishedEntities' = [j \in Ids |-> IF j \in {i} THEN world.entities[j] ELSE PublishedEntities[j]]
    BY <2>3
  <2> QED BY <1>3, <2>4
<1>6. CASE /\ mailbox.replacement = Nothing
           /\ Cardinality(PendingEntities) < MaxRemoteEntities \/ i \in PendingEntities
  <2>1. /\ mailbox'.entities = [mailbox.entities EXCEPT ![i] = world.entities[i]]
        /\ mailbox'.replacement = Nothing
    BY <1>0, <1>1, <1>6 DEF EntityDeltaInto
  <2>2. /\ PublishedEntities = Promised(view.entities, mailbox.entities, Ids)
        /\ PublishedEntities' = Promised(view.entities, mailbox.entities, Ids)'
    BY <1>6, <2>1 DEF PublishedEntities
  <2>3. PublishedEntities' = [j \in Ids |-> IF j \in {i} THEN world.entities[j] ELSE PublishedEntities[j]]
    BY <1>0, <1>1, <1>2, <2>1, <2>2 DEF Promised, Overlay
  <2> QED BY <1>3, <2>3
<1>7. CASE /\ mailbox.replacement = Nothing
           /\ ~(Cardinality(PendingEntities) < MaxRemoteEntities \/ i \in PendingEntities)
  <2>1. mailbox'.replacement = world.entities
    BY <1>0, <1>1, <1>7 DEF EntityDeltaInto
  <2>2. PublishedEntities' = world.entities
    BY <1>4, <2>1 DEF PublishedEntities
  <2>3. PublishedEntities' = [j \in Ids |-> IF j \in Ids THEN world.entities[j] ELSE PublishedEntities[j]]
    BY <1>4, <2>2
  <2> QED BY <1>3, <2>3
<1> QED BY <1>3, <1>5, <1>6, <1>7

\* A chunk publication publishes that chunk.
LEMMA ChunkPublishes ==
  ASSUME MailboxInv, NEW c \in Chunks, PublishChunk(c)
  PROVE  /\ PublishedEntities' = PublishedEntities
         /\ PublishedChunks' = [d \in Chunks |-> IF d \in {c} THEN world.chunks[d] ELSE PublishedChunks[d]]
<1>0. world \in WorldType /\ mailbox \in MailboxType /\ view \in ViewType
  BY DEF MailboxInv, MailboxTypeOK
<1>1. mailbox' = [mailbox EXCEPT !.chunks[c] = world.chunks[c], !.dirty = TRUE] /\ view' = view
  BY DEF PublishChunk
<1>2. /\ mailbox'.chunks = [mailbox.chunks EXCEPT ![c] = world.chunks[c]]
      /\ mailbox'.reset = mailbox.reset /\ mailbox'.entities = mailbox.entities
      /\ mailbox'.replacement = mailbox.replacement
  BY <1>0, <1>1
<1>3. PublishedEntities' = PublishedEntities
  BY <1>1, <1>2 DEF PublishedEntities, Promised
<1>4. PublishedChunks' = [d \in Chunks |-> IF d \in {c} THEN world.chunks[d] ELSE PublishedChunks[d]]
  BY <1>0, <1>1, <1>2 DEF PublishedChunks, Promised, Overlay
<1> QED BY <1>3, <1>4

\* A reset publishes the empty world the task has at that moment.
LEMMA ResetPublishes ==
  ASSUME MailboxInv, NEW g \in GameModes, PublishReset(g)
  PROVE  /\ PublishedChunks' = world.chunks
         /\ PublishedEntities' = world.entities
<1>0. mailbox \in MailboxType
  BY DEF MailboxInv, MailboxTypeOK
<1>1. mailbox' = ResetInto(g) /\ world.owedReset
  BY DEF PublishReset
<1>2. world.chunks = Empty(Chunks) /\ world.entities = Empty(Ids)
  BY <1>1 DEF MailboxInv, OwedResetEmpty
<1>3. /\ mailbox'.reset /\ mailbox'.replacement = Nothing
      /\ mailbox'.chunks = Silent(Chunks) /\ mailbox'.entities = Silent(Ids)
  BY <1>0, <1>1 DEF ResetInto
<1> QED BY <1>2, <1>3 DEF PublishedChunks, PublishedEntities, Promised, Overlay

\* Pose, target, game mode and inventory publish nothing about chunks and entities.
LEMMA SidePublishes ==
  ASSUME MailboxInv, PoseTick \/ PoseDiscontinuity
               \/ \E t : PublishTarget(t) \/ PublishGameMode(t) \/ PublishInventory(t)
  PROVE  PublishedChunks' = PublishedChunks /\ PublishedEntities' = PublishedEntities
<1>0. mailbox \in MailboxType
  BY DEF MailboxInv, MailboxTypeOK
<1>1. ASSUME mailbox'.chunks = mailbox.chunks, mailbox'.reset = mailbox.reset,
             mailbox'.entities = mailbox.entities, mailbox'.replacement = mailbox.replacement,
             view' = view
      PROVE  PublishedChunks' = PublishedChunks /\ PublishedEntities' = PublishedEntities
  BY <1>1 DEF PublishedChunks, PublishedEntities, Promised
<1>2. CASE PoseTick \/ PoseDiscontinuity
  <2>1. PICK snap, discontinuity : mailbox' = PoseInto(snap, discontinuity) /\ view' = view
    BY <1>2 DEF PoseTick, PoseDiscontinuity
  <2>2. /\ mailbox'.chunks = mailbox.chunks /\ mailbox'.reset = mailbox.reset
        /\ mailbox'.entities = mailbox.entities /\ mailbox'.replacement = mailbox.replacement
    BY <1>0, <2>1 DEF PoseInto
  <2> QED BY <1>1, <2>1, <2>2
<1>3. ASSUME NEW t, PublishTarget(t) \/ PublishGameMode(t) \/ PublishInventory(t)
      PROVE  PublishedChunks' = PublishedChunks /\ PublishedEntities' = PublishedEntities
  <2>1. \/ mailbox' = [mailbox EXCEPT !.target = t, !.dirty = TRUE]
        \/ mailbox' = [mailbox EXCEPT !.gameMode = t, !.dirty = TRUE]
        \/ mailbox' = [mailbox EXCEPT !.inventory = t, !.dirty = TRUE]
    BY <1>3 DEF PublishTarget, PublishGameMode, PublishInventory
  <2>2. view' = view
    BY <1>3 DEF PublishTarget, PublishGameMode, PublishInventory
  <2>3. CASE mailbox' = [mailbox EXCEPT !.target = t, !.dirty = TRUE]
    BY <1>0, <1>1, <2>2, <2>3
  <2>4. CASE mailbox' = [mailbox EXCEPT !.gameMode = t, !.dirty = TRUE]
    BY <1>0, <1>1, <2>2, <2>4
  <2>5. CASE mailbox' = [mailbox EXCEPT !.inventory = t, !.dirty = TRUE]
    BY <1>0, <1>1, <2>2, <2>5
  <2> QED BY <2>1, <2>3, <2>4, <2>5
<1> QED BY <1>2, <1>3

\* After a take the renderer has what it is promised, which is what it was promised before,
\* or nothing when it was not there to take it.
LEMMA TakeDelivers ==
  ASSUME MailboxInv, RendererSound, TakeUpdate
  PROVE  /\ PublishedChunks' = view'.chunks /\ PublishedEntities' = view'.entities
         /\ view.present => view'.chunks = PublishedChunks /\ view'.entities = PublishedEntities
         /\ ~view.present => view'.chunks = Empty(Chunks) /\ view'.entities = Empty(Ids)
<1>0. mailbox \in MailboxType /\ view \in ViewType
  BY DEF MailboxInv, MailboxTypeOK
<1>1. view' \in ViewType /\ mailbox'.chunks = Silent(Chunks) /\ mailbox'.entities = Silent(Ids)
  <2>1. view' \in ViewType
    BY TakeUpdateInv DEF MailboxInv, MailboxTypeOK
  <2> QED BY <1>0, <2>1 DEF TakeUpdate, Taken
<1>2. ~mailbox'.reset /\ mailbox'.replacement = Nothing
  BY TakeEffect
<1>3. PublishedChunks' = view'.chunks /\ PublishedEntities' = view'.entities
  BY <1>1, <1>2 DEF PublishedChunks, PublishedEntities, Promised, Overlay
<1>4. CASE view.present
  <2>1. view'.chunks = AppliedChunks(mailbox, view) /\ view'.entities = AppliedEntities(mailbox, view)
    BY <1>4, TakeEffect
  <2>2. AppliedChunks(mailbox, view) = PublishedChunks /\ AppliedEntities(mailbox, view) = PublishedEntities
    <3>1. CASE Starts(mailbox, view) <=> mailbox.reset
      BY <3>1 DEF AppliedChunks, AppliedEntities, PublishedChunks, PublishedEntities, Promised
    <3>2. CASE view.chunks = Empty(Chunks) /\ view.entities = Empty(Ids)
      BY <3>2 DEF AppliedChunks, AppliedEntities, PublishedChunks, PublishedEntities, Promised
    <3> QED BY <3>1, <3>2 DEF RendererSound, Starts
  <2> QED BY <1>3, <1>4, <2>1, <2>2
<1>5. CASE ~view.present
  BY <1>3, <1>5, TakeEffect DEF RendererSound
<1> QED BY <1>4, <1>5

\* A renderer that is dropped takes with it all but what is still pending.
LEMMA SuspendLoses ==
  ASSUME MailboxInv, Suspend
  PROVE  /\ view'.chunks = Empty(Chunks) /\ view'.entities = Empty(Ids)
         /\ \E S \in SUBSET Chunks :
              PublishedChunks' = [c \in Chunks |-> IF c \in S THEN Gone ELSE PublishedChunks[c]]
         /\ \E S \in SUBSET Ids :
              PublishedEntities' = [i \in Ids |-> IF i \in S THEN Gone ELSE PublishedEntities[i]]
<1>0. mailbox \in MailboxType /\ view \in ViewType
  BY DEF MailboxInv, MailboxTypeOK
<1>1. view'.chunks = Empty(Chunks) /\ view'.entities = Empty(Ids) /\ mailbox' = mailbox
  BY <1>0 DEF Suspend
<1> DEFINE lostChunks == {c \in Chunks : mailbox.chunks[c] = NoDelta}
           lostEntities == IF mailbox.replacement = Nothing
                           THEN {i \in Ids : mailbox.entities[i] = NoDelta} ELSE {}
<1>2. PublishedChunks' = [c \in Chunks |-> IF c \in lostChunks THEN Gone ELSE PublishedChunks[c]]
  BY <1>0, <1>1 DEF PublishedChunks, Promised, Overlay
<1>3. PublishedEntities' = [i \in Ids |-> IF i \in lostEntities THEN Gone ELSE PublishedEntities[i]]
  <2>1. CASE mailbox.replacement = Nothing
    BY <1>0, <1>1, <2>1 DEF PublishedEntities, Promised, Overlay
  <2>2. CASE mailbox.replacement # Nothing
    <3>1. PublishedEntities' = mailbox.replacement /\ PublishedEntities = mailbox.replacement
          /\ mailbox.replacement \in Store(Ids)
      BY <1>0, <1>1, <2>2 DEF PublishedEntities
    <3> QED BY <2>2, <3>1
  <2> QED BY <2>1, <2>2
<1> QED BY <1>1, <1>2, <1>3

\* Every step of the mailbox is a step of the feed, or none, for the terrain ...
LEMMA TerrainStep == MailboxInv /\ MailboxInv' /\ RendererSound /\ [MailboxNext]_mailboxVars => [Terrain!FeedNext]_Terrain!feedVars
<1> SUFFICES ASSUME MailboxInv, MailboxInv', RendererSound, [MailboxNext]_mailboxVars
             PROVE  [Terrain!FeedNext]_Terrain!feedVars
  OBVIOUS
<1> USE DEF Terrain!FeedNext, Terrain!feedVars
<1>0. world \in WorldType /\ world' \in WorldType
  BY DEF MailboxInv, MailboxTypeOK
<1>1. CASE UNCHANGED mailboxVars
  BY <1>1 DEF mailboxVars, PublishedChunks, Promised
<1>2. CASE WorldStep
  <2>1. PublishedChunks' = PublishedChunks /\ view' = view
    BY <1>2, WorldStepOnly DEF MailboxInv, PublishedChunks, Promised
  <2> QED BY <1>0, <2>1 DEF Terrain!Change, Terrain!Store
<1>3. ASSUME PublishedChunks' = PublishedChunks, view' = view, world'.chunks = world.chunks
      PROVE  UNCHANGED Terrain!feedVars
  BY <1>3
<1>4. ASSUME NEW i \in Ids, PublishEntity(i) PROVE UNCHANGED Terrain!feedVars
  BY <1>0, <1>3, <1>4, EntityPublishes DEF PublishEntity
<1>5. ASSUME NEW c \in Chunks, PublishChunk(c) PROVE Terrain!Publish
  <2>1. world'.chunks = world.chunks /\ view' = view
    BY <1>0, <1>5 DEF PublishChunk
  <2>2. {c} \in SUBSET Chunks
    OBVIOUS
  <2> QED BY <1>5, <2>1, <2>2, ChunkPublishes DEF Terrain!Publish
<1>6. ASSUME NEW g \in GameModes, PublishReset(g) PROVE Terrain!Publish
  <2>1. world'.chunks = world.chunks /\ view' = view
    BY <1>0, <1>6 DEF PublishReset
  <2>2. PublishedChunks' = [c \in Chunks |-> IF c \in Chunks THEN world.chunks[c] ELSE PublishedChunks[c]]
    BY <1>0, <1>6, ResetPublishes
  <2>3. Chunks \in SUBSET Chunks
    OBVIOUS
  <2> QED BY <2>1, <2>2, <2>3 DEF Terrain!Publish
<1>7. ASSUME PoseTick \/ PoseDiscontinuity
             \/ \E t : PublishTarget(t) \/ PublishGameMode(t) \/ PublishInventory(t)
      PROVE  UNCHANGED Terrain!feedVars
  <2>1. world'.chunks = world.chunks /\ view' = view
    BY <1>0, <1>7 DEF PoseTick, PoseDiscontinuity, PublishTarget, PublishGameMode, PublishInventory
  <2> QED BY <1>3, <1>7, <2>1, SidePublishes
<1>8. CASE TakeUpdate
  <2>1. world' = world
    BY <1>8, TakeEffect
  <2>2. CASE view.present
    BY <1>8, <2>1, <2>2, TakeDelivers DEF Terrain!Deliver
  <2>3. CASE ~view.present
    <3>1. PublishedChunks' = [c \in Chunks |-> IF c \in Chunks THEN Gone ELSE PublishedChunks[c]]
      BY <1>8, <2>3, TakeDelivers
    <3>2. Chunks \in SUBSET Chunks
      OBVIOUS
    <3> QED BY <1>8, <2>1, <2>3, <3>1, <3>2, TakeDelivers DEF Terrain!Lose, Terrain!Empty
  <2> QED BY <2>2, <2>3
<1>9. CASE Suspend
  <2>1. world' = world
    BY <1>9 DEF Suspend
  <2> QED BY <1>9, <2>1, SuspendLoses DEF Terrain!Lose, Terrain!Empty
<1>10. CASE Resume
  <2>1. UNCHANGED <<world, mailbox>> /\ view'.chunks = view.chunks
    BY <1>10 DEF Resume, MailboxInv, MailboxTypeOK
  <2> QED BY <2>1 DEF PublishedChunks, Promised
<1> QED
  BY <1>1, <1>2, <1>4, <1>5, <1>6, <1>7, <1>8, <1>9, <1>10 DEF MailboxNext, PublishStep, RenderStep

\* ... and for the entities.
LEMMA PopulationStep == MailboxInv /\ MailboxInv' /\ RendererSound /\ [MailboxNext]_mailboxVars => [Population!FeedNext]_Population!feedVars
<1> SUFFICES ASSUME MailboxInv, MailboxInv', RendererSound, [MailboxNext]_mailboxVars
             PROVE  [Population!FeedNext]_Population!feedVars
  OBVIOUS
<1> USE DEF Population!FeedNext, Population!feedVars
<1>0. world \in WorldType /\ world' \in WorldType
  BY DEF MailboxInv, MailboxTypeOK
<1>1. CASE UNCHANGED mailboxVars
  BY <1>1 DEF mailboxVars, PublishedEntities, Promised
<1>2. CASE WorldStep
  <2>1. PublishedEntities' = PublishedEntities /\ view' = view
    BY <1>2, WorldStepOnly DEF MailboxInv, PublishedEntities, Promised
  <2> QED BY <1>0, <2>1 DEF Population!Change, Population!Store
<1>3. ASSUME PublishedEntities' = PublishedEntities, view' = view, world'.entities = world.entities
      PROVE  UNCHANGED Population!feedVars
  BY <1>3
<1>4. ASSUME NEW i \in Ids, PublishEntity(i) PROVE Population!Publish
  <2>1. world'.entities = world.entities /\ view' = view
    BY <1>0, <1>4 DEF PublishEntity
  <2> QED BY <1>4, <2>1, EntityPublishes DEF Population!Publish
<1>5. ASSUME NEW c \in Chunks, PublishChunk(c) PROVE UNCHANGED Population!feedVars
  <2>1. world'.entities = world.entities /\ view' = view
    BY <1>0, <1>5 DEF PublishChunk
  <2> QED BY <1>3, <1>5, <2>1, ChunkPublishes
<1>6. ASSUME NEW g \in GameModes, PublishReset(g) PROVE Population!Publish
  <2>1. world'.entities = world.entities /\ view' = view
    BY <1>0, <1>6 DEF PublishReset
  <2>2. PublishedEntities' = [i \in Ids |-> IF i \in Ids THEN world.entities[i] ELSE PublishedEntities[i]]
    BY <1>0, <1>6, ResetPublishes
  <2>3. Ids \in SUBSET Ids
    OBVIOUS
  <2> QED BY <2>1, <2>2, <2>3 DEF Population!Publish
<1>7. ASSUME PoseTick \/ PoseDiscontinuity
             \/ \E t : PublishTarget(t) \/ PublishGameMode(t) \/ PublishInventory(t)
      PROVE  UNCHANGED Population!feedVars
  <2>1. world'.entities = world.entities /\ view' = view
    BY <1>0, <1>7 DEF PoseTick, PoseDiscontinuity, PublishTarget, PublishGameMode, PublishInventory
  <2> QED BY <1>3, <1>7, <2>1, SidePublishes
<1>8. CASE TakeUpdate
  <2>1. world' = world
    BY <1>8, TakeEffect
  <2>2. CASE view.present
    BY <1>8, <2>1, <2>2, TakeDelivers DEF Population!Deliver
  <2>3. CASE ~view.present
    <3>1. PublishedEntities' = [i \in Ids |-> IF i \in Ids THEN Gone ELSE PublishedEntities[i]]
      BY <1>8, <2>3, TakeDelivers
    <3>2. Ids \in SUBSET Ids
      OBVIOUS
    <3> QED BY <1>8, <2>1, <2>3, <3>1, <3>2, TakeDelivers DEF Population!Lose, Population!Empty
  <2> QED BY <2>2, <2>3
<1>9. CASE Suspend
  <2>1. world' = world
    BY <1>9 DEF Suspend
  <2> QED BY <1>9, <2>1, SuspendLoses DEF Population!Lose, Population!Empty
<1>10. CASE Resume
  <2>1. UNCHANGED <<world, mailbox>> /\ view'.entities = view.entities
    BY <1>10 DEF Resume, MailboxInv, MailboxTypeOK
  <2> QED BY <2>1 DEF PublishedEntities, Promised
<1> QED
  BY <1>1, <1>2, <1>4, <1>5, <1>6, <1>7, <1>8, <1>9, <1>10 DEF MailboxNext, PublishStep, RenderStep

\* The mailbox implements the abstract feed, for the terrain and for the entities: what the
\* renderer has was at some moment published as a whole, only the present world is ever
\* published, and the mailbox's deltas, overflow and resets are invisible (world_render.rs,
\* WorldRenderer::apply).
THEOREM ImplementsFeeds == MailboxSpec => Feeds
<1>1. MailboxInit => Terrain!FeedInit /\ Population!FeedInit
  BY DEF MailboxInit, Terrain!FeedInit, Population!FeedInit, Terrain!Empty, Population!Empty,
         PublishedChunks, PublishedEntities, Promised, Overlay
<1>2. PInv => RendererSound
  BY DEF PInv
<1> QED
  BY <1>1, <1>2, TerrainStep, PopulationStep, MailboxInductive, PresentationInductive, PTL
  DEF MailboxSpec, Feeds, Terrain!FeedSpec, Population!FeedSpec
=============================================================================
