------------------------------ MODULE Movement ------------------------------
(***************************************************************************)
(* Collision of the predicted player with the blocks around it             *)
(* (cubic-world/src/movement.rs): how PlayerMovementState::tick turns the  *)
(* displacement a tick requests into the one it applies, with stepping up, *)
(* the protection of a sneaking player from edges, and the ground test.    *)
(* Lengths are whole units; COLLISION_EPSILON, which is far smaller than a *)
(* unit, decides what happens when surfaces touch.  The displacement is an *)
(* input: the server can set any velocity in any tick.                     *)
(***************************************************************************)
EXTENDS Integers, FiniteSetsExt

CONSTANTS
    Cell,           \* units in a block
    Extent,         \* the loaded world: cells along x, y and z
    Worlds,         \* worlds to walk in: a shape for every loaded cell
    Width, StandingHeight, CrouchingHeight,
    StepHeight,     \* STEP_HEIGHT
    Start,          \* where the player enters
    Requests        \* displacements a tick may request

ASSUME MovementAssumption ==
    /\ Cell \in Nat \ {0} /\ Extent \in [1 .. 3 -> Nat \ {0}]
    /\ Width \in Nat \ {0} /\ StandingHeight \in Nat /\ CrouchingHeight \in 1 .. StandingHeight
    /\ StepHeight \in Nat /\ Start \in [1 .. 3 -> Int] /\ Requests \subseteq [1 .. 3 -> Int]

VARIABLES
    blocks,     \* LoadedChunks, by shape
    player      \* PlayerMovementState

movementVars == <<blocks, player>>

Axes == 1 .. 3      \* x, y, z

\* A box from one corner to the other.
Shapes == {"empty", "full", "slab", "ceiling", "fence"}
ShapeTop(shape) == CASE shape = "slab" -> Cell \div 2
                     [] shape = "fence" -> Cell + Cell \div 2
                     [] OTHER -> Cell
ShapeBottom(shape) == IF shape = "ceiling" THEN Cell \div 2 ELSE 0
\* source_shape_bounds reaches above the cell of a fence.
Overhang(axis) == IF axis = 2 THEN Cell \div 2 ELSE 0

\* The shape of a cell: bedrock below the world, air above it, a wall where no chunk is.
ShapeAt(cell) ==
    IF cell[2] < 0 THEN "full"
    ELSE IF cell[2] >= Extent[2] THEN "empty"
    ELSE IF cell \in DOMAIN blocks THEN blocks[cell] ELSE "full"

Plus(u, v) == <<u[1] + v[1], u[2] + v[2], u[3] + v[3]>>
Obstacle(cell) ==
    LET corner == <<cell[1] * Cell, cell[2] * Cell, cell[3] * Cell>>
    IN  [lo |-> Plus(corner, <<0, ShapeBottom(ShapeAt(cell)), 0>>),
         hi |-> Plus(corner, <<Cell, ShapeTop(ShapeAt(cell)), Cell>>)]

\* source_cell_range
SourceCells(lo, hi, axis) == (lo - Overhang(axis) - 1) \div Cell .. hi \div Cell

\* collect_obstacles
Obstacles(box) ==
    LET Cells(a) == SourceCells(box.lo[a], box.hi[a], a)
        cells == {<<x, y, z>> : x \in Cells(1), y \in Cells(2), z \in Cells(3)}
    IN  {Obstacle(cell) : cell \in {c \in cells : ShapeAt(c) # "empty"}}

Overlap(a, b, axis) == a.hi[axis] > b.lo[axis] /\ a.lo[axis] < b.hi[axis]
Inside(a, b) == \A axis \in Axes : Overlap(a, b, axis)
\* Aabb::moved and expanded_toward
Moved(box, d) == [lo |-> Plus(box.lo, d), hi |-> Plus(box.hi, d)]
Swept(box, d) ==
    [lo |-> Plus(box.lo, <<Min({d[1], 0}), Min({d[2], 0}), Min({d[3], 0})>>),
     hi |-> Plus(box.hi, <<Max({d[1], 0}), Max({d[2], 0}), Max({d[3], 0})>>)]
Along(axis, delta) == [<<0, 0, 0>> EXCEPT ![axis] = delta]

\* PlayerMovementState::bounding_box
Height(sneaking) == IF sneaking THEN CrouchingHeight ELSE StandingHeight
Bounds(at, sneaking) ==
    [lo |-> at, hi |-> Plus(at, <<Width, Height(sneaking), Width>>)]

\* resolve_x, resolve_y, resolve_z: as far as the nearest obstacle on the way.  One the box
\* is inside of does not stop it.
Resolve(axis, box, delta, obstacles) ==
    LET beside == {o \in obstacles : \A a \in Axes \ {axis} : Overlap(box, o, a)}
    IN  IF delta > 0
        THEN Min({delta} \cup {o.lo[axis] - box.hi[axis] : o \in {b \in beside : box.hi[axis] <= b.lo[axis]}})
        ELSE Max({delta} \cup {o.hi[axis] - box.lo[axis] : o \in {b \in beside : box.lo[axis] >= b.hi[axis]}})

\* What the epsilon that is added to a descent finds: a surface right where it ends.
Touches(box, delta, obstacles) ==
    \E o \in obstacles :
        /\ Overlap(box, o, 1) /\ Overlap(box, o, 3)
        /\ o.hi[2] \in box.lo[2] + delta .. box.lo[2]

Abs(n) == IF n < 0 THEN -n ELSE n

\* Mutant: both components are resolved from where the box stands.
ResolveApart(box, x, z, obstacles) ==
    <<Resolve(1, box, x, obstacles), 0, Resolve(3, box, z, obstacles)>>

\* resolve_horizontal: the longer component first, and the other one from where it ended.
ResolveHorizontal(box, x, z, obstacles) ==
    LET first == IF Abs(x) >= Abs(z) THEN 1 ELSE 3
        second == 4 - first
        Want(axis) == IF axis = 1 THEN x ELSE z
        one == Resolve(first, box, Want(first), obstacles)
        two == Resolve(second, Moved(box, Along(first, one)), Want(second), obstacles)
    IN  [<<0, 0, 0>> EXCEPT ![first] = one, ![second] = two]

Length(d) == d[1] * d[1] + d[3] * d[3]

\* collide, with what the ground test of the tick needs to know.
Collided(box, requested, grounded) ==
    LET obstacles == Obstacles([Swept(box, requested) EXCEPT !.hi[2] = @ + StepHeight])
        descends == requested[2] <= 0
        y == Resolve(2, box, requested[2], obstacles)
        flat == ResolveHorizontal(Moved(box, Along(2, y)), requested[1], requested[3], obstacles)
        landed == descends /\ Touches(box, requested[2], obstacles)
        direct == [applied |-> [flat EXCEPT ![2] = y], landed |-> landed]
        up == Resolve(2, box, StepHeight, obstacles)
        raised == Moved(box, Along(2, up))
        over == ResolveHorizontal(raised, requested[1], requested[3], obstacles)
        above == Moved(raised, over)
        down == Resolve(2, above, requested[2] - up, obstacles)
        stepped == [applied |-> [over EXCEPT ![2] = up + down],
                    landed |-> descends /\ Touches(above, requested[2] - up, obstacles)]
        blocked == flat[1] # requested[1] \/ flat[3] # requested[3]
    IN  IF blocked /\ (grounded \/ landed) /\ up > 0 /\ Length(over) > Length(flat)
        THEN stepped ELSE direct

\* can_fall_at_least: nothing under the footprint within the distance.
CanFall(box, x, z, distance) ==
    LET there == Moved(box, <<x, 0, z>>)
        probe == [lo |-> [there.lo EXCEPT ![2] = @ - distance], hi |-> [there.hi EXCEPT ![2] = there.lo[2]]]
    IN  ~\E o \in Obstacles(probe) :
            /\ Overlap(probe, o, 1) /\ Overlap(probe, o, 3)
            /\ o.lo[2] < probe.hi[2] /\ o.hi[2] >= probe.lo[2]

\* The values reduce_toward_zero goes through, and the first of them that is safe.
Reduced(n, steps) ==
    IF Abs(n) <= steps THEN 0 ELSE IF n > 0 THEN n - steps ELSE n + steps
Safe(box, x, z) == (x = 0 /\ z = 0) \/ ~CanFall(box, x, z, StepHeight)

\* back_off_from_edge
BackedOff(box, d) ==
    LET x == Reduced(d[1], Min({s \in 0 .. Abs(d[1]) : Safe(box, Reduced(d[1], s), 0)}))
        z == Reduced(d[3], Min({s \in 0 .. Abs(d[3]) : Safe(box, 0, Reduced(d[3], s))}))
        both == Min({s \in 0 .. Max({Abs(x), Abs(z)}) :
                        \/ Reduced(x, s) = 0 \/ Reduced(z, s) = 0
                        \/ Safe(box, Reduced(x, s), Reduced(z, s))})
    IN  <<Reduced(x, both), d[2], Reduced(z, both)>>

MovementInit ==
    /\ blocks \in Worlds
    /\ player = [at |-> Start, sneaking |-> FALSE, ground |-> FALSE, fall |-> 0]

\* PlayerMovementState::tick of a player that walks, falls or jumps, neither in a fluid nor
\* climbing nor flying.  It takes the height its input asks for, whether or not there is
\* room.  A fall is only told apart up to a step.
Walk(sneak, wanted) ==
    LET box == Bounds(player.at, sneak)
        protects == /\ sneak /\ wanted[2] <= 0
                    /\ \/ player.ground
                       \/ /\ player.fall < StepHeight
                          /\ ~CanFall(box, 0, 0, StepHeight - player.fall)
        requested == IF protects THEN BackedOff(box, wanted) ELSE wanted
        result == Collided(box, requested, player.ground)
        fallen == Min({player.fall + Max({-result.applied[2], 0}), StepHeight})
    IN  /\ player' = [at |-> Plus(player.at, result.applied),
                      sneaking |-> sneak,
                      ground |-> result.landed,
                      fall |-> IF result.landed THEN 0 ELSE fallen]
        /\ UNCHANGED blocks

\* Bound: the player stays below the upper edge of the walls around the loaded world.
MovementNext ==
    \E sneak \in BOOLEAN, wanted \in Requests :
        /\ wanted[2] < 0 \/ player.at[2] + wanted[2] + StepHeight < Extent[2] * Cell
        /\ Walk(sneak, wanted)

MovementSpec == MovementInit /\ [][MovementNext]_movementVars

(***************************************************************************)
(* Properties.                                                             *)
(***************************************************************************)
MovementTypeOK ==
    player \in [at : [Axes -> Int], sneaking : BOOLEAN, ground : BOOLEAN, fall : 0 .. StepHeight]

\* No block reaches into the box, however the code looks for them: a shape reaches at most
\* into the cell above its own.
Free(box) ==
    \A x \in box.lo[1] \div Cell .. box.hi[1] \div Cell,
       y \in box.lo[2] \div Cell - 1 .. box.hi[2] \div Cell,
       z \in box.lo[3] \div Cell .. box.hi[3] \div Cell :
        ShapeAt(<<x, y, z>>) # "empty" => ~Inside(box, Obstacle(<<x, y, z>>))

\* No tick takes a player that has room for the height it takes into a block: not through
\* one that is thinner than the displacement, not at a corner, not into a fence that
\* reaches out of its cell, not when it steps up or comes down again.
MovementSound ==
    [][player' # player /\ Free(Bounds(player.at, player'.sneaking))
        => Free(Bounds(player'.at, player'.sneaking))]_movementVars
=============================================================================
