---------------------------- MODULE PlayerControls ----------------------------
(***************************************************************************)
(* From the keyboard and the mouse to the server: the control mailbox that *)
(* the window thread writes (WorldControlHandle), the 20 Hz tick that      *)
(* drains it (WorldMovementController::tick), server corrections, and the  *)
(* baselines from which MovementPacketTracker decides what to tell the     *)
(* server (cubic-network/src/world_movement.rs).                           *)
(*                                                                         *)
(* told is what a server knows that has read every frame written so far.   *)
(* A position is a coordinate on a line, a yaw an angle modulo Turn; the   *)
(* physics of cubic-world is any step of at most MaxStep.                  *)
(***************************************************************************)
EXTENDS Integers, Sequences, Functions

CONSTANTS Keys,              \* held movement keys
          JournalCapacity,   \* MAX_INPUT_TRANSITIONS
          CommandCapacity,   \* MAX_INVENTORY_COMMANDS
          Turn,              \* a full turn of the yaw
          Track,             \* positions are 0..Track
          MaxStep,           \* movement in one tick
          Epsilon,           \* POSITION_EPSILON
          ForcedInterval,    \* FORCED_POSITION_INTERVAL
          MaxActions,        \* bound: user actions
          MaxResets          \* bound: respawns and reconfigurations

CONSTANT None              \* Option::None

Yaws      == 0..(Turn - 1)
Positions == 0..Track
Inputs    == SUBSET Keys

ASSUME ControlsAssumption ==
  /\ JournalCapacity \in Nat \ {0} /\ CommandCapacity \in Nat \ {0}
  /\ Turn \in Nat \ {0} /\ Track \in Nat /\ MaxStep \in Nat /\ Epsilon \in Nat
  /\ ForcedInterval \in Nat \ {0}
  /\ MaxActions \in Nat /\ MaxResets \in Nat
  /\ None \notin Yaws \cup Positions \cup [pos : Positions, yaw : Yaws]

VARIABLES ui,        \* the window thread: held keys and its input sequence
          mailbox,   \* ControlState, under its mutex
          body,      \* PlayerMovementState, or None before the server gave a position
          tracker,   \* MovementPacketTracker
          told,      \* history: what the frames written so far say, and for how many ticks
                     \* the position has been neither told nor rebased
          commands   \* history: inventory commands accepted and served

vars == <<ui, mailbox, body, tracker, told, commands>>

\* MovementPacketTracker::default
FreshTracker == [pose |-> None, input |-> {}, sprinting |-> FALSE, reminder |-> 0]

Init ==
  /\ ui = [held |-> {}, sequence |-> 0, actions |-> 0, resets |-> 0]
  /\ mailbox = [input |-> {}, sequence |-> 0, journal |-> <<>>, coalesced |-> 0,
                pending |-> 0, intended |-> None, commands |-> 0]
  /\ body = None
  /\ tracker = FreshTracker
  /\ told = [input |-> {}, sprinting |-> FALSE, pos |-> None, yaw |-> None,
             age |-> 0, displaced |-> FALSE, rebased |-> FALSE]
  /\ commands = [accepted |-> 0, served |-> 0]

-----------------------------------------------------------------------------
(* The window thread.                                                      *)

\* Mutant of Recorded: a full journal drops the newest transition.
RecordedUnlessFull(m, sequence, input) ==
  IF sequence <= m.sequence \/ m.input = input \/ Len(m.journal) = JournalCapacity
  THEN [m EXCEPT !.sequence = IF sequence <= @ THEN @ ELSE sequence]
  ELSE [m EXCEPT !.sequence = sequence, !.input = input, !.journal = Append(@, input)]

\* Mutant of Recorded: a full journal is not shortened.
RecordedUnbounded(m, sequence, input) ==
  IF sequence <= m.sequence \/ m.input = input THEN m
  ELSE [m EXCEPT !.sequence = sequence, !.input = input, !.journal = Append(@, input)]

\* record_input_transition: the newest state always counts; a full journal loses its
\* oldest transition.
Recorded(m, sequence, input) ==
  IF sequence <= m.sequence THEN m
  ELSE IF m.input = input THEN [m EXCEPT !.sequence = sequence]
  ELSE LET full == Len(m.journal) = JournalCapacity IN
       [m EXCEPT !.sequence = sequence, !.input = input,
                 !.journal = Append(IF full THEN Tail(@) ELSE @, input),
                 !.coalesced = IF full THEN @ + 1 ELSE @]

Acts == ui.actions < MaxActions

\* update_key when the held keys change, or clear_input (k = {}) on focus loss, Escape
\* and mode switches, even with nothing held.
SetInput(k) ==
  /\ Acts /\ (k # ui.held \/ k = {})
  /\ ui' = [ui EXCEPT !.held = k, !.sequence = @ + 1, !.actions = @ + 1]
  /\ mailbox' = Recorded(mailbox, ui.sequence + 1, k)
  /\ UNCHANGED <<body, tracker, told, commands>>

\* add_look_delta; device_event numbers the deltas upwards, so none is stale.
AddLook(delta) ==
  /\ Acts
  /\ ui' = [ui EXCEPT !.actions = @ + 1]
  /\ mailbox' = [mailbox EXCEPT !.pending = (@ + delta) % Turn,
                                !.intended = IF @ = None THEN None ELSE (@ + delta) % Turn]
  /\ UNCHANGED <<body, tracker, told, commands>>

\* inventory_command: refused when the mailbox is full.
InventoryAction ==
  /\ Acts
  /\ ui' = [ui EXCEPT !.actions = @ + 1]
  /\ IF mailbox.commands = CommandCapacity
     THEN UNCHANGED <<mailbox, commands>>
     ELSE /\ mailbox' = [mailbox EXCEPT !.commands = @ + 1]
          /\ commands' = [commands EXCEPT !.accepted = @ + 1]
  /\ UNCHANGED <<body, tracker, told>>

-----------------------------------------------------------------------------
(* The network task.                                                       *)

\* Mutant of Taken: the pending look survives the sample.
TakenKeepingLook(m) == [m EXCEPT !.journal = <<>>, !.coalesced = 0, !.commands = 0]

\* WorldControlRunner::take
Taken(m) == [m EXCEPT !.journal = <<>>, !.coalesced = 0, !.pending = 0, !.commands = 0]

\* A tick without a simulation: the sample is taken and discarded.
IdleTick ==
  /\ body = None
  /\ mailbox' = Taken(mailbox)
  /\ UNCHANGED <<ui, body, tracker, told, commands>>

Distance(a, b) == IF a < b THEN b - a ELSE a - b

\* Mutant of PositionDue: the reminder is not consulted.
PositionDueOnMove(pos) == Distance(pos, tracker.pose.pos) > Epsilon

\* Mutant of PositionDue: only the step of this tick is compared.
PositionDueOnStep(pos) == \/ Distance(pos, body.pos) > Epsilon
                          \/ tracker.reminder + 1 >= ForcedInterval

\* position_changed
PositionDue(pos) == \/ Distance(pos, tracker.pose.pos) > Epsilon
                    \/ tracker.reminder + 1 >= ForcedInterval

\* frames_with_flight: what is told, and the baselines after it.  The journal's
\* transitions precede the held state, so the last input told is the held one.
Tell(pos, yaw, sprinting) ==
  LET due == PositionDue(pos) IN
  /\ tracker' = [pose      |-> [pos |-> IF due THEN pos ELSE tracker.pose.pos, yaw |-> yaw],
                 input     |-> mailbox.input,
                 sprinting |-> sprinting,
                 reminder  |-> IF due THEN 0 ELSE tracker.reminder + 1]
  /\ told' = [input     |-> IF \E k \in Range(mailbox.journal) \cup {mailbox.input} : k # tracker.input
                            THEN mailbox.input ELSE told.input,
              sprinting |-> IF sprinting # tracker.sprinting THEN sprinting ELSE told.sprinting,
              pos       |-> IF due THEN pos ELSE told.pos,
              yaw       |-> IF yaw # tracker.pose.yaw THEN yaw ELSE told.yaw,
              age       |-> IF due THEN 0
                            ELSE IF told.age < ForcedInterval THEN told.age + 1 ELSE told.age,
              displaced |-> FALSE,
              rebased   |-> told.rebased /\ ~due]

\* The look a tick turns the player to: the intended one, once there is one.
SampledYaw == IF mailbox.intended # None THEN mailbox.intended
                                         ELSE (body.yaw + mailbox.pending) % Turn

\* A tick with a simulation; pos and sprinting are what the physics makes of the input.
Tick(pos, sprinting) ==
  /\ body # None
  /\ Distance(pos, body.pos) <= MaxStep
  /\ mailbox' = Taken(mailbox)
  /\ body' = [pos |-> pos, yaw |-> SampledYaw]
  /\ Tell(pos, SampledYaw, sprinting)
  /\ commands' = [commands EXCEPT !.served = @ + mailbox.commands]
  /\ UNCHANGED ui

\* rebase_look
Rebased(m, yaw) == [m EXCEPT !.pending = 0, !.intended = yaw]

\* packets.reset
Baseline(pos, yaw) == [tracker EXCEPT !.pose = [pos |-> pos, yaw |-> yaw], !.reminder = 0]

\* Player Position: applied to the world, confirmed, and reconcile.
Teleport(pos, yaw) ==
  /\ body' = [pos |-> pos, yaw |-> yaw]
  /\ mailbox' = Rebased(mailbox, yaw)
  /\ tracker' = Baseline(pos, yaw)
  /\ told' = [told EXCEPT !.pos = pos, !.yaw = yaw, !.age = 0,
                        !.displaced = FALSE, !.rebased = FALSE]
  /\ UNCHANGED <<ui, commands>>

\* Player Rotation: the whole pose becomes the baseline, its position included.
Rotate(yaw) ==
  /\ body # None
  /\ body' = [body EXCEPT !.yaw = yaw]
  /\ mailbox' = Rebased(mailbox, yaw)
  /\ tracker' = Baseline(body.pos, yaw)
  /\ told' = [told EXCEPT !.yaw = yaw, !.age = 0, !.rebased = @ \/ told.pos # body.pos]
  /\ UNCHANGED <<ui, commands>>

\* finish_prediction_resolution: back to the position before a refused placement.
RollBack(pos) ==
  /\ body # None /\ pos # body.pos
  /\ body' = [body EXCEPT !.pos = pos]
  /\ told' = [told EXCEPT !.displaced = TRUE]
  /\ UNCHANGED <<ui, mailbox, tracker, commands>>

\* Mutant of TrackerAfterReset: the baselines outlive the respawn.
TrackerKept == [tracker EXCEPT !.pose = None]

\* The tracker is built anew.
TrackerAfterReset == FreshTracker

\* WorldMovementController::reset on a respawn or reconfiguration.  The server's new
\* player entity holds no key and does not sprint.
Reset ==
  /\ ui.resets < MaxResets
  /\ ui' = [ui EXCEPT !.resets = @ + 1]
  /\ body' = None
  /\ tracker' = TrackerAfterReset
  /\ mailbox' = [mailbox EXCEPT !.pending = 0, !.intended = None]
  /\ told' = [input |-> {}, sprinting |-> FALSE, pos |-> None, yaw |-> None,
              age |-> 0, displaced |-> FALSE, rebased |-> FALSE]
  /\ UNCHANGED commands

-----------------------------------------------------------------------------
Ticks == IdleTick \/ \E pos \in Positions, sprinting \in BOOLEAN : Tick(pos, sprinting)

User == \/ \E k \in Inputs : SetInput(k)
        \/ \E delta \in Yaws \ {0} : AddLook(delta)
        \/ InventoryAction

Next ==
  \/ User \/ Ticks \/ Reset
  \/ \E pos \in Positions, yaw \in Yaws : Teleport(pos, yaw)
  \/ \E yaw \in Yaws : Rotate(yaw)
  \/ \E pos \in Positions : RollBack(pos)

Spec == Init /\ [][Next]_vars

\* The interval fires at 20 Hz, and select! picks among its ready branches at random.
FairSpec == Spec /\ WF_vars(Ticks)

-----------------------------------------------------------------------------
(* Properties.                                                             *)

\* Type invariant of the controls, the simulation and the packet baselines.
TypeOK ==
  /\ ui \in [held : Inputs, sequence : 0..MaxActions, actions : 0..MaxActions,
             resets : 0..MaxResets]
  /\ mailbox \in [input : Inputs, sequence : 0..MaxActions, journal : Seq(Inputs),
                  coalesced : Nat, pending : Yaws, intended : Yaws \cup {None},
                  commands : 0..CommandCapacity]
  /\ Len(mailbox.journal) <= JournalCapacity
  /\ body \in [pos : Positions, yaw : Yaws] \cup {None}
  /\ tracker \in [pose : [pos : Positions, yaw : Yaws] \cup {None}, input : Inputs,
                  sprinting : BOOLEAN, reminder : 0..ForcedInterval]
  /\ told \in [input : Inputs, sprinting : BOOLEAN, pos : Positions \cup {None},
               yaw : Yaws \cup {None}, age : 0..ForcedInterval,
              displaced : BOOLEAN, rebased : BOOLEAN]
  /\ commands \in [accepted : Nat, served : Nat]

\* Mouse motion is neither lost nor applied twice: the look the user intends is the
\* simulated look plus the motion not sampled yet, across ticks, corrections and
\* motion that arrives between them (add_look_delta, take, rebase_look).
LookExact ==
  body # None => mailbox.intended = (body.yaw + mailbox.pending) % Turn

\* The server is never left with an outdated look, sprint or key state by the
\* baselines: what the tracker believes to have sent is what was sent.  After every tick
\* it knows the position up to Epsilon, however small steps add up (position_changed
\* compares with the last position sent), unless a rotation has made an untold position
\* the baseline, and exactly after 20 ticks (docs/MOVEMENT.md:74: "a forced positional
\* update after 20 ticks"), counted from the last position told or, as Player Rotation
\* restarts the count, from the last rotation.
PositionKnown ==
  body # None =>
    /\ ~told.displaced /\ ~told.rebased => Distance(told.pos, body.pos) <= Epsilon
    /\ told.age < ForcedInterval
ServerInformed ==
  /\ tracker.input = told.input /\ tracker.sprinting = told.sprinting
  /\ body # None => told.yaw = body.yaw /\ tracker.pose.yaw = body.yaw
  /\ PositionKnown

\* docs/MOVEMENT.md:9: "journal eviction cannot leave a key permanently latched": when
\* the held keys stay as they are and the simulation runs, the server comes to know them.
HeldStateArrives ==
  \A k \in Inputs : <>[](ui.held = k /\ body # None) => <>[](told.input = k)

\* world_movement.rs:193: "Enqueues an inventory action without ever discarding an
\* older action": every accepted command was served or is still queued.
AcceptedAreServed == commands.accepted = commands.served + mailbox.commands
=============================================================================
