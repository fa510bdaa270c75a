--------------------------- MODULE BlockPrediction ---------------------------
(***************************************************************************)
(* Local prediction of block breaking and placing, and its reconciliation  *)
(* with the server (BlockInteractionTracker in cubic-network/src/          *)
(* world_movement.rs, its callers in chat_session.rs).                     *)
(*                                                                         *)
(* Every 50 ms tick may abort, start or complete a break and use the held  *)
(* item; each action carries the next sequence number.  A completed break  *)
(* and a safe placement change the client's own block at once and are      *)
(* remembered, with the state the server is believed to have, until a      *)
(* Block Changed Ack covers their sequence number.                         *)
(*                                                                         *)
(* The connection is two FIFO channels.  The server (external) decides     *)
(* about each action when it processes it, announces every block change,   *)
(* and acknowledges the highest sequence number it has processed after the *)
(* announcements.  All positions lie in one chunk.                         *)
(***************************************************************************)
EXTENDS Naturals, Sequences, FiniteSets

CONSTANTS Positions,       \* block positions of the chunk
          States,          \* block states
          Air,
          Breakable,       \* states with positive destroy progress for the held item
          Placements,      \* states the held item may place (safe_placement_state)
          MaxPredictions,  \* MAX_BLOCK_PREDICTIONS
          DestroyDelay,    \* CREATIVE_DESTROY_DELAY_TICKS
          MaxPresses       \* use presses sampled by one tick

CONSTANTS Habits,  \* the servers met: each a set of the habits below
          Budget   \* bound: actions sent plus changes made by the server

\* What a server may do besides deciding about actions and acknowledging them:
\* announce the blocks of every action, change blocks for others, unload and
\* send the chunk again, respawn the player, change the game mode.
AllHabits == {"corrects", "others", "reloads", "respawns", "modes"}

CONSTANTS None,      \* Option::None
          Unloaded   \* the client has no such chunk

ASSUME PredictionAssumption ==
  /\ Air \in States /\ Breakable \subseteq States \ {Air} /\ Placements \subseteq States \ {Air}
  /\ Unloaded \notin States
  /\ None \notin States \cup Positions \cup Nat \cup [position : Positions, state : States]
  /\ {MaxPredictions, DestroyDelay} \subseteq Nat \ {0}
  /\ MaxPresses \in Nat /\ Budget \in Nat
  /\ Habits \subseteq SUBSET AllHabits
  /\ IsFiniteSet(Positions)

VARIABLES client,    \* the blocks of the client's WorldState
          tracker,   \* BlockInteractionTracker
          creative,  \* the game mode of the client's world session
          placed,    \* the movement simulation exists: the tick runs interactions
          server,    \* external: its habits, blocks, mode, unsent ack, and whether
                     \* it has sent the client the chunk
          toServer, toClient,
          budget

vars == <<client, tracker, creative, placed, server, toServer, toClient, budget>>

NewTracker == [activeBreak |-> None, destroyDelay |-> 0, nextSequence |-> 0,
               latestAcknowledged |-> None, predictions |-> <<>>]

Init ==
  /\ client \in [Positions -> States]
  /\ tracker = NewTracker
  /\ \E habits \in Habits :
       /\ creative \in IF "modes" \in habits THEN BOOLEAN ELSE {FALSE}
       /\ server = [habits |-> habits, blocks |-> client, creative |-> creative,
                    ack |-> None, sent |-> TRUE]
  /\ placed = TRUE
  /\ toServer = <<>> /\ toClient = <<>>
  /\ budget = Budget

-----------------------------------------------------------------------------
(* BlockInteractionTracker::register_prediction                            *)

PredictionAt(ps, p) == {i \in DOMAIN ps : ps[i].position = p}

CanRegister(ps, p) == PredictionAt(ps, p) # {} \/ Len(ps) < MaxPredictions

\* VecDeque::remove
Removed(ps, i) == [k \in 1..(Len(ps) - 1) |-> IF k < i THEN ps[k] ELSE ps[k + 1]]

Prediction(sequence, p, base, expected) ==
  [sequence |-> sequence, position |-> p, serverState |-> base, expected |-> expected]

\* Mutant of Registered: a second prediction takes the shown state as the server's.
RegisteredAfresh(ps, sequence, p, observed, expected) ==
  Append(IF PredictionAt(ps, p) = {} THEN ps ELSE Removed(ps, CHOOSE i \in PredictionAt(ps, p) : TRUE),
         Prediction(sequence, p, observed, expected))

\* A second prediction for a position moves to the back of the queue and keeps
\* the server state retained by the first.
Registered(ps, sequence, p, observed, expected) ==
  IF PredictionAt(ps, p) = {} THEN Append(ps, Prediction(sequence, p, observed, expected))
  ELSE LET i == CHOOSE i \in PredictionAt(ps, p) : TRUE
       IN  Append(Removed(ps, i), Prediction(sequence, p, ps[i].serverState, expected))

-----------------------------------------------------------------------------
(* BlockInteractionTracker::tick builds an outcome: the tracker, the       *)
(* frames to write and at most one predicted block update.                 *)

\* sequence(), and the frame that carries it.
Emit(o, kind, p, adjacent, item) ==
  [o EXCEPT !.tracker.nextSequence = @ + 1,
            !.frames = Append(@, [kind |-> kind, position |-> p, adjacent |-> adjacent,
                                  item |-> item, sequence |-> o.tracker.nextSequence])]

Predict(o, sequence, p, observed, expected) ==
  IF CanRegister(o.tracker.predictions, p)
  THEN [o EXCEPT !.tracker.predictions = Registered(@, sequence, p, observed, expected),
                 !.update = [position |-> p, state |-> expected]]
  ELSE o

\* Mutant of Rearmed: a press while the delay runs adds to it.
RearmedOnTop(o) == [o EXCEPT !.tracker.destroyDelay = @ + DestroyDelay]

Rearmed(o) == [o EXCEPT !.tracker.destroyDelay = DestroyDelay]

\* creative_attack_ready: a fresh press acts at once, a held button every
\* DestroyDelay ticks.
CreativeBreak(o, target, attack, pressed) ==
  LET idle  == [o EXCEPT !.tracker.activeBreak = None]
      armed == Rearmed(idle)
      acted == IF target = None THEN armed ELSE Emit(armed, "start", target, None, None)
  IN  CASE ~attack                                  -> idle
        [] attack /\ pressed                        -> acted
        [] attack /\ ~pressed /\ o.tracker.destroyDelay > 0
                                                    -> [idle EXCEPT !.tracker.destroyDelay = @ - 1]
        [] OTHER                                    -> IF target = None THEN idle ELSE acted

\* Abort when the button or the target is lost, then start, or go on with a
\* break that was started in an earlier tick and may be finished by this one.
SurvivalBreak(o, target, attack, finished) ==
  LET active == o.tracker.activeBreak
      lost   == active # None /\ (~attack \/ target # active.position)
      kept   == IF lost THEN Emit([o EXCEPT !.tracker.activeBreak = None],
                                  "abort", active.position, None, None) ELSE o
      starts == /\ attack /\ kept.tracker.activeBreak = None
                /\ target # None /\ client[target] \in Breakable
      stops  == attack /\ ~starts /\ kept.tracker.activeBreak # None /\ finished
  IN  IF o.tracker.destroyDelay > 0 THEN [o EXCEPT !.tracker.destroyDelay = @ - 1]
      ELSE IF starts
      THEN [Emit(kept, "start", target, None, None)
             EXCEPT !.tracker.activeBreak = [position |-> target, state |-> client[target]]]
      ELSE IF stops
      THEN Predict(Rearmed([Emit(kept, "stop", active.position, None, None)
                              EXCEPT !.tracker.activeBreak = None]),
                   kept.tracker.nextSequence, active.position, active.state, Air)
      ELSE kept

\* One use press.  Only one prediction per tick, and only into air.
UsePress(o, target, adjacent, item) ==
  LET sent == Emit(o, "use", target, adjacent, item)
  IN  IF target # None /\ o.update = None /\ item \in Placements /\ client[adjacent] = Air
      THEN Predict(sent, o.tracker.nextSequence, adjacent, Air, item)
      ELSE sent

\* The presses of a tick meet the same world, target and hand: if the first does not
\* predict the placement, none does, and if it does, it is the only one.
UsePresses(o, presses, target, adjacent, item) ==
  LET first == UsePress(o, target, adjacent, item)
      again(i) == [kind |-> "use", position |-> target, adjacent |-> adjacent, item |-> item,
                   sequence |-> o.tracker.nextSequence + i]
  IN  IF presses = 0 THEN o
      ELSE [first EXCEPT !.tracker.nextSequence = @ + (presses - 1),
                         !.frames = @ \o [i \in 1..(presses - 1) |-> again(i)]]

\* edge is attack_changed in Creative, and whether the break's progress has
\* reached 1 in Survival.
Interaction(target, attack, edge, use) ==
  LET start  == [tracker |-> tracker, frames |-> <<>>, update |-> None]
      broken == IF creative THEN CreativeBreak(start, target, attack, edge)
                ELSE SurvivalBreak(start, target, attack, edge)
  IN  UsePresses(broken, use.presses, target, use.adjacent, use.item)

\* raycast_blocks: a block that is loaded and not air, or nothing.
Targets == {p \in Positions : client[p] \notin {Air, Unloaded}} \cup {None}

\* The presses of a tick, the block next to the hit face, and what the hand places.
Uses(target) ==
  {[presses |-> 0, adjacent |-> None, item |-> None]}
  \cup [presses : 1..MaxPresses, adjacent : Positions \ {target}, item : Placements \cup {None}]

\* service_movement_tick: the predicted block is changed, then the frames go out.
Tick(target, attack, edge, use) ==
  /\ placed
  /\ LET o == Interaction(target, attack, edge, use)
     IN  /\ Len(o.frames) <= budget
         /\ tracker' = o.tracker
         /\ client' = IF o.update = None \/ client[o.update.position] = Unloaded THEN client
                      ELSE [client EXCEPT ![o.update.position] = o.update.state]
         /\ toServer' = toServer \o o.frames
         /\ budget' = budget - Len(o.frames)
  /\ UNCHANGED <<creative, placed, server, toClient>>

-----------------------------------------------------------------------------
(* The client handles the next packet.                                     *)

Receiving(kind) == toClient # <<>> /\ Head(toClient).kind = kind

\* reconcile_block_updates: a prediction keeps the server's state for later.
Retained(ps, p, s) ==
  [i \in DOMAIN ps |-> IF ps[i].position = p THEN [ps[i] EXCEPT !.serverState = s] ELSE ps[i]]

\* Mutant of Shown: the update is shown under a pending prediction, too.
ShownAlways(ps, p, s) == [client EXCEPT ![p] = IF @ = Unloaded THEN @ ELSE s]

Shown(ps, p, s) ==
  [client EXCEPT ![p] = IF @ = Unloaded \/ PredictionAt(ps, p) # {} THEN @ ELSE s]

ReceiveUpdate ==
  /\ Receiving("update")
  /\ LET m == Head(toClient)
     IN  /\ tracker' = [tracker EXCEPT !.predictions = Retained(@, m.position, m.state)]
         /\ client' = Shown(tracker.predictions, m.position, m.state)
  /\ toClient' = Tail(toClient)
  /\ UNCHANGED <<creative, placed, server, toServer, budget>>

\* Mutant of Covered: predictions below the sequence stay.
CoveredBelow(ps, sequence) ==
  CHOOSE n \in 0..Len(ps) : /\ \A i \in 1..n : ps[i].sequence < sequence
                            /\ n < Len(ps) => ps[n + 1].sequence >= sequence

\* The loop of acknowledge: from the front, while the sequence is covered.
Covered(ps, sequence) ==
  CHOOSE n \in 0..Len(ps) : /\ \A i \in 1..n : ps[i].sequence <= sequence
                            /\ n < Len(ps) => ps[n + 1].sequence > sequence

Fresh(sequence) == tracker.latestAcknowledged = None \/ sequence > tracker.latestAcknowledged

\* acknowledge, and the application of its updates to the world.
ReceiveAck ==
  /\ Receiving("ack")
  /\ LET sequence == Head(toClient).sequence
         ps == tracker.predictions
         n  == Covered(ps, sequence)
     IN  IF Fresh(sequence)
         THEN /\ tracker' = [tracker EXCEPT !.latestAcknowledged = sequence,
                                            !.predictions = SubSeq(@, n + 1, Len(@))]
              /\ client' = [p \in Positions |->
                   IF client[p] # Unloaded /\ PredictionAt(ps, p) \cap 1..n # {}
                   THEN ps[CHOOSE i \in PredictionAt(ps, p) \cap 1..n : TRUE].serverState
                   ELSE client[p]]
         ELSE UNCHANGED <<tracker, client>>
  /\ toClient' = Tail(toClient)
  /\ UNCHANGED <<creative, placed, server, toServer, budget>>

\* ChunkAdaptation::Load and ::Unload go straight to the world.
ReceiveChunk ==
  /\ Receiving("chunk")
  /\ client' = Head(toClient).blocks
  /\ toClient' = Tail(toClient)
  /\ UNCHANGED <<tracker, creative, placed, server, toServer, budget>>

ReceiveUnload ==
  /\ Receiving("unload")
  /\ client' = [p \in Positions |-> Unloaded]
  /\ toClient' = Tail(toClient)
  /\ UNCHANGED <<tracker, creative, placed, server, toServer, budget>>

\* Mutant of AfterReset: the sequence restarts under the old predictions.
AfterResetKeepingQueue == [NewTracker EXCEPT !.predictions = tracker.predictions]

\* BlockInteractionTracker::reset
AfterReset == NewTracker

\* Respawn: the world is emptied and WorldMovementController::reset runs.
ReceiveRespawn ==
  /\ Receiving("respawn")
  /\ client' = [p \in Positions |-> Unloaded]
  /\ tracker' = AfterReset
  /\ placed' = FALSE
  /\ toClient' = Tail(toClient)
  /\ UNCHANGED <<creative, server, toServer, budget>>

ReceivePosition ==
  /\ Receiving("position")
  /\ placed' = TRUE
  /\ toClient' = Tail(toClient)
  /\ UNCHANGED <<client, tracker, creative, server, toServer, budget>>

\* A game-event packet: only the session's game mode changes.
ReceiveMode ==
  /\ Receiving("mode")
  /\ creative' = Head(toClient).creative
  /\ toClient' = Tail(toClient)
  /\ UNCHANGED <<client, tracker, placed, server, toServer, budget>>

-----------------------------------------------------------------------------
(* The server.                                                             *)

Has(habit) == habit \in server.habits

Announce(p, s) == [kind |-> "update", position |-> p, state |-> s]

\* What the server's blocks may be once it has decided about an action.
Decisions(a) ==
  LET b == server.blocks
      broken == IF a.kind = "stop" \/ (server.creative /\ a.kind = "start")
                THEN {[b EXCEPT ![a.position] = Air]} ELSE {}
      put    == IF a.kind = "use" /\ a.position # None /\ a.item \in Placements
                   /\ b[a.adjacent] = Air
                THEN {[b EXCEPT ![a.adjacent] = a.item]} ELSE {}
  IN  {b} \cup broken \cup put

\* The blocks an action is about, in the order they are announced.
About(a) == IF a.kind = "use"
            THEN IF a.position = None THEN <<>> ELSE <<a.position, a.adjacent>>
            ELSE IF a.kind = "stop" \/ (server.creative /\ a.kind = "start") THEN <<a.position>> ELSE <<>>

\* What is announced of the block at p: a change, or anything if the server corrects.
Told(p, blocks) ==
  IF server.sent /\ (Has("corrects") \/ blocks[p] # server.blocks[p])
  THEN <<Announce(p, blocks[p])>> ELSE <<>>

Higher(ack, sequence) == IF ack = None \/ sequence > ack THEN sequence ELSE ack

Process ==
  /\ toServer # <<>>
  /\ \E blocks \in Decisions(Head(toServer)) :
       LET a == Head(toServer)
           about == About(a)
       IN  /\ server' = [server EXCEPT !.blocks = blocks, !.ack = Higher(@, a.sequence)]
           /\ toClient' = CASE Len(about) = 0 -> toClient
                             [] Len(about) = 1 -> toClient \o Told(about[1], blocks)
                             [] Len(about) = 2 -> (toClient \o Told(about[1], blocks)) \o Told(about[2], blocks)
  /\ toServer' = Tail(toServer)
  /\ UNCHANGED <<client, tracker, creative, placed, budget>>

SendAck ==
  /\ server.ack # None
  /\ toClient' = Append(toClient, [kind |-> "ack", sequence |-> server.ack])
  /\ server' = [server EXCEPT !.ack = None]
  /\ UNCHANGED <<client, tracker, creative, placed, toServer, budget>>

\* Another player, water, gravity...
ChangeBlock(p, s) ==
  /\ Has("others") /\ budget > 0 /\ s # server.blocks[p]
  /\ server' = [server EXCEPT !.blocks[p] = s]
  /\ toClient' = IF server.sent THEN Append(toClient, Announce(p, s)) ELSE toClient
  /\ budget' = budget - 1
  /\ UNCHANGED <<client, tracker, creative, placed, toServer>>

ChangeMode ==
  /\ Has("modes") /\ budget > 0
  /\ server' = [server EXCEPT !.creative = ~@]
  /\ toClient' = Append(toClient, [kind |-> "mode", creative |-> ~server.creative])
  /\ budget' = budget - 1
  /\ UNCHANGED <<client, tracker, creative, placed, toServer>>

UnloadChunk ==
  /\ Has("reloads") /\ budget > 0 /\ server.sent
  /\ server' = [server EXCEPT !.sent = FALSE]
  /\ toClient' = Append(toClient, [kind |-> "unload"])
  /\ budget' = budget - 1
  /\ UNCHANGED <<client, tracker, creative, placed, toServer>>

\* The chunk comes into view again, or is sent again while it is in view.
SendChunk ==
  /\ Has("reloads") /\ (~server.sent \/ budget > 0)
  /\ server' = [server EXCEPT !.sent = TRUE]
  /\ toClient' = Append(toClient, [kind |-> "chunk", blocks |-> server.blocks])
  /\ budget' = IF server.sent THEN budget - 1 ELSE budget
  /\ UNCHANGED <<client, tracker, creative, placed, toServer>>

Respawn ==
  /\ Has("respawns") /\ budget > 0 /\ server.sent
  /\ toClient' = toClient \o << [kind |-> "respawn"], [kind |-> "position"],
                                [kind |-> "chunk", blocks |-> server.blocks] >>
  /\ budget' = budget - 1
  /\ UNCHANGED <<client, tracker, creative, placed, server, toServer>>

-----------------------------------------------------------------------------
Receive == \/ ReceiveUpdate \/ ReceiveAck \/ ReceiveChunk \/ ReceiveUnload
           \/ ReceiveRespawn \/ ReceivePosition \/ ReceiveMode

TickStep == \E target \in Targets : \E use \in Uses(target) :
              \/ Tick(target, FALSE, FALSE, use)
              \/ \E edge \in BOOLEAN : Tick(target, TRUE, edge, use)

ServerStep == \/ Process \/ SendAck
              \/ \E p \in Positions, s \in States : ChangeBlock(p, s)
              \/ ChangeMode \/ UnloadChunk \/ SendChunk \/ Respawn

Next == TickStep \/ Receive \/ ServerStep

Spec == Init /\ [][Next]_vars

\* Both ends read their socket, and the server acknowledges at the end of its tick.
FairSpec == Spec /\ WF_vars(Receive) /\ WF_vars(Process) /\ WF_vars(SendAck)

-----------------------------------------------------------------------------
(* Properties.                                                             *)

Predictions == [sequence : Nat, position : Positions, serverState : States, expected : States]
Frames == [kind : {"start", "abort", "stop", "use"}, position : Positions \cup {None},
           adjacent : Positions \cup {None}, item : Placements \cup {None}, sequence : Nat]
Packets == [kind : {"update"}, position : Positions, state : States]
           \cup [kind : {"ack"}, sequence : Nat]
           \cup [kind : {"mode"}, creative : BOOLEAN]
           \cup [kind : {"chunk"}, blocks : [Positions -> States]]
           \cup [kind : {"unload", "respawn", "position"}]

\* The queue can be retired from the front: at most one prediction per position,
\* in the order of their sequence numbers, and never more than the bound, also
\* across resets, reloads and acknowledgements of the session before.
QueueOrdered ==
  LET ps == tracker.predictions
  IN  /\ Len(ps) <= MaxPredictions
      /\ \A i, j \in DOMAIN ps : i < j => /\ ps[i].sequence < ps[j].sequence
                                          /\ ps[i].position # ps[j].position
      /\ \A i \in DOMAIN ps : ps[i].sequence < tracker.nextSequence

\* Every variable stays in the set of values its Rust type can hold, and the queue in order.
TypeOK ==
  /\ client \in [Positions -> States \cup {Unloaded}]
  /\ tracker \in [activeBreak : [position : Positions, state : States] \cup {None},
                  destroyDelay : 0..DestroyDelay, nextSequence : Nat,
                  latestAcknowledged : Nat \cup {None}, predictions : Seq(Predictions)]
  /\ creative \in BOOLEAN /\ placed \in BOOLEAN
  /\ server \in [habits : Habits, blocks : [Positions -> States], creative : BOOLEAN,
                 ack : Nat \cup {None}, sent : BOOLEAN]
  /\ toServer \in Seq(Frames) /\ toClient \in Seq(Packets)
  /\ budget \in Nat
  /\ QueueOrdered

\* The world is one the tracker was written for: the chunk stays, the player lives.
Steady == ~Has("reloads") /\ ~Has("respawns")

\* A prediction stays on screen until it is resolved: no authoritative update
\* that arrives before its acknowledgement makes the block flicker.
PredictionShown ==
  Steady => \A i \in DOMAIN tracker.predictions :
              client[tracker.predictions[i].position] = tracker.predictions[i].expected

Quiet == /\ toServer = <<>> /\ toClient = <<>>
         /\ server.ack = None /\ server.sent /\ placed

\* The server is the source of truth: once everything in flight has been
\* processed, no prediction is left and the client shows the server's blocks,
\* whatever was predicted, refused or changed by others in between.
ServerWins == Quiet => tracker.predictions = <<>> /\ client = server.blocks

\* No block can have become another while it was being broken: there is one kind, and
\* only this player changes any.
OneKind == ~Has("others") /\ \A s, t \in States \ {Air} : s = t

\* The same, of a steady world: of a server that corrects every action, or of one that
\* only tells what changed where there is one kind of block.  Elsewhere a completed break
\* may retain the state of a block that had changed since the break began.
SteadyServerWins == Steady /\ (Has("corrects") \/ OneKind) => ServerWins

\* Every prediction is resolved in the end.
PredictionsResolve == (Steady /\ tracker.predictions # <<>>) ~> (tracker.predictions = <<>>)
=============================================================================
