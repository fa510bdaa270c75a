----------------------------- MODULE SessionPort -----------------------------
(***************************************************************************)
(* The port between the network task and the window thread                 *)
(* (ChatSessionHandle and ChatSessionRunner of                             *)
(* cubic-network/src/chat_session.rs): a bounded queue of events, one slot *)
(* for critical events, a counter of dropped events and a bounded queue of *)
(* commands.  The window thread polls the port (ChatMode::poll) and closes *)
(* it by dropping its handle; the network task closes it by returning.     *)
(*                                                                         *)
(* A poll is a sequence of separate reads, so the task moves between them. *)
(* The task raises the alerts of one health packet one by one.             *)
(***************************************************************************)
EXTENDS Naturals, Sequences, FiniteSets

CONSTANTS EventCapacity,       \* ChatSessionOptions::event_capacity
          CommandCapacity,     \* ChatSessionOptions::command_capacity
          MaxHealth,           \* health readings are 0..MaxHealth
          LowHealthThreshold,  \* LOW_HEALTH_THRESHOLD
          Kinds,               \* the sessions run: of Chat Mode, of World Mode
          MaxPackets,          \* bound: packets the server sends
          MaxSends             \* bound: messages the user enters

CONSTANT None

ASSUME PortAssumption ==
  /\ EventCapacity \in Nat \ {0} /\ CommandCapacity \in Nat \ {0}
  /\ MaxHealth \in Nat /\ LowHealthThreshold \in Nat
  /\ Kinds \subseteq {"chat", "world"}
  /\ MaxPackets \in Nat /\ MaxSends \in Nat

Alerts    == {"Damage", "LowHealth", "Death", "Drowning", "LargeDisplacement"}
Regular   == {"Connected", "Message", "Warning"}
Commands  == {"SendMessage", "Disconnect"}
NoAlerts  == [k \in Alerts |-> 0]

VARIABLES port,   \* the shared structures
          task,   \* the network task, with its SessionSafetyTracker
          ui,     \* the window thread: event loop, poll in progress, ChatModel state
          seen    \* history: what was offered, raised, shown and reported, and
        \* how often the server's word on the air turned dangerous

portVars == <<port, task, ui, seen>>

\* SessionSafetyTracker::default
FreshTracker == [health |-> None, low |-> FALSE, dead |-> FALSE, drowning |-> FALSE]

PortInit ==
  /\ port = [events |-> <<>>, commands |-> <<>>, critical |-> None, dropped |-> 0,
             mode |-> "Chat", open |-> TRUE]
  /\ \E kind \in Kinds :
       task = [kind |-> kind, phase |-> "connecting", alerts |-> <<>>,
               safety |-> FreshTracker, packets |-> 0]
  /\ ui = [loop |-> "running", poll |-> "idle", state |-> "Connecting",
           reported |-> FALSE, sends |-> 0]
  /\ seen = [offered |-> 0, received |-> 0, told |-> 0,
             raised |-> NoAlerts, shown |-> NoAlerts, reason |-> "none",
             lowAir |-> FALSE, crossings |-> 0]

WorldMode == task.kind = "world"

-----------------------------------------------------------------------------
(* ChatSessionRunner.                                                      *)

\* The runner exists until the session function has returned.
RunnerLives == task.phase # "ended"

\* Mutant of Offer: a full queue drops the event without counting it.
OfferUncounted(p, e) ==
  IF p.open /\ Len(p.events) < EventCapacity THEN [p EXCEPT !.events = Append(@, e)] ELSE p

\* Mutant of Offer: the queue grows instead of dropping.
OfferUnbounded(p, e) == IF p.open THEN [p EXCEPT !.events = Append(@, e)] ELSE p

\* event: try_send; a full queue counts the drop, a dropped handle does not.
Offer(p, e) ==
  IF ~p.open THEN p
  ELSE IF Len(p.events) < EventCapacity THEN [p EXCEPT !.events = Append(@, e)]
  ELSE [p EXCEPT !.dropped = @ + 1]

Event(e) == /\ port' = Offer(port, e)
            /\ seen' = [seen EXCEPT !.offered = IF port.open THEN @ + 1 ELSE @]

\* Mutant of Critical: the first critical event wins.
CriticalFirstWins(p, e) == IF p.critical = None THEN [p EXCEPT !.critical = e] ELSE p

\* critical: the newest critical event replaces one that was not taken yet.
Critical(p, e) == [p EXCEPT !.critical = e]

-----------------------------------------------------------------------------
(* SessionSafetyTracker.                                                   *)

When(condition, alert) == IF condition THEN <<alert>> ELSE <<>>

\* health_alerts
HealthAlerts(s, h) ==
  When(h = 0 /\ ~s.dead, "Death")
    \o When(h # 0 /\ s.health # None /\ h < s.health, "Damage")
    \o When(h # 0 /\ h <= LowHealthThreshold /\ ~s.low, "LowHealth")

AfterHealth(s, h) == [s EXCEPT !.health = h, !.dead = (h = 0),
                               !.low = (h # 0 /\ h <= LowHealthThreshold)]

\* air_alert
AirAlerts(s, dangerous) == When(dangerous /\ ~s.drowning, "Drowning")

-----------------------------------------------------------------------------
(* The network task.                                                       *)

\* The session function returns: first with the runner alive, then it is dropped.
Returning(t) == [t EXCEPT !.phase = "returning", !.alerts = <<>>]

Connect ==
  /\ task.phase = "connecting"
  /\ task' = [task EXCEPT !.phase = "playing"]
  /\ Event("Connected")
  /\ UNCHANGED ui

\* Chat sessions report why they could not connect; a world session, and a failure
\* to obtain the account before the session function is called, only drop the runner.
ConnectFails(explained) ==
  /\ task.phase = "connecting"
  /\ explained => ~WorldMode
  /\ task' = Returning(task)
  /\ port' = IF explained THEN Critical(port, "Disconnected") ELSE port
  /\ seen' = [seen EXCEPT !.reason = IF explained THEN "given" ELSE @]
  /\ UNCHANGED ui

\* The select loop takes the next packet once the previous one is handled.
NextPacket == /\ task.phase = "playing" /\ task.alerts = <<>>
              /\ task.packets < MaxPackets

ChatPacket ==
  /\ NextPacket
  /\ task' = [task EXCEPT !.packets = @ + 1]
  /\ Event("Message")
  /\ UNCHANGED ui

HealthPacket(h) ==
  /\ NextPacket
  /\ task' = [task EXCEPT !.packets = @ + 1,
                          !.alerts = HealthAlerts(task.safety, h),
                          !.safety = AfterHealth(@, h)]
  /\ UNCHANGED <<port, ui, seen>>

\* Set Entity Data for the player's own entity, with the standalone air field.  In
\* World Mode the entity decoder takes the packet before its arm is reached.
AirPacket(dangerous) ==
  /\ NextPacket
  /\ task' = IF WorldMode THEN [task EXCEPT !.packets = @ + 1]
             ELSE [task EXCEPT !.packets = @ + 1,
                               !.alerts = AirAlerts(task.safety, dangerous),
                               !.safety.drowning = dangerous]
  /\ seen' = [seen EXCEPT !.lowAir = dangerous,
                          !.crossings = IF dangerous /\ ~seen.lowAir THEN @ + 1 ELSE @]
  /\ UNCHANGED <<port, ui>>

\* A far correction, with a movement controller and while Chat is presented.
DisplacementPacket ==
  /\ NextPacket
  /\ WorldMode /\ port.mode = "Chat"
  /\ task' = [task EXCEPT !.packets = @ + 1, !.alerts = <<"LargeDisplacement">>]
  /\ UNCHANGED <<port, ui, seen>>

\* One iteration of the loop over the alerts.
RaiseAlert ==
  /\ task.phase = "playing" /\ task.alerts # <<>>
  /\ port' = Critical(port, Head(task.alerts))
  /\ task' = [task EXCEPT !.alerts = Tail(@)]
  /\ seen' = [seen EXCEPT !.raised[Head(task.alerts)] = @ + 1]
  /\ UNCHANGED ui

\* Start Configuration: no command is served until run_configuration is done.
StartConfiguration ==
  /\ NextPacket
  /\ task' = [task EXCEPT !.packets = @ + 1, !.phase = "configuring"]
  /\ UNCHANGED <<port, ui, seen>>

FinishConfiguration ==
  /\ task.phase = "configuring"
  /\ task' = [task EXCEPT !.phase = "playing", !.safety = FreshTracker]
  /\ port' = Offer(port, "Warning")
  /\ seen' = [seen EXCEPT !.offered = IF port.open THEN @ + 1 ELSE @, !.lowAir = FALSE]
  /\ UNCHANGED ui

\* A Disconnect packet, or a failed read.
ServerDisconnects ==
  /\ task.phase = "playing" /\ task.alerts = <<>>
  /\ task' = Returning(task)
  /\ port' = Critical(port, "Disconnected")
  /\ seen' = [seen EXCEPT !.reason = "given"]
  /\ UNCHANGED ui

\* Every other error (decoding, world state, a write, an unsupported feature, a
\* failed configuration) leaves through `?`, without a critical event.
TaskFails ==
  /\ task.phase \in {"playing", "configuring"} /\ task.alerts = <<>>
  /\ task' = Returning(task)
  /\ UNCHANGED <<port, ui, seen>>

\* A message is sent, or its error is reported as a warning.
SendCommand(ok) ==
  /\ task.phase = "playing" /\ task.alerts = <<>>
  /\ port.commands # <<>> /\ Head(port.commands) = "SendMessage"
  /\ LET rest == [port EXCEPT !.commands = Tail(@)] IN
     /\ port' = IF ok THEN rest ELSE Offer(rest, "Warning")
     /\ seen' = [seen EXCEPT !.offered = IF ~ok /\ port.open THEN @ + 1 ELSE @]
  /\ UNCHANGED <<task, ui>>

\* Mutant of CommandsEnd: a closed and drained command queue is not an end.
CommandsEndOnlyOnDisconnect == port.commands # <<>> /\ Head(port.commands) = "Disconnect"

\* Disconnect, or None: the handle is gone and the queue is drained.
CommandsEnd ==
  \/ port.commands # <<>> /\ Head(port.commands) = "Disconnect"
  \/ port.commands = <<>> /\ ~port.open

LeaveCommand ==
  /\ task.phase = "playing" /\ task.alerts = <<>>
  /\ CommandsEnd
  /\ task' = Returning(task)
  /\ UNCHANGED <<port, ui, seen>>

DropRunner ==
  /\ task.phase = "returning"
  /\ task' = [task EXCEPT !.phase = "ended"]
  /\ UNCHANGED <<port, ui, seen>>

-----------------------------------------------------------------------------
(* The window thread.                                                      *)

\* ChatModel::apply, as far as the connection state goes.
Applied(state, e) ==
  CASE e = "Connected"    -> "Connected"
    [] e = "Disconnected" -> "Disconnected"
    [] OTHER              -> state

BeginPoll ==
  /\ ui.loop = "running" /\ ui.poll = "idle"
  /\ ui' = [ui EXCEPT !.poll = "events"]
  /\ UNCHANGED <<port, task, seen>>

\* try_next_event returned an event.
PollEvent ==
  /\ ui.poll = "events" /\ port.events # <<>>
  /\ port' = [port EXCEPT !.events = Tail(@)]
  /\ ui' = [ui EXCEPT !.state = Applied(@, Head(port.events))]
  /\ seen' = [seen EXCEPT !.received = @ + 1]
  /\ UNCHANGED task

\* Mutant of ClosedUnreported: a closed channel is like an empty one.
ClosedIgnored == FALSE

\* The channel is closed and try_next_event has not said so yet.
ClosedUnreported == ~RunnerLives /\ ~ui.reported

PollClosed ==
  /\ ui.poll = "events" /\ port.events = <<>> /\ ClosedUnreported
  /\ ui' = [ui EXCEPT !.reported = TRUE, !.state = Applied(@, "Disconnected")]
  /\ UNCHANGED <<port, task, seen>>

PollEmpty ==
  /\ ui.poll = "events" /\ port.events = <<>> /\ ~ClosedUnreported
  /\ ui' = [ui EXCEPT !.poll = "critical"]
  /\ UNCHANGED <<port, task, seen>>

\* take_critical_event
PollCritical ==
  /\ ui.poll = "critical"
  /\ port' = [port EXCEPT !.critical = None]
  /\ ui' = [ui EXCEPT !.poll = "dropped", !.state = Applied(@, port.critical)]
  /\ seen' = [seen EXCEPT
       !.shown = [k \in Alerts |-> IF k = port.critical THEN @[k] + 1 ELSE @[k]],
       !.reason = IF port.critical = "Disconnected" THEN "shown" ELSE @]
  /\ UNCHANGED task

\* dropped_event_count: the counter is swapped with 0 and told to the user.
PollDropped ==
  /\ ui.poll = "dropped"
  /\ port' = [port EXCEPT !.dropped = 0]
  /\ seen' = [seen EXCEPT !.told = @ + port.dropped]
  /\ ui' = [ui EXCEPT !.poll = "idle"]
  /\ UNCHANGED task

\* try_send of a command: Full and Closed are returned as errors.
WithCommand(p, c) ==
  IF RunnerLives /\ Len(p.commands) < CommandCapacity
  THEN [p EXCEPT !.commands = Append(@, c)] ELSE p

UserSends ==
  /\ ui.loop = "running" /\ ui.poll = "idle" /\ ui.sends < MaxSends
  /\ port' = WithCommand(port, "SendMessage")
  /\ ui' = [ui EXCEPT !.sends = @ + 1]
  /\ UNCHANGED <<task, seen>>

\* set_presentation_mode
SetMode(m) ==
  /\ ui.loop = "running" /\ ui.poll = "idle" /\ WorldMode /\ m # port.mode
  /\ port' = [port EXCEPT !.mode = m]
  /\ UNCHANGED <<task, ui, seen>>

\* CloseRequested and exiting: a Disconnect command if there is room for it ...
CloseWindow ==
  /\ ui.loop = "running" /\ ui.poll = "idle"
  /\ port' = WithCommand(port, "Disconnect")
  /\ ui' = [ui EXCEPT !.loop = "exiting"]
  /\ UNCHANGED <<task, seen>>

\* ... and the application is dropped with its handle; main joins the network thread.
DropHandle ==
  /\ ui.loop = "exiting"
  /\ port' = [port EXCEPT !.open = FALSE]
  /\ ui' = [ui EXCEPT !.loop = "closed"]
  /\ UNCHANGED <<task, seen>>

-----------------------------------------------------------------------------
Poll == BeginPoll \/ PollEvent \/ PollClosed \/ PollEmpty \/ PollCritical \/ PollDropped

Window == Poll \/ UserSends \/ CloseWindow \/ DropHandle \/ \E m \in {"Play", "Chat"} : SetMode(m)

Serve == (\E ok \in BOOLEAN : SendCommand(ok)) \/ LeaveCommand

Connecting == Connect \/ \E explained \in BOOLEAN : ConnectFails(explained)

Network ==
  \/ Connecting \/ ChatPacket \/ DisplacementPacket \/ RaiseAlert
  \/ \E h \in 0..MaxHealth : HealthPacket(h)
  \/ \E dangerous \in BOOLEAN : AirPacket(dangerous)
  \/ StartConfiguration \/ FinishConfiguration
  \/ ServerDisconnects \/ TaskFails \/ Serve \/ DropRunner

PortNext == Network \/ Window

PortSpec == PortInit /\ [][PortNext]_portVars

\* The event loop wakes at least every 200 ms and polls; an exiting application is
\* dropped.  The task is scheduled by its runtime: connecting and configuration are
\* limited by timeouts and packet counts, and select! picks among its ready branches
\* at random, so a waiting command is served.
Fairness ==
  /\ WF_portVars(Poll) /\ WF_portVars(DropHandle)
  /\ WF_portVars(Connecting) /\ WF_portVars(RaiseAlert)
  /\ WF_portVars(FinishConfiguration) /\ WF_portVars(Serve) /\ WF_portVars(DropRunner)

PortFairSpec == PortSpec /\ Fairness

-----------------------------------------------------------------------------
(* Properties.                                                             *)

\* Type invariant of the port and its two ends.
PortTypeOK ==
  /\ port \in [events : Seq(Regular), commands : Seq(Commands),
               critical : Alerts \cup {"Disconnected", None},
               dropped : Nat, mode : {"Play", "Chat"}, open : BOOLEAN]
  /\ Len(port.events) <= EventCapacity /\ Len(port.commands) <= CommandCapacity
  /\ task \in [kind : Kinds,
               phase : {"connecting", "playing", "configuring", "returning", "ended"},
               alerts : Seq(Alerts), packets : 0..MaxPackets,
               safety : [health : 0..MaxHealth \cup {None}, low : BOOLEAN,
                         dead : BOOLEAN, drowning : BOOLEAN]]
  /\ ui \in [loop : {"running", "exiting", "closed"},
             poll : {"idle", "events", "critical", "dropped"},
             state : {"Connecting", "Connected", "Disconnected"},
             reported : BOOLEAN, sends : 0..MaxSends]
  /\ seen \in [offered : Nat, received : Nat, told : Nat,
               raised : [Alerts -> Nat], shown : [Alerts -> Nat],
               reason : {"none", "given", "shown"}, lowAir : BOOLEAN, crossings : Nat]

\* No event disappears silently: every event offered while the window lives was
\* received, waits in the queue, or is counted as dropped, where the count is either
\* still to be reported or was reported to the user (ChatSessionRunner::event,
\* ChatMode::poll), however polls and drops interleave.
DropsAccounted ==
  seen.offered = seen.received + Len(port.events) + port.dropped + seen.told

\* What holds in every state of the port and its two ends.
PortSound == PortTypeOK /\ DropsAccounted

\* Once the session function has returned, for whatever reason, the user interface
\* comes to show Disconnected and stays there while the window lives, although a late
\* Connected may still be in the queue when the critical event is taken
\* (try_next_event's report of a closed channel).
\* The reason of a disconnect, once given, is shown too unless the window is closed: no
\* alert takes its place in the critical slot, and no full queue delays it.
EndIsShown ==
  /\ (task.phase = "ended") ~> [](ui.loop = "running" => ui.state = "Disconnected")
  /\ (seen.reason = "given") ~> (seen.reason = "shown" \/ ui.loop # "running")

\* Closing the window ends the network task, so main's join returns, also when the
\* command queue was full and the Disconnect command could not be queued.
CloseEndsTask == (ui.loop # "running") ~> (task.phase = "ended")

\* docs/CHAT_MODE.md:65: "crossing 60 air units generates one drowning warning until
\* air recovers", of Set Entity Data packets as such, whatever the session presents.
DrowningWarned ==
  seen.crossings = seen.raised["Drowning"]
                     + Cardinality({i \in DOMAIN task.alerts : task.alerts[i] = "Drowning"})
=============================================================================
