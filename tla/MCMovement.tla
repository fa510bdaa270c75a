----------------------------- MODULE MCMovement -----------------------------
(***************************************************************************)
(* Model-checking instance of the player's tick: what the controls and the *)
(* packets make of an arbitrary step, and what collision makes of an       *)
(* arbitrary displacement.  Neither reads what the other keeps, so a       *)
(* behaviour follows one of them while the other one rests.                *)
(***************************************************************************)
EXTENDS PlayerControls, Movement, TLC

VARIABLE part

tickVars == <<part, vars, movementVars>>

MCExtent == <<2, 3, 2>>
MCStart == <<0, 3, 2>>
\* Further than a block, less than a block, down and up.
MCRequests == {-3, 1} \X {-2, 0, 1} \X {-1, 2}

World(special) ==
    [c \in (0 .. 1) \X (0 .. 2) \X (0 .. 1) |-> IF c \in DOMAIN special THEN special[c] ELSE "empty"]
Stairs == World(<<0, 0, 0>> :> "full" @@ <<1, 0, 1>> :> "slab")
\* Two blocks that touch at an edge.
Corner == World(<<0, 0, 0>> :> "full" @@ <<1, 0, 1>> :> "full")
Fenced == World(<<0, 0, 0>> :> "fence" @@ <<1, 0, 0>> :> "slab" @@ <<1, 1, 1>> :> "ceiling")
Cave == World(<<0, 0, 0>> :> "full" @@ <<0, 0, 1>> :> "full" @@ <<1, 0, 0>> :> "full"
              @@ <<1, 0, 1>> :> "slab" @@ <<0, 1, 1>> :> "slab")
MCWorlds == {Stairs, Corner, Fenced, Cave}

TickInit ==
    \/ part = "controls" /\ Init /\ MovementInit /\ blocks = Stairs
    \/ part = "collision" /\ Init /\ MovementInit

TickNext ==
    \/ part = "controls" /\ Next /\ UNCHANGED <<part, movementVars>>
    \/ part = "collision" /\ MovementNext /\ UNCHANGED <<part, vars>>

TickSpec ==
    /\ TickInit /\ [][TickNext]_tickVars
    /\ WF_vars(part = "controls" /\ Ticks /\ UNCHANGED <<part, movementVars>>)

TickTypeOK == TypeOK /\ MovementTypeOK
=============================================================================
