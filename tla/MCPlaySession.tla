--------------------------- MODULE MCPlaySession ---------------------------
(* Small instances of the Play session for TLC.                            *)
EXTENDS PlaySession

MCItems == {"stone", "coal", "helm"}
MCMaxStack == [stone |-> 2, coal |-> 3, helm |-> 1]
MCTrait == [stone |-> "smelts", coal |-> "fuel", helm |-> "helmet"]
MCOpaque == {"helm"}
MCBounds ==
    ({"keys", "pickup", "quick_move", "sets"} :> <<2, 1>>) @@
    ({"drag"} :> <<4, 0>>) @@
    ({"drag", "pickup", "refuses"} :> <<2, 0>>) @@
    ({"pickup", "pickup_all"} :> <<2, 0>>) @@
    ({"swap", "throw", "pickup_all", "clone"} :> <<2, 0>>) @@
    ({"keys", "swap", "hotbar"} :> <<3, 1>>) @@
    ({"pickup", "keys", "opens", "chest", "closes"} :> <<2, 2>>) @@
    ({"pickup", "keys", "opens", "chest", "sets"} :> <<1, 2>>) @@
    ({"quick_move", "opens", "furnace", "crafting"} :> <<2, 1>>) @@
    ({"creative", "sets", "respawns"} :> <<1, 1>>) @@
    ({"creative", "keys"} :> <<3, 0>>) @@
    ({"creative", "opens", "chest"} :> <<1, 1>>) @@
    ({"drag", "opens", "chest", "reconfigures"} :> <<1, 2>>) @@
    ({"entities", "crowds"} :> <<0, 4>>) @@
    ({"chunks", "crowds"} :> <<0, 3>>) @@
    ({"entities", "respawns"} :> <<0, 3>>) @@
    ({"entities", "pushes", "reconfigures", "renames"} :> <<0, 3>>) @@
    ({"chunks", "respawns", "reconfigures", "asks"} :> <<0, 3>>) @@
    ({"walks", "teleports", "repeats", "respawns"} :> <<1, 3>>) @@
    ({"walks", "teleports", "reconfigures", "pushes"} :> <<1, 3>>) @@
    ({"weather", "dies", "respawns", "reconfigures"} :> <<0, 3>>) @@
    ({"chat", "teleports", "chunks", "entities", "dies", "asks"} :> <<0, 3>>)
MCHabits == DOMAIN MCBounds
MCMaxInputs == [h \in MCHabits |-> MCBounds[h][1]]
MCMaxEvents == [h \in MCHabits |-> MCBounds[h][2]]
Collecting ==
    { [slots |-> (3 :> Stack("coal", 1)) @@ (4 :> Stack("coal", 3)) @@ (6 :> Stack("coal", 2)),
       carried |-> Empty] }
Mixed ==
    { [slots |-> (3 :> Stack("coal", 2)) @@ (4 :> Stack("coal", 2)) @@ (5 :> Stack("helm", 1)),
       carried |-> Empty],
      [slots |-> (3 :> Stack("helm", 1)) @@ (5 :> Stack("stone", 2)),
       carried |-> Stack("coal", 3)] }
Nothing == { [slots |-> NoSlots, carried |-> Empty] }
Handling == {"pickup", "quick_move", "drag", "swap", "throw", "clone", "creative"}
MCBeginnings ==
    [h \in MCHabits |-> CASE h \cap Handling = {} -> Nothing
                         [] "pickup_all" \in h -> Collecting \cup Mixed
                         [] OTHER -> Mixed]
=============================================================================
