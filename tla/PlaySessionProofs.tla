-------------------------- MODULE PlaySessionProofs --------------------------
(***************************************************************************)
(* The Play session keeps its world sound, never lets the server place the *)
(* player by a stale computation, and leaves no question unanswered: for   *)
(* every number of entity ids, chunks and positions, every habit of user   *)
(* and server and every length of a session.                               *)
(***************************************************************************)
EXTENDS PlaySession, SequenceTheorems, FiniteSetTheorems, WellFoundedInduction, TLAPS

(***************************************************************************)
(* The two channels: sequences whose packets have the shape of their kind. *)
(***************************************************************************)
IsSeq(s) == s \in Seq(Range(s))

WorldPackets ==
    [kind : {"spawn"}, id : Ids, entity : Entities]
    \cup [kind : {"remove"}, ids : Seq(Ids)]
    \cup [kind : {"move"}, id : Ids, delta : Int]
    \cup [kind : {"sync"}, id : Ids, x : Int]
    \cup [kind : {"data"}, id : Ids, data : Int]
    \cup [kind : {"velocity"}, id : Ids, v : Int]
    \cup [kind : {"chunk"}, at : Coordinates, chunk : Chunks]
    \cup [kind : {"batch_finished", "start_configuration", "health"}]
    \cup [kind : {"forget"}, at : Coordinates]
    \cup [kind : {"update"}, at : Coordinates, field : Fields, value : Int]
    \cup [kind : {"rain"}, rain : BOOLEAN]
    \cup [kind : {"mode"}, mode : Int]
    \cup [kind : {"position"}, id : Nat, serial : Nat, x : Int, relative : BOOLEAN,
          turns : BOOLEAN]
    \cup [kind : {"rotation"}, turns : BOOLEAN]
    \cup [kind : {"respawn"}, dim : Int, mode : Int, keep : BOOLEAN, stay : Nat]
    \cup [kind : {"login"}, own : Ids, dim : Int, mode : Int, stay : Nat]
    \cup [kind : {"keep_alive"}, id : Nat]
Answers ==
    [kind : {"confirm"}, id : Nat] \cup [kind : {"move"}, x : Int, after : Nat]
    \cup [kind : {"keep_alive"}, id : Nat]
    \cup [kind : {"batch_received", "player_loaded", "perform_respawn",
                  "configuration_acknowledged"}]

SentKinds == CommandKinds \ {"cursor"}

DownOK(packets) ==
    /\ IsSeq(packets)
    /\ \A i \in DOMAIN packets :
        packets[i].kind \in InventoryKinds \/ packets[i] \in WorldPackets
UpOK(packets) ==
    /\ IsSeq(packets)
    /\ \A i \in DOMAIN packets :
        packets[i].kind \in SentKinds \/ packets[i] \in Answers
MailboxOK ==
    /\ IsSeq(mailbox)
    /\ \A i \in DOMAIN mailbox : mailbox[i].kind \in CommandKinds

(***************************************************************************)
(* The types of the three records.                                         *)
(***************************************************************************)
Slots1 == [generation : Nat, entity : Entities \cup {None}]
Handles == [slot : Nat, generation : Nat]
Stores ==
    [slots : Seq(Slots1), byId : UNION {[D -> Handles] : D \in SUBSET Ids}, free : Seq(Nat)]
Worlds ==
    [active : BOOLEAN, own : Ids \cup {None}, dim : Int \cup {None}, mode : Int \cup {None},
     stay : Nat, x : Int \cup {None}, rotated : BOOLEAN, teleport : Nat \cup {None},
     rain : BOOLEAN, chunks : [Coordinates -> Chunks \cup {None}], store : Stores]
Tasks ==
    [controller : Ids, decode : Decodes \cup {None}, configuring : BOOLEAN, loaded : BOOLEAN,
     requested : BOOLEAN, sim : Simulations \cup {None}]
EntityMaps == UNION {[D -> Entities] : D \in SUBSET Ids}
Servers ==
    [own : Ids, dim : Int, mode : Int, x : Int, v : Int, rain : BOOLEAN, stay : Nat,
     teleport : Nat, sent : Nat, awaiting : Nat \cup {None},
     entities : EntityMaps,
     chunks : [Coordinates -> Chunks \cup {None}], batches : {0, 1}, alive : BOOLEAN,
     asked : SUBSET Nat, configuring : BOOLEAN]
SlotOf(store, i) == store.slots[store.byId[i].slot]
StoreSound(store) ==
    /\ store \in Stores
    /\ \A i \in DOMAIN store.byId :
        /\ store.byId[i].slot \in DOMAIN store.slots
        /\ SlotOf(store, i).generation = store.byId[i].generation
        /\ SlotOf(store, i).entity \in Entities
        /\ SlotOf(store, i).entity.id = i
    /\ \A k \in DOMAIN store.free :
        /\ store.free[k] \in DOMAIN store.slots
        /\ store.slots[store.free[k]].entity = None
        /\ \A l \in DOMAIN store.free : store.free[l] = store.free[k] => l = k
    /\ \A n \in DOMAIN store.slots :
        \/ \E i \in DOMAIN store.byId : store.byId[i].slot = n
        \/ \E k \in DOMAIN store.free : store.free[k] = n
EventsOK == "events" \in DOMAIN server /\ server.events \in Nat
ClientOK ==
    /\ world \in Worlds /\ task \in Tasks
    /\ world.active = (world.own # None)
    /\ task.sim # None => WorldMode
ServerOK == wserver \in Servers /\ IsFiniteSet(DOMAIN wserver.entities) /\ EventsOK
Sound == ClientOK /\ StoreSound(world.store)
Typed == Sound /\ ServerOK /\ UpOK(up) /\ DownOK(down) /\ MailboxOK

(***************************************************************************)
(* Where a reconfiguration is: asked for, acknowledged, answered by a new  *)
(* login, over.                                                            *)
(***************************************************************************)
Phase ==
    /\ \A i \in DOMAIN down : down[i].kind = "start_configuration" =>
        i = Len(down) /\ wserver.configuring
    /\ \A i \in DOMAIN up : up[i].kind = "configuration_acknowledged" =>
        i = Len(up) /\ wserver.configuring /\ task.configuring /\ down = <<>>
    /\ \A i \in DOMAIN down : down[i].kind = "login" => i = 1 /\ task.configuring /\ up = <<>>
    /\ task.configuring => task.decode = None
    /\ wserver.configuring =>
        wserver.awaiting = None /\ wserver.asked = {} /\ wserver.batches = 0

(***************************************************************************)
(* Teleports.                                                              *)
(***************************************************************************)
NoneOf(kind, packets) == \A i \in DOMAIN packets : packets[i].kind # kind
IsA(p, kind, id) == p.kind = kind /\ p.id = id
UpToDate == task.sim # None => task.sim.after = wserver.sent
Teleports ==
    /\ wserver.awaiting \in {None, wserver.teleport}
    /\ \A i \in DOMAIN down : down[i].kind = "position" => down[i].id <= wserver.teleport
    /\ \A i \in DOMAIN up : up[i].kind = "confirm" => up[i].id <= wserver.teleport
    /\ ~wserver.configuring /\ wserver.awaiting = None =>
        /\ NoneOf("position", down) /\ UpToDate
        /\ \A i \in DOMAIN up : up[i].kind = "move" => up[i].after = wserver.sent
    /\ \A c \in DOMAIN up : IsA(up[c], "confirm", wserver.awaiting) =>
        /\ NoneOf("position", down) /\ UpToDate
        /\ \A i \in DOMAIN up : i > c /\ up[i].kind = "move" => up[i].after = wserver.sent
    /\ \A i \in DOMAIN down : IsA(down[i], "position", wserver.awaiting) =>
        /\ down[i].serial = wserver.sent
        /\ \A j \in DOMAIN down : j > i => down[j].kind # "position"

(***************************************************************************)
(* Questions: each is on its way, or its answer is.                        *)
(***************************************************************************)
Asked(packets, kind, id) == \E i \in DOMAIN packets : IsA(packets[i], kind, id)
Questions ==
    /\ \A id \in wserver.asked : Asked(down, "keep_alive", id) \/ Asked(up, "keep_alive", id)
    /\ Running /\ wserver.awaiting # None =>
        \/ Asked(down, "position", wserver.awaiting)
        \/ Asked(up, "confirm", wserver.awaiting)
    /\ wserver.batches # 0 => Has(down, "batch_finished") \/ Has(up, "batch_received")
    /\ WorldMode /\ ~wserver.alive /\ ~task.requested => Has(down, "health")

(***************************************************************************)
(* The stays of chunks.                                                    *)
(***************************************************************************)
Enters(p) == p.kind \in {"respawn", "login"}
\* Read from this stay on, the packets have the player in that one at place n.
StayIn(packets, at, n, stay) ==
    /\ (\A j \in 1 .. n - 1 : ~Enters(packets[j])) => stay = at
    /\ \A j \in 1 .. n - 1 :
        Enters(packets[j]) /\ (\A k \in j + 1 .. n - 1 : ~Enters(packets[k])) =>
            stay = packets[j].stay
Stays ==
    /\ ChunksCurrent
    /\ task.configuring => \A c \in Coordinates : world.chunks[c] = None
    /\ Running =>
        /\ task.decode # None => task.decode.chunk.stay = world.stay
        /\ StayIn(down, world.stay, Len(down) + 1, wserver.stay)
        /\ \A i \in DOMAIN down : down[i].kind = "chunk" =>
             StayIn(down, world.stay, i, down[i].chunk.stay)
        /\ \A c \in Coordinates : wserver.chunks[c] # None => wserver.chunks[c].stay = wserver.stay


-----------------------------------------------------------------------------
\* Numbers and folds: every finite set of integers has its greatest member, and what
\* folds over such a set exists.

LEMMA Smallest ==
  ASSUME NEW T, T \subseteq Nat, T # {}
  PROVE  Min(T) \in T /\ \A m \in T : Min(T) <= m
<1> DEFINE R == {ss \in Nat \X Nat : ss[1] < ss[2]}
<1>1. IsWellFoundedOn(R, Nat)
  BY NatLessThanWellFounded DEF OpToRel
<1> HIDE DEF R
<1>2. PICK n \in T : \A m \in T : ~(<<m, n>> \in R)
  BY <1>1, WFMin
<1>3. \A m \in T : n <= m
  <2> TAKE m \in T
  <2>1. <<m, n>> \notin R /\ m \in Nat /\ n \in Nat
    BY <1>2
  <2> QED BY <2>1 DEF R
<1> QED BY <1>3 DEF Min

\* A finite, non-empty set of integers has a greatest member: Max (FiniteSetsExt) is it.
LEMMA GreatestOfFinite ==
  ASSUME NEW T, T \subseteq Int, IsFiniteSet(T), T # {}
  PROVE  Max(T) \in T /\ \A m \in T : m <= Max(T)
<1> DEFINE HasMax(S) == \E x \in S : \A y \in S : y <= x
<1> DEFINE Bad == {n \in Nat : \E S \in SUBSET Int : /\ IsFiniteSet(S) /\ S # {}
                                                     /\ Cardinality(S) = n /\ ~HasMax(S)}
<1>1. Bad = {}
  <2> SUFFICES ASSUME Bad # {} PROVE FALSE
    OBVIOUS
  <2>1. Min(Bad) \in Bad /\ \A m \in Bad : Min(Bad) <= m
    BY Smallest
  <2>2. PICK n \in Nat : n = Min(Bad)
    BY <2>1
  <2>3. PICK S \in SUBSET Int : IsFiniteSet(S) /\ S # {} /\ Cardinality(S) = n /\ ~HasMax(S)
    BY <2>1, <2>2
  <2>4. PICK x \in S : TRUE
    BY <2>3
  <2>5. IsFiniteSet(S \ {x}) /\ Cardinality(S \ {x}) = n - 1
    BY <2>3, <2>4, FS_RemoveElement
  <2>6. Cardinality(S \ {x}) \in Nat
    BY <2>5, FS_CardinalityType
  <2>7. S \ {x} # {}
    <3> SUFFICES ASSUME S \ {x} = {} PROVE FALSE
      OBVIOUS
    <3>1. S = {x}
      BY <2>4
    <3>2. x \in Int /\ x <= x
      BY <2>4
    <3> QED BY <2>3, <3>1, <3>2
  <2>8. n - 1 \notin Bad /\ n - 1 \in Nat
    <3> HIDE DEF Bad
    <3>1. n - 1 \in Nat
      BY <2>5, <2>6
    <3>2. ~(n <= n - 1)
      OBVIOUS
    <3> QED BY <2>1, <2>2, <3>1, <3>2
  <2>9. HasMax(S \ {x})
    BY <2>5, <2>7, <2>8
  <2>10. PICK m \in S \ {x} : \A y \in S \ {x} : y <= m
    BY <2>9
  <2>11. x \in Int /\ m \in Int /\ S \subseteq Int
    BY <2>4, <2>10
  <2>12. CASE x <= m
    <3>1. \A y \in S : y <= m
      BY <2>10, <2>12
    <3> QED BY <2>3, <2>10, <3>1
  <2>13. CASE m <= x
    <3>1. \A y \in S : y <= x
      BY <2>10, <2>11, <2>13
    <3> QED BY <2>3, <2>4, <3>1
  <2> QED BY <2>11, <2>12, <2>13
<1>2. Cardinality(T) \in Nat
  BY FS_CardinalityType
<1>3. HasMax(T)
  BY <1>1, <1>2
<1>4. \A x, y \in T : x <= y <=> y >= x
  OBVIOUS
<1> QED BY <1>3, <1>4 DEF Max

\* The subsets a fold goes through: each without its greatest member is smaller.
Within(n, S) == {s \in SUBSET S : Cardinality(s) <= n}
LEMMA WithinSmaller ==
  ASSUME NEW S, S \subseteq Int, IsFiniteSet(S), NEW n \in Nat
  PROVE  /\ Within(0, S) = {{}}
         /\ Within(n, S) \subseteq Within(n + 1, S)
         /\ {} \in Within(n, S)
         /\ \A s \in Within(n + 1, S) : s # {} =>
              Max(s) \in s /\ s \ {Max(s)} \in Within(n, S)
         /\ Within(Cardinality(S), S) = SUBSET S
<1>1. \A s \in SUBSET S : IsFiniteSet(s) /\ Cardinality(s) \in Nat /\ Cardinality(s) <= Cardinality(S)
  BY FS_Subset, FS_CardinalityType
<1>2. {} \in SUBSET S /\ Cardinality({}) = 0
  BY FS_EmptySet
<1>3. Within(0, S) = {{}}
  <2>1. \A s \in SUBSET S : Cardinality(s) <= 0 <=> s = {}
    <3> TAKE s \in SUBSET S
    <3>1. IsFiniteSet(s) /\ Cardinality(s) \in Nat
      BY <1>1
    <3>2. Cardinality(s) = 0 <=> s = {}
      BY <3>1, FS_EmptySet
    <3> QED BY <3>1, <3>2
  <2> QED BY <2>1, <1>2 DEF Within
<1>4. Within(n, S) \subseteq Within(n + 1, S)
  BY <1>1 DEF Within
<1>5. \A s \in Within(n + 1, S) : s # {} => Max(s) \in s /\ s \ {Max(s)} \in Within(n, S)
  <2> TAKE s \in Within(n + 1, S)
  <2> HAVE s # {}
  <2>1. s \in SUBSET S /\ s \subseteq Int /\ Cardinality(s) <= n + 1 /\ IsFiniteSet(s)
    BY <1>1 DEF Within
  <2>2. Max(s) \in s
    BY <2>1, GreatestOfFinite
  <2>3. Cardinality(s \ {Max(s)}) = Cardinality(s) - 1
    BY <2>1, <2>2, FS_RemoveElement
  <2>4. Cardinality(s) \in Nat
    BY <2>1, <1>1
  <2>5. Cardinality(s) - 1 <= n
    BY <2>1, <2>4
  <2> QED BY <2>1, <2>2, <2>3, <2>5 DEF Within
<1>6. {} \in Within(n, S)
  BY <1>2 DEF Within
<1>7. Within(Cardinality(S), S) = SUBSET S
  BY <1>1 DEF Within
<1> QED BY <1>3, <1>4, <1>5, <1>6, <1>7

\* What is folded over a finite set of integers, by ascending number: removals of the ids
\* that pick names, and commands served from a mailbox.
Removals(h, S, store, pick) ==
    h = [s \in S |-> IF s = {} THEN store ELSE Removed(h[s \ {Max(s)}], pick[Max(s)])]
Services(h, S, state, commands) ==
    h = [s \in S |-> IF s = {} THEN state ELSE Serve(h[s \ {Max(s)}], commands[Max(s)])]

LEMMA RemovalsExist ==
  ASSUME NEW S, S \subseteq Int, IsFiniteSet(S), NEW store, NEW pick
  PROVE  \E h : Removals(h, SUBSET S, store, pick)
<1> DEFINE Bad == {n \in Nat : ~ \E h : Removals(h, Within(n, S), store, pick)}
<1>1. Bad = {}
  <2> SUFFICES ASSUME Bad # {} PROVE FALSE
    OBVIOUS
  <2>1. Min(Bad) \in Bad /\ \A m \in Bad : Min(Bad) <= m
    BY Smallest
  <2>2. PICK n \in Nat : n = Min(Bad)
    BY <2>1
  <2>3. CASE n = 0
    <3> DEFINE h == [s \in {{}} |-> store]
    <3>1. Removals(h, {{}}, store, pick)
      <4>1. h = [s \in {{}} |-> IF s = {} THEN store ELSE Removed(h[s \ {Max(s)}], pick[Max(s)])]
        OBVIOUS
      <4> QED BY <4>1 DEF Removals
    <3>2. Within(0, S) = {{}}
      BY WithinSmaller
    <3> HIDE DEF h
    <3>3. ~ \E g : Removals(g, Within(0, S), store, pick)
      BY <2>1, <2>2, <2>3
    <3> QED BY <3>1, <3>2, <3>3
  <2>4. CASE n # 0
    <3>1. PICK m \in Nat : n = m + 1
      BY <2>4
    <3>2. m \notin Bad
      <4> HIDE DEF Bad
      <4>1. ~(n <= m)
        BY <3>1
      <4> QED BY <2>1, <2>2, <4>1
    <3>3. PICK g : Removals(g, Within(m, S), store, pick)
      BY <3>2
    <3> DEFINE h == [s \in Within(n, S) |-> IF s = {} THEN store
                                          ELSE Removed(g[s \ {Max(s)}], pick[Max(s)])]
    <3>4. \A s \in Within(m, S) : s \in Within(n, S) /\ h[s] = g[s]
      <4> TAKE s \in Within(m, S)
      <4>1. s \in Within(n, S)
        BY <3>1, WithinSmaller
      <4>2. g[s] = IF s = {} THEN store ELSE Removed(g[s \ {Max(s)}], pick[Max(s)])
        BY <3>3 DEF Removals
      <4> QED BY <4>1, <4>2
    <3>5. \A s \in Within(n, S) : s # {} => h[s \ {Max(s)}] = g[s \ {Max(s)}]
      BY <3>1, <3>4, WithinSmaller
    <3>6. h = [s \in Within(n, S) |-> IF s = {} THEN store
                                      ELSE Removed(h[s \ {Max(s)}], pick[Max(s)])]
      <4> DEFINE k == [s \in Within(n, S) |-> IF s = {} THEN store
                                              ELSE Removed(h[s \ {Max(s)}], pick[Max(s)])]
      <4>1. \A s \in Within(n, S) : h[s] = k[s]
        <5> TAKE s \in Within(n, S)
        <5>1. CASE s = {}
          BY <5>1
        <5>2. CASE s # {}
          <6>1. h[s \ {Max(s)}] = g[s \ {Max(s)}]
            BY <5>2, <3>5
          <6>2. h[s] = Removed(g[s \ {Max(s)}], pick[Max(s)])
            BY <5>2
          <6>3. k[s] = Removed(h[s \ {Max(s)}], pick[Max(s)])
            BY <5>2
          <6> QED BY <6>1, <6>2, <6>3
        <5> QED BY <5>1, <5>2
      <4> QED BY <4>1
    <3> HIDE DEF h
    <3>7. Removals(h, Within(n, S), store, pick)
      BY <3>6 DEF Removals
    <3> QED BY <2>1, <2>2, <3>7
  <2> QED BY <2>3, <2>4
<1>2. Cardinality(S) \in Nat
  BY FS_CardinalityType
<1>3. Within(Cardinality(S), S) = SUBSET S
  BY WithinSmaller, <1>2
<1>4. \E h : Removals(h, Within(Cardinality(S), S), store, pick)
  BY <1>1, <1>2
<1> QED BY <1>3, <1>4

LEMMA ServicesExist ==
  ASSUME NEW S, S \subseteq Int, IsFiniteSet(S), NEW state, NEW commands
  PROVE  \E h : Services(h, SUBSET S, state, commands)
<1> DEFINE Bad == {n \in Nat : ~ \E h : Services(h, Within(n, S), state, commands)}
<1>1. Bad = {}
  <2> SUFFICES ASSUME Bad # {} PROVE FALSE
    OBVIOUS
  <2>1. Min(Bad) \in Bad /\ \A m \in Bad : Min(Bad) <= m
    BY Smallest
  <2>2. PICK n \in Nat : n = Min(Bad)
    BY <2>1
  <2>3. CASE n = 0
    <3> DEFINE h == [s \in {{}} |-> state]
    <3>1. Services(h, {{}}, state, commands)
      <4>1. h = [s \in {{}} |-> IF s = {} THEN state ELSE Serve(h[s \ {Max(s)}], commands[Max(s)])]
        OBVIOUS
      <4> QED BY <4>1 DEF Services
    <3>2. Within(0, S) = {{}}
      BY WithinSmaller
    <3> HIDE DEF h
    <3>3. ~ \E g : Services(g, Within(0, S), state, commands)
      BY <2>1, <2>2, <2>3
    <3> QED BY <3>1, <3>2, <3>3
  <2>4. CASE n # 0
    <3>1. PICK m \in Nat : n = m + 1
      BY <2>4
    <3>2. m \notin Bad
      <4> HIDE DEF Bad
      <4>1. ~(n <= m)
        BY <3>1
      <4> QED BY <2>1, <2>2, <4>1
    <3>3. PICK g : Services(g, Within(m, S), state, commands)
      BY <3>2
    <3> DEFINE h == [s \in Within(n, S) |-> IF s = {} THEN state
                                          ELSE Serve(g[s \ {Max(s)}], commands[Max(s)])]
    <3>4. \A s \in Within(m, S) : s \in Within(n, S) /\ h[s] = g[s]
      <4> TAKE s \in Within(m, S)
      <4>1. s \in Within(n, S)
        BY <3>1, WithinSmaller
      <4>2. g[s] = IF s = {} THEN state ELSE Serve(g[s \ {Max(s)}], commands[Max(s)])
        BY <3>3 DEF Services
      <4> QED BY <4>1, <4>2
    <3>5. \A s \in Within(n, S) : s # {} => h[s \ {Max(s)}] = g[s \ {Max(s)}]
      BY <3>1, <3>4, WithinSmaller
    <3>6. h = [s \in Within(n, S) |-> IF s = {} THEN state
                                      ELSE Serve(h[s \ {Max(s)}], commands[Max(s)])]
      <4> DEFINE k == [s \in Within(n, S) |-> IF s = {} THEN state
                                              ELSE Serve(h[s \ {Max(s)}], commands[Max(s)])]
      <4>1. \A s \in Within(n, S) : h[s] = k[s]
        <5> TAKE s \in Within(n, S)
        <5>1. CASE s = {}
          BY <5>1
        <5>2. CASE s # {}
          <6>1. h[s \ {Max(s)}] = g[s \ {Max(s)}]
            BY <5>2, <3>5
          <6>2. h[s] = Serve(g[s \ {Max(s)}], commands[Max(s)])
            BY <5>2
          <6>3. k[s] = Serve(h[s \ {Max(s)}], commands[Max(s)])
            BY <5>2
          <6> QED BY <6>1, <6>2, <6>3
        <5> QED BY <5>1, <5>2
      <4> QED BY <4>1
    <3> HIDE DEF h
    <3>7. Services(h, Within(n, S), state, commands)
      BY <3>6 DEF Services
    <3> QED BY <2>1, <2>2, <3>7
  <2> QED BY <2>3, <2>4
<1>2. Cardinality(S) \in Nat
  BY FS_CardinalityType
<1>3. Within(Cardinality(S), S) = SUBSET S
  BY WithinSmaller, <1>2
<1>4. \E h : Services(h, Within(Cardinality(S), S), state, commands)
  BY <1>1, <1>2
<1> QED BY <1>3, <1>4

\* What a tick sends of the mailbox are commands, in a sequence of their own, and a command is
\* what ends it; a cursor is only kept.
Good(s) ==
    /\ s = [inv |-> s.inv, out |-> s.out, ended |-> s.ended, closed |-> s.closed]
    /\ IsSeq(s.out) /\ \A i \in DOMAIN s.out : s.out[i].kind \in SentKinds
    /\ s.ended # None => s.ended.kind = "command"

LEMMA Appended ==
  ASSUME NEW s, IsSeq(s), NEW e
  PROVE  /\ IsSeq(Append(s, e)) /\ Len(Append(s, e)) = Len(s) + 1
         /\ DOMAIN Append(s, e) = 1 .. Len(s) + 1 /\ DOMAIN s = 1 .. Len(s) /\ Len(s) \in Nat
         /\ \A i \in 1 .. Len(s) : Append(s, e)[i] = s[i]
         /\ Append(s, e)[Len(s) + 1] = e
<1> DEFINE R == Range(s) \cup {e}
<1>1. s \in Seq(R) /\ e \in R
  BY DEF IsSeq
<1>2. /\ Append(s, e) \in Seq(R) /\ Len(Append(s, e)) = Len(s) + 1 /\ Len(s) \in Nat
      /\ DOMAIN Append(s, e) = 1 .. Len(s) + 1 /\ DOMAIN s = 1 .. Len(s)
      /\ \A i \in 1 .. Len(s) : Append(s, e)[i] = s[i]
      /\ Append(s, e)[Len(s) + 1] = e
  <2> HIDE DEF R
  <2> QED BY <1>1
<1>3. \A t : t \in Seq(R) => t \in Seq(Range(t))
  <2> HIDE DEF R
  <2> TAKE t
  <2> HAVE t \in Seq(R)
  <2>1. t \in [1 .. Len(t) -> R] /\ Len(t) \in Nat
    OBVIOUS
  <2>2. t \in [1 .. Len(t) -> Range(t)]
    BY <2>1 DEF Range
  <2> QED BY <2>1, <2>2
<1> QED BY <1>2, <1>3 DEF IsSeq

LEMMA ServeGood ==
  ASSUME NEW s, Good(s), NEW command, command.kind \in CommandKinds
  PROVE  Good(Serve(s, command))
<1> DEFINE Sending(new, closed, packet) ==
      [inv |-> new, out |-> Append(s.out, packet), ended |-> s.ended, closed |-> closed]
<1> DEFINE Keeping(new, ended) ==
      [inv |-> new, out |-> s.out, ended |-> ended, closed |-> s.closed]
<1>1. \A new, closed, packet : packet.kind \in SentKinds => Good(Sending(new, closed, packet))
  <2> TAKE new, closed, packet
  <2> HAVE packet.kind \in SentKinds
  <2>1. IsSeq(Append(s.out, packet))
    BY Appended DEF Good
  <2>2. \A i \in DOMAIN Append(s.out, packet) : Append(s.out, packet)[i].kind \in SentKinds
    BY Appended DEF Good
  <2> QED BY <2>1, <2>2 DEF Good
<1>2. \A new, ended : (ended # None => ended.kind = "command") => Good(Keeping(new, ended))
  BY DEF Good
<1>3. /\ s = [inv |-> s.inv, out |-> s.out, ended |-> s.ended, closed |-> s.closed]
      /\ s.ended # None => s.ended.kind = "command"
  BY DEF Good
<1>4. \A new : [s EXCEPT !.inv = new] = Keeping(new, s.ended)
  <2> TAKE new
  <2> QED BY <1>3
<1>5. \A new, packet : [s EXCEPT !.inv = new, !.out = Append(@, packet)] = Sending(new, s.closed, packet)
  <2> TAKE new, packet
  <2>1. [s EXCEPT !.inv = new, !.out = Append(@, packet)]
          = [s EXCEPT !.inv = new, !.out = Append(s.out, packet)]
    OBVIOUS
  <2>2. [s EXCEPT !.inv = new, !.out = Append(s.out, packet)]
          = [[s EXCEPT !.inv = new] EXCEPT !.out = Append(s.out, packet)]
    OBVIOUS
  <2>3. [Keeping(new, s.ended) EXCEPT !.out = Append(s.out, packet)] = Sending(new, s.closed, packet)
    BY SMTT(30)
  <2> QED BY <2>1, <2>2, <2>3, <1>4
<1>6. \A e : [s EXCEPT !.ended = e] = Keeping(s.inv, e)
  <2> TAKE e
  <2>1. [s EXCEPT !.ended = e]
          = [[inv |-> s.inv, out |-> s.out, ended |-> s.ended, closed |-> s.closed] EXCEPT !.ended = e]
    BY <1>3
  <2> QED BY <2>1
<1> HIDE DEF Sending, Keeping
<1>7. CASE s.ended # None
  BY <1>7 DEF Serve
<1>8. CASE s.ended = None
  <2>1. CASE command.kind = "select"
    <3>1. Serve(s, command) = Sending([s.inv EXCEPT !.selected = command.slot], s.closed, command)
      BY <1>8, <2>1, <1>5 DEF Serve
    <3>2. command.kind \in SentKinds
      BY <2>1 DEF CommandKinds, SentKinds
    <3> QED BY <3>1, <3>2, <1>1
  <2>2. CASE command.kind = "close"
    <3>1. CASE s.inv.open # None /\ s.inv.open.id = command.id
      <4>1. Serve(s, command) = [[s EXCEPT !.inv = CloseContainer(s.inv), !.out = Append(@, command)]
                                 EXCEPT !.closed = @ \cup {command.id}]
        BY <1>8, <2>2, <3>1 DEF Serve
      <4>2. Serve(s, command) = [Sending(CloseContainer(s.inv), s.closed, command)
                                 EXCEPT !.closed = @ \cup {command.id}]
        BY <4>1, <1>5
      <4>3. Serve(s, command) = Sending(CloseContainer(s.inv), s.closed \cup {command.id}, command)
        BY <4>2 DEF Sending
      <4>4. command.kind \in SentKinds
        BY <2>2 DEF CommandKinds, SentKinds
      <4> QED BY <4>3, <4>4, <1>1
    <3>2. CASE ~(s.inv.open # None /\ s.inv.open.id = command.id)
      <4>1. Serve(s, command) = [s EXCEPT !.ended = [kind |-> "command", id |-> command.id]]
        BY <1>8, <2>2, <3>2 DEF Serve
      <4>2. [kind |-> "command", id |-> command.id].kind = "command"
        OBVIOUS
      <4> QED BY <4>1, <4>2, <1>2, <1>6
    <3> QED BY <3>1, <3>2
  <2>3. CASE command.kind = "creative"
    <3>1. Serve(s, command) = Sending(SetCreativeSlot(s.inv, command.slot, command.stack), s.closed, command)
      BY <1>8, <2>3, <1>5 DEF Serve
    <3>2. command.kind \in SentKinds
      BY <2>3 DEF CommandKinds, SentKinds
    <3> QED BY <3>1, <3>2, <1>1
  <2>4. CASE command.kind = "cursor"
    <3>1. Serve(s, command) = Keeping(SetCarried(s.inv, command.stack), s.ended)
      BY <1>8, <2>4, <1>4 DEF Serve
    <3> QED BY <3>1, <1>2, <1>3
  <2>5. CASE command.kind = "click"
    <3> DEFINE result == ApplyClick(s.inv, command.click)
    <3> DEFINE packet == [kind |-> "click", click |-> command.click,
                          guess |-> Prediction(result.inv, command.click, result.slots)]
    <3>1. Serve(s, command) = IF result.ok THEN Sending(result.inv, s.closed, packet)
                              ELSE Keeping(result.inv, s.ended)
      <4>1. Serve(s, command) = IF result.ok THEN [s EXCEPT !.inv = result.inv, !.out = Append(@, packet)]
                                ELSE [s EXCEPT !.inv = result.inv]
        BY <1>8, <2>5 DEF Serve
      <4> HIDE DEF result, packet
      <4> QED BY <4>1, <1>4, <1>5
    <3>2. packet.kind \in SentKinds
      BY DEF CommandKinds, SentKinds
    <3> HIDE DEF result, packet
    <3> QED BY <3>1, <3>2, <1>1, <1>2, <1>3
  <2> QED BY <2>1, <2>2, <2>3, <2>4, <2>5 DEF CommandKinds
<1> QED BY <1>7, <1>8

\* The tick's fold over the mailbox: Serve, command by command.
LEMMA ServedGood ==
  ASSUME NEW state, Good(state), NEW commands, IsSeq(commands),
         \A i \in DOMAIN commands : commands[i].kind \in CommandKinds
  PROVE  Good(FoldLeft(Serve, state, commands))
<1> DEFINE S == DOMAIN commands
<1>1. S = 1 .. Len(commands) /\ Len(commands) \in Nat
  BY DEF IsSeq
<1>2. S \subseteq Int /\ IsFiniteSet(S)
  BY <1>1, FS_Interval
<1> DEFINE h == CHOOSE g : Services(g, SUBSET S, state, commands)
<1>3. Services(h, SUBSET S, state, commands)
  BY <1>2, ServicesExist
<1>4. FoldLeft(Serve, state, commands) = h[S]
  BY Zenon DEF FoldLeft, MapThenFoldSet, Services
<1> HIDE DEF h
<1> DEFINE Bad == {n \in Nat : \E s \in Within(n, S) : ~Good(h[s])}
<1>5. Bad = {}
  <2> SUFFICES ASSUME Bad # {} PROVE FALSE
    OBVIOUS
  <2>1. Min(Bad) \in Bad /\ \A m \in Bad : Min(Bad) <= m
    BY Smallest
  <2>2. PICK n \in Nat : n = Min(Bad)
    BY <2>1
  <2>3. PICK s \in Within(n, S) : ~Good(h[s])
    BY <2>1, <2>2
  <2>4. s \in SUBSET S
    BY DEF Within
  <2>5. h[s] = IF s = {} THEN state ELSE Serve(h[s \ {Max(s)}], commands[Max(s)])
    <3> HIDE DEF S
    <3> QED BY <1>3, <2>4 DEF Services
  <2>6. s # {} /\ n # 0
    <3>1. s # {}
      BY <2>3, <2>5
    <3>2. Within(0, S) = {{}}
      BY <1>2, WithinSmaller
    <3> QED BY <3>1, <3>2
  <2>7. PICK m \in Nat : n = m + 1
    BY <2>6
  <2>8. Max(s) \in s /\ s \ {Max(s)} \in Within(m, S)
    BY <1>2, <2>6, <2>7, WithinSmaller
  <2>9. m \notin Bad
    <3> HIDE DEF Bad
    <3>1. ~(n <= m)
      BY <2>7
    <3> QED BY <2>1, <2>2, <3>1
  <2>10. Good(h[s \ {Max(s)}])
    BY <2>8, <2>9
  <2>11. commands[Max(s)].kind \in CommandKinds
    BY <2>4, <2>8
  <2> QED BY <2>3, <2>5, <2>6, <2>10, <2>11, ServeGood
<1>6. Cardinality(S) \in Nat /\ S \in Within(Cardinality(S), S)
  BY <1>2, FS_CardinalityType, WithinSmaller
<1>7. Good(h[S])
  BY <1>5, <1>6
<1> QED BY <1>4, <1>7

-----------------------------------------------------------------------------
\* The entity store keeps its shape through every operation.

LEMMA StoreParts ==
  ASSUME NEW store, store \in Stores
  PROVE  /\ store.slots \in Seq(Slots1) /\ store.free \in Seq(Nat)
         /\ store.byId \in [DOMAIN store.byId -> Handles] /\ DOMAIN store.byId \subseteq Ids
         /\ store = [slots |-> store.slots, byId |-> store.byId, free |-> store.free]
         /\ Len(store.slots) \in Nat /\ DOMAIN store.slots = 1 .. Len(store.slots)
         /\ Len(store.free) \in Nat /\ DOMAIN store.free = 1 .. Len(store.free)
<1>1. store.slots \in Seq(Slots1) /\ store.free \in Seq(Nat)
      /\ store.byId \in UNION {[D -> Handles] : D \in SUBSET Ids}
      /\ store = [slots |-> store.slots, byId |-> store.byId, free |-> store.free]
  BY DEF Stores
<1>2. PICK D \in SUBSET Ids : store.byId \in [D -> Handles]
  BY <1>1
<1>3. Len(store.slots) \in Nat /\ DOMAIN store.slots = 1 .. Len(store.slots)
  BY <1>1
<1>4. Len(store.free) \in Nat /\ DOMAIN store.free = 1 .. Len(store.free)
  BY <1>1
<1> QED BY <1>1, <1>2, <1>3, <1>4

LEMMA StoreMade ==
  ASSUME NEW slots \in Seq(Slots1), NEW D \in SUBSET Ids, NEW byId \in [D -> Handles],
         NEW free \in Seq(Nat)
  PROVE  [slots |-> slots, byId |-> byId, free |-> free] \in Stores
<1>1. byId \in UNION {[E -> Handles] : E \in SUBSET Ids}
  OBVIOUS
<1> QED BY <1>1 DEF Stores

LEMMA RemovedSound ==
  ASSUME NEW store, StoreSound(store), NEW id
  PROVE  StoreSound(Removed(store, id)) /\ ~Holds(Removed(store, id), id)
<1> USE SessionAssumption
<1>1. store \in Stores
  BY DEF StoreSound
<1>2. CASE ~Holds(store, id)
  BY <1>2 DEF Removed
<1>3. CASE Holds(store, id)
  <2> DEFINE D == DOMAIN store.byId
  <2> DEFINE slot == store.byId[id].slot
  <2> DEFINE empty == [generation |-> store.slots[slot].generation + 1, entity |-> None]
  <2> DEFINE slots == [store.slots EXCEPT ![slot] = empty]
  <2> DEFINE byId == [i \in D \ {id} |-> store.byId[i]]
  <2> DEFINE free == Append(store.free, slot)
  <2> DEFINE new == [slots |-> slots, byId |-> byId, free |-> free]
  <2>1. Removed(store, id) = new
    BY <1>3 DEF Removed
  <2>2. id \in D /\ D \subseteq Ids /\ store.byId \in [D -> Handles]
        /\ store.slots \in Seq(Slots1) /\ store.free \in Seq(Nat)
    BY <1>1, <1>3, StoreParts DEF Holds
  <2>3. slot \in DOMAIN store.slots /\ slot \in Nat /\ store.slots[slot] \in Slots1
        /\ store.slots[slot].entity \in Entities /\ store.slots[slot].entity.id = id
    BY <2>2 DEF StoreSound, SlotOf, Handles
  <2>4. empty \in Slots1
    BY <2>3 DEF Slots1
  <2>5. slots \in Seq(Slots1) /\ DOMAIN slots = DOMAIN store.slots /\ slots[slot] = empty
        /\ \A n \in DOMAIN store.slots : n # slot => slots[n] = store.slots[n]
    <3> HIDE DEF empty, slot
    <3> QED BY <2>2, <2>3, <2>4
  <2>6. byId \in [D \ {id} -> Handles] /\ D \ {id} \in SUBSET Ids
    BY <2>2
  <2>7. free \in Seq(Nat) /\ DOMAIN free = 1 .. Len(store.free) + 1 /\ Len(store.free) \in Nat
        /\ free[Len(store.free) + 1] = slot /\ DOMAIN store.free = 1 .. Len(store.free)
        /\ \A k \in DOMAIN store.free : free[k] = store.free[k]
    <3> HIDE DEF slot
    <3> QED BY <2>2, <2>3
  <2> HIDE DEF empty, slots, free
  <2>8. new \in Stores
    BY <2>5, <2>6, <2>7, StoreMade
  <2>9. \A i \in D \ {id} :
          /\ byId[i].slot \in DOMAIN slots /\ byId[i].slot # slot
          /\ slots[byId[i].slot] = SlotOf(store, i)
    <3> TAKE i \in D \ {id}
    <3>1. store.byId[i].slot \in DOMAIN store.slots /\ SlotOf(store, i).entity.id = i
      BY DEF StoreSound
    <3>2. store.byId[i].slot # slot
      BY <3>1, <2>3 DEF SlotOf
    <3> QED BY <3>1, <3>2, <2>5 DEF SlotOf
  <2>10. \A i \in DOMAIN new.byId :
          /\ new.byId[i].slot \in DOMAIN new.slots
          /\ SlotOf(new, i).generation = new.byId[i].generation
          /\ SlotOf(new, i).entity \in Entities /\ SlotOf(new, i).entity.id = i
    <3> TAKE i \in DOMAIN new.byId
    <3>1. i \in D \ {id} /\ byId[i] = store.byId[i] /\ SlotOf(new, i) = slots[byId[i].slot]
      BY DEF SlotOf
    <3>2. SlotOf(new, i) = SlotOf(store, i)
      BY <2>9, <3>1
    <3>3. /\ SlotOf(store, i).generation = store.byId[i].generation
          /\ SlotOf(store, i).entity \in Entities /\ SlotOf(store, i).entity.id = i
      BY <3>1 DEF StoreSound
    <3> QED BY <2>9, <3>1, <3>2, <3>3
  <2>11. \A k \in DOMAIN store.free :
          /\ store.free[k] \in DOMAIN store.slots /\ store.free[k] # slot
          /\ store.slots[store.free[k]].entity = None
    <3> TAKE k \in DOMAIN store.free
    <3>1. store.free[k] \in DOMAIN store.slots /\ store.slots[store.free[k]].entity = None
      BY DEF StoreSound
    <3>2. store.slots[slot].entity # None
      BY <2>3
    <3> QED BY <3>1, <3>2
  <2>12. \A k \in DOMAIN free :
          /\ free[k] \in DOMAIN slots /\ slots[free[k]].entity = None
          /\ \A l \in DOMAIN free : free[l] = free[k] => l = k
    <3> TAKE k \in DOMAIN free
    <3>1. empty.entity = None
      BY DEF empty
    <3>2. \A m \in DOMAIN free : m \in DOMAIN store.free \/ m = Len(store.free) + 1
      BY <2>7
    <3>3. CASE k \in DOMAIN store.free
      <4>1. free[k] = store.free[k] /\ free[k] # slot /\ free[k] \in DOMAIN store.slots
            /\ store.slots[free[k]].entity = None
        BY <3>3, <2>7, <2>11
      <4>2. \A l \in DOMAIN store.free : free[l] = free[k] => l = k
        BY <3>3, <2>7 DEF StoreSound
      <4>3. free[Len(store.free) + 1] # free[k]
        BY <4>1, <2>7
      <4> QED BY <4>1, <4>2, <4>3, <3>2, <2>5
    <3>4. CASE k = Len(store.free) + 1
      <4>1. free[k] = slot
        BY <3>4, <2>7
      <4>2. \A l \in DOMAIN store.free : free[l] # slot
        BY <2>7, <2>11
      <4> QED BY <4>1, <4>2, <3>1, <3>2, <3>4, <2>3, <2>5
    <3> QED BY <3>2, <3>3, <3>4
  <2>13. \A n \in DOMAIN slots :
          \/ \E i \in DOMAIN byId : byId[i].slot = n
          \/ \E k \in DOMAIN free : free[k] = n
    <3> TAKE n \in DOMAIN slots
    <3>1. CASE n = slot
      BY <3>1, <2>7
    <3>2. CASE n # slot
      <4>1. \/ \E i \in D : store.byId[i].slot = n
            \/ \E k \in DOMAIN store.free : store.free[k] = n
        BY <2>5 DEF StoreSound
      <4>2. ASSUME NEW i \in D, store.byId[i].slot = n PROVE i \in DOMAIN byId /\ byId[i].slot = n
        BY <4>2, <3>2
      <4>3. ASSUME NEW k \in DOMAIN store.free, store.free[k] = n
            PROVE  k \in DOMAIN free /\ free[k] = n
        BY <4>3, <2>7
      <4> QED BY <4>1, <4>2, <4>3
    <3> QED BY <3>1, <3>2
  <2>14. StoreSound(new)
    <3> HIDE DEF byId
    <3> QED BY <2>8, <2>10, <2>12, <2>13 DEF StoreSound
  <2>15. ~Holds(new, id)
    BY DEF Holds
  <2> HIDE DEF new
  <2> QED BY <2>1, <2>14, <2>15
<1> QED BY <1>2, <1>3

\* Removing the ids that pick names over a finite set of numbers.
LEMMA RemovalsSound ==
  ASSUME NEW S, S \subseteq Int, IsFiniteSet(S), NEW store, StoreSound(store), NEW pick,
         NEW h, Removals(h, SUBSET S, store, pick)
  PROVE  StoreSound(h[S])
<1> DEFINE Bad == {n \in Nat : \E s \in Within(n, S) : ~StoreSound(h[s])}
<1>1. Bad = {}
  <2> SUFFICES ASSUME Bad # {} PROVE FALSE
    OBVIOUS
  <2>1. Min(Bad) \in Bad /\ \A m \in Bad : Min(Bad) <= m
    BY Smallest
  <2>2. PICK n \in Nat : n = Min(Bad)
    BY <2>1
  <2>3. PICK s \in Within(n, S) : ~StoreSound(h[s])
    BY <2>1, <2>2
  <2>4. s \in SUBSET S
    BY DEF Within
  <2>5. h[s] = IF s = {} THEN store ELSE Removed(h[s \ {Max(s)}], pick[Max(s)])
    BY <2>4 DEF Removals
  <2>6. s # {} /\ n # 0
    <3>1. s # {}
      BY <2>3, <2>5
    <3>2. Within(0, S) = {{}}
      BY WithinSmaller
    <3> QED BY <3>1, <3>2
  <2>7. PICK m \in Nat : n = m + 1
    BY <2>6
  <2>8. Max(s) \in s /\ s \ {Max(s)} \in Within(m, S)
    BY <2>6, <2>7, WithinSmaller
  <2>9. m \notin Bad
    <3> HIDE DEF Bad
    <3>1. ~(n <= m)
      BY <2>7
    <3> QED BY <2>1, <2>2, <3>1
  <2>10. StoreSound(h[s \ {Max(s)}])
    BY <2>8, <2>9
  <2> QED BY <2>3, <2>5, <2>6, <2>10, RemovedSound
<1>2. Cardinality(S) \in Nat /\ S \in Within(Cardinality(S), S)
  BY FS_CardinalityType, WithinSmaller
<1> QED BY <1>1, <1>2

\* FoldLeft of Removed removes the ids that the sequence names.
LEMMA AllRemovedIs ==
  ASSUME NEW store, NEW ids, ids \in Seq(Ids)
  PROVE  /\ DOMAIN ids \subseteq Int /\ IsFiniteSet(DOMAIN ids)
         /\ \E h : /\ Removals(h, SUBSET DOMAIN ids, store, ids)
                  /\ FoldLeft(Removed, store, ids) = h[DOMAIN ids]
<1> DEFINE S == DOMAIN ids
<1>1. S = 1 .. Len(ids) /\ Len(ids) \in Nat
  OBVIOUS
<1>2. S \subseteq Int /\ IsFiniteSet(S)
  BY <1>1, FS_Interval
<1> DEFINE h == CHOOSE g : Removals(g, SUBSET S, store, ids)
<1>3. Removals(h, SUBSET S, store, ids)
  BY <1>2, RemovalsExist
<1>4. FoldLeft(Removed, store, ids) = h[S]
  BY Zenon DEF FoldLeft, MapThenFoldSet, Removals
<1> HIDE DEF h, S
<1> QED BY <1>2, <1>3, <1>4 DEF S

LEMMA AllRemovedSound ==
  ASSUME NEW store, StoreSound(store), NEW ids, ids \in Seq(Ids)
  PROVE  StoreSound(FoldLeft(Removed, store, ids))
BY AllRemovedIs, RemovalsSound


LEMMA StoreFinite ==
  ASSUME NEW store, StoreSound(store)
  PROVE  /\ IsFiniteSet(DOMAIN store.byId)
         /\ \A i, j \in DOMAIN store.byId : store.byId[i].slot = store.byId[j].slot => i = j
<1> DEFINE D == DOMAIN store.byId
<1> DEFINE f == [i \in D |-> store.byId[i].slot]
<1>1. \A i, j \in D : store.byId[i].slot = store.byId[j].slot => i = j
  BY DEF StoreSound, SlotOf
<1>2. f \in [D -> DOMAIN store.slots]
  BY DEF StoreSound
<1>3. f \in Injection(D, DOMAIN store.slots)
  <2>1. \A i, j \in D : f[i] = f[j] => i = j
    BY <1>1
  <2> HIDE DEF f
  <2> QED BY <1>2, <2>1 DEF Injection, IsInjective
<1>4. IsFiniteSet(DOMAIN store.slots)
  <2>1. Len(store.slots) \in Nat /\ DOMAIN store.slots = 1 .. Len(store.slots)
    BY StoreParts DEF StoreSound
  <2> QED BY <2>1, FS_Interval
<1>5. IsFiniteSet(D)
  <2> HIDE DEF f, D
  <2> QED BY <1>3, <1>4, FS_Injection
<1> QED BY <1>1, <1>5

\* EntityStore::clear: one removal after the other.
LEMMA ClearedIs ==
  ASSUME NEW store, StoreSound(store)
  PROVE  /\ DOMAIN store.byId \subseteq Int /\ IsFiniteSet(DOMAIN store.byId)
         /\ \E h : /\ Removals(h, SUBSET DOMAIN store.byId, store,
                              [i \in DOMAIN store.byId |-> i])
                  /\ Cleared(store) = h[DOMAIN store.byId]
<1> USE SessionAssumption
<1> DEFINE S == DOMAIN store.byId
<1> DEFINE pick == [i \in S |-> i]
<1> DEFINE Clears(g) == g = [s \in SUBSET S |-> IF s = {} THEN store
                                              ELSE Removed(g[s \ {Max(s)}], Max(s))]
<1>1. S \subseteq Ids /\ S \subseteq Int /\ IsFiniteSet(S)
  BY StoreFinite, StoreParts DEF StoreSound
<1>2. \A g : Clears(g) <=> Removals(g, SUBSET S, store, pick)
  <2> TAKE g
  <2> DEFINE a == [s \in SUBSET S |-> IF s = {} THEN store ELSE Removed(g[s \ {Max(s)}], Max(s))]
  <2> DEFINE b == [s \in SUBSET S |-> IF s = {} THEN store
                                      ELSE Removed(g[s \ {Max(s)}], pick[Max(s)])]
  <2>1. \A s \in SUBSET S : s # {} => Max(s) \in S /\ pick[Max(s)] = Max(s)
    <3> TAKE s \in SUBSET S
    <3> HAVE s # {}
    <3>1. IsFiniteSet(s) /\ s \subseteq Int
      BY <1>1, FS_Subset
    <3>2. Max(s) \in s
      BY <3>1, GreatestOfFinite
    <3> QED BY <3>2
  <2>2. \A s \in SUBSET S : a[s] = b[s]
    <3> TAKE s \in SUBSET S
    <3>1. CASE s = {}
      BY <3>1
    <3>2. CASE s # {}
      <4>1. pick[Max(s)] = Max(s)
        BY <2>1, <3>2
      <4> HIDE DEF pick
      <4> QED BY <3>2, <4>1
    <3> QED BY <3>1, <3>2
  <2>3. a = b
    <3> HIDE DEF pick, S
    <3> QED BY <2>2
  <2> QED BY <2>3 DEF Removals
<1> DEFINE h == CHOOSE g : Clears(g)
<1>3. Removals(h, SUBSET S, store, pick)
  <2>1. \E g : Removals(g, SUBSET S, store, pick)
    <3> HIDE DEF S, pick
    <3> QED BY <1>1, RemovalsExist
  <2> HIDE DEF pick, S
  <2>2. \E g : Clears(g)
    BY <2>1, <1>2
  <2>3. Clears(h)
    <3> HIDE DEF Clears
    <3> QED BY <2>2
  <2> HIDE DEF h, Clears
  <2> QED BY <2>3, <1>2
<1>4. Cleared(store) = h[S]
  BY Zenon DEF Cleared, MapThenFoldSet
<1> HIDE DEF h, S, pick
<1> QED BY <1>1, <1>3, <1>4 DEF S, pick

LEMMA ClearedSound ==
  ASSUME NEW store, StoreSound(store)
  PROVE  StoreSound(Cleared(store))
BY ClearedIs, RemovalsSound

LEMMA SpawnedSound ==
  ASSUME NEW store, StoreSound(store), NEW id \in Ids, NEW entity \in Entities
  PROVE  /\ StoreSound(Spawned(store, id, entity))
         /\ LET old == Removed(store, id)
                new == Spawned(store, id, entity)
            IN /\ DOMAIN new.byId = DOMAIN old.byId \cup {id}
               /\ SlotOf(new, id).entity = [entity EXCEPT !.id = id]
               /\ \A i \in DOMAIN old.byId : SlotOf(new, i) = SlotOf(old, i)
<1> USE SessionAssumption
<1> DEFINE old == Removed(store, id)
<1>1. StoreSound(old) /\ ~Holds(old, id)
  BY RemovedSound
<1> DEFINE D == DOMAIN old.byId
<1> DEFINE n == Len(old.free)
<1> DEFINE slot == IF old.free # <<>> THEN old.free[n] ELSE Len(old.slots) + 1
<1> DEFINE generation == IF old.free # <<>> THEN old.slots[slot].generation ELSE 0
<1> DEFINE e == [entity EXCEPT !.id = id]
<1> DEFINE held == [generation |-> generation, entity |-> e]
<1> DEFINE slots == IF old.free # <<>> THEN [old.slots EXCEPT ![slot] = held]
                    ELSE Append(old.slots, held)
<1> DEFINE handle == [slot |-> slot, generation |-> generation]
<1> DEFINE byId == [i \in D \cup {id} |-> IF i = id THEN handle ELSE old.byId[i]]
<1> DEFINE free == IF old.free # <<>> THEN Front(old.free) ELSE <<>>
<1> DEFINE new == [slots |-> slots, byId |-> byId, free |-> free]
<1>2. Spawned(store, id, entity) = new
  BY DEF Spawned, Vacated, Last
<1>3. /\ D \subseteq Ids /\ old.byId \in [D -> Handles] /\ id \notin D
      /\ old.slots \in Seq(Slots1) /\ old.free \in Seq(Nat)
      /\ Len(old.slots) \in Nat /\ DOMAIN old.slots = 1 .. Len(old.slots)
      /\ n \in Nat /\ DOMAIN old.free = 1 .. n
  <2> HIDE DEF old
  <2> QED BY <1>1, StoreParts DEF StoreSound, Holds
<1>4. e \in Entities /\ e.id = id
  BY DEF Entities
<1>5. \A i \in D : /\ old.byId[i].slot \in DOMAIN old.slots
                   /\ SlotOf(old, i).generation = old.byId[i].generation
                   /\ SlotOf(old, i).entity \in Entities /\ SlotOf(old, i).entity.id = i
  BY <1>1 DEF StoreSound
<1>6. \A k \in DOMAIN old.free :
        /\ old.free[k] \in DOMAIN old.slots /\ old.slots[old.free[k]].entity = None
        /\ \A l \in DOMAIN old.free : old.free[l] = old.free[k] => l = k
  BY <1>1 DEF StoreSound
<1>7. \A m \in DOMAIN old.slots :
        \/ \E i \in D : old.byId[i].slot = m
        \/ \E k \in DOMAIN old.free : old.free[k] = m
  BY <1>1 DEF StoreSound
<1> HIDE DEF old, e
\* What either way of finding a slot gives.
<1>8. /\ slot \in Nat /\ generation \in Nat
      /\ slots \in Seq(Slots1) /\ free \in Seq(Nat)
      /\ slot \in DOMAIN slots /\ slots[slot] = held
      /\ DOMAIN slots = DOMAIN old.slots \cup {slot}
      /\ \A m \in DOMAIN old.slots : m # slot => slots[m] = old.slots[m]
      /\ \A i \in D : old.byId[i].slot # slot
      /\ DOMAIN free \subseteq DOMAIN old.free
      /\ \A k \in DOMAIN free : free[k] = old.free[k] /\ free[k] # slot
      /\ \A k \in DOMAIN old.free : k \in DOMAIN free \/ old.free[k] = slot
  <2>1. CASE old.free # <<>>
    <3>1. n \in DOMAIN old.free /\ n >= 1
      BY <1>3, <2>1
    <3>2. slot = old.free[n] /\ slot \in DOMAIN old.slots /\ old.slots[slot].entity = None
      BY <1>6, <2>1, <3>1
    <3>3. generation = old.slots[slot].generation /\ old.slots[slot] \in Slots1
      BY <1>3, <2>1, <3>2
    <3>4. slot \in Nat /\ generation \in Nat
      BY <1>3, <3>2, <3>3 DEF Slots1
    <3>5. held \in Slots1
      BY <3>4, <1>4 DEF Slots1
    <3>6. slots = [old.slots EXCEPT ![slot] = held] /\ free = SubSeq(old.free, 1, n - 1)
      BY <2>1 DEF Front
    <3> HIDE DEF held, slot, generation, slots
    <3>7. /\ slots \in Seq(Slots1) /\ DOMAIN slots = DOMAIN old.slots /\ slots[slot] = held
          /\ \A m \in DOMAIN old.slots : m # slot => slots[m] = old.slots[m]
      BY <3>2, <3>5, <3>6, <1>3
    <3> HIDE DEF free, n
    <3>8. /\ free \in Seq(Nat) /\ DOMAIN free = 1 .. n - 1
          /\ \A k \in 1 .. n - 1 : free[k] = old.free[k]
      BY <3>1, <3>6, <1>3
    <3>9. \A i \in D : old.byId[i].slot # slot
      <4> TAKE i \in D
      <4>1. old.slots[old.byId[i].slot].entity # None
        BY <1>5 DEF SlotOf
      <4> QED BY <4>1, <3>2
    <3>10. \A k \in 1 .. n - 1 : k \in DOMAIN old.free /\ old.free[k] # slot
      <4> TAKE k \in 1 .. n - 1
      <4>1. k \in DOMAIN old.free /\ k # n
        BY <1>3
      <4> QED BY <4>1, <1>6, <3>1, <3>2
    <3>11. \A k \in DOMAIN old.free : k \in 1 .. n - 1 \/ k = n
      BY <1>3
    <3> QED BY <3>2, <3>4, <3>7, <3>8, <3>9, <3>10, <3>11
  <2>2. CASE old.free = <<>>
    <3>1. slot = Len(old.slots) + 1 /\ generation = 0 /\ slot \in Nat
      BY <2>2, <1>3
    <3>2. held \in Slots1
      BY <3>1, <1>4 DEF Slots1
    <3>3. slots = Append(old.slots, held) /\ free = <<>>
      BY <2>2
    <3> HIDE DEF held, slot, generation, slots, free
    <3>4. /\ slots \in Seq(Slots1) /\ DOMAIN slots = 1 .. Len(old.slots) + 1
          /\ slots[slot] = held /\ slot \notin DOMAIN old.slots
          /\ \A m \in DOMAIN old.slots : slots[m] = old.slots[m]
      BY <3>1, <3>2, <3>3, <1>3
    <3>5. DOMAIN slots = DOMAIN old.slots \cup {slot}
      BY <3>1, <3>4, <1>3
    <3>6. free \in Seq(Nat) /\ DOMAIN free = {} /\ DOMAIN old.free = {}
      BY <3>3, <2>2
    <3>7. \A i \in D : old.byId[i].slot # slot
      BY <1>5, <3>4
    <3> QED BY <3>1, <3>4, <3>5, <3>6, <3>7
  <2> QED BY <2>1, <2>2
<1>9. handle \in Handles /\ handle.slot = slot /\ handle.generation = generation
  BY <1>8 DEF Handles
<1>10. held.entity = e /\ held.generation = generation
  OBVIOUS
<1> HIDE DEF held, slot, generation, slots, free, handle
<1>11. byId \in [D \cup {id} -> Handles] /\ D \cup {id} \in SUBSET Ids
  BY <1>3, <1>9
<1>12. byId[id] = handle /\ \A i \in D : byId[i] = old.byId[i]
  BY <1>3
<1>13. new \in Stores
  BY <1>8, <1>11, StoreMade
<1>14. DOMAIN byId = D \cup {id}
  OBVIOUS
<1> HIDE DEF byId, D
<1>15. \A i \in DOMAIN new.byId :
         /\ new.byId[i].slot \in DOMAIN new.slots
         /\ SlotOf(new, i).generation = new.byId[i].generation
         /\ SlotOf(new, i).entity \in Entities /\ SlotOf(new, i).entity.id = i
  <2> TAKE i \in DOMAIN new.byId
  <2>1. CASE i = id
    <3>1. new.byId[i].slot = slot /\ SlotOf(new, i) = held /\ new.byId[i].generation = generation
      BY <2>1, <1>8, <1>9, <1>12 DEF SlotOf
    <3> QED BY <2>1, <3>1, <1>4, <1>8, <1>10
  <2>2. CASE i # id
    <3>1. i \in D /\ new.byId[i] = old.byId[i]
      BY <2>2, <1>12, <1>14
    <3>2. old.byId[i].slot \in DOMAIN old.slots /\ old.byId[i].slot # slot
      BY <3>1, <1>5, <1>8
    <3>3. SlotOf(new, i) = SlotOf(old, i)
      BY <3>1, <3>2, <1>8 DEF SlotOf
    <3> QED BY <3>1, <3>2, <3>3, <1>5, <1>8
  <2> QED BY <2>1, <2>2
<1>16. \A k \in DOMAIN free :
         /\ free[k] \in DOMAIN slots /\ slots[free[k]].entity = None
         /\ \A l \in DOMAIN free : free[l] = free[k] => l = k
  <2> TAKE k \in DOMAIN free
  <2>1. k \in DOMAIN old.free /\ free[k] = old.free[k] /\ free[k] # slot
    BY <1>8
  <2>2. free[k] \in DOMAIN old.slots /\ old.slots[free[k]].entity = None
    BY <2>1, <1>6
  <2>3. \A l \in DOMAIN free : free[l] = free[k] => l = k
    BY <2>1, <1>6, <1>8
  <2> QED BY <2>1, <2>2, <2>3, <1>8
<1>17. \A m \in DOMAIN slots :
         \/ \E i \in DOMAIN byId : byId[i].slot = m
         \/ \E k \in DOMAIN free : free[k] = m
  <2> TAKE m \in DOMAIN slots
  <2>1. CASE m = slot
    BY <2>1, <1>9, <1>12, <1>14
  <2>2. CASE m # slot
    <3>1. m \in DOMAIN old.slots
      BY <2>2, <1>8
    <3>2. ASSUME NEW i \in D, old.byId[i].slot = m PROVE i \in DOMAIN byId /\ byId[i].slot = m
      BY <3>2, <1>12, <1>14
    <3>3. ASSUME NEW k \in DOMAIN old.free, old.free[k] = m PROVE k \in DOMAIN free /\ free[k] = m
      BY <3>3, <2>2, <1>8
    <3> QED BY <3>1, <3>2, <3>3, <1>7
  <2> QED BY <2>1, <2>2
<1>18. StoreSound(new)
  BY <1>13, <1>15, <1>16, <1>17 DEF StoreSound
<1>19. DOMAIN new.byId = D \cup {id}
  BY <1>14
<1>20. SlotOf(new, id).entity = e
  BY <1>8, <1>9, <1>10, <1>12 DEF SlotOf
<1>21. \A i \in D : SlotOf(new, i) = SlotOf(old, i)
  <2> TAKE i \in D
  <2>1. new.byId[i] = old.byId[i]
    BY <1>12
  <2> QED BY <2>1, <1>5, <1>8 DEF SlotOf
<1> HIDE DEF new
<1> QED BY <1>2, <1>18, <1>19, <1>20, <1>21 DEF D, e, old

\* One entity, changed as Updated changes it.
Changed(e, p) ==
    CASE p.kind = "move" -> [e EXCEPT !.x = @ + p.delta]
      [] p.kind = "sync" -> [e EXCEPT !.x = p.x]
      [] p.kind = "data" -> [e EXCEPT !.data = p.data]
      [] p.kind = "velocity" -> [e EXCEPT !.v = p.v]

EntityUpdates ==
    [kind : {"move"}, id : Ids, delta : Int] \cup [kind : {"sync"}, id : Ids, x : Int]
    \cup [kind : {"data"}, id : Ids, data : Int] \cup [kind : {"velocity"}, id : Ids, v : Int]
LEMMA UpdatedSound ==
  ASSUME NEW store, StoreSound(store), NEW p \in EntityUpdates
  PROVE  /\ StoreSound(Updated(store, p))
         /\ LET new == Updated(store, p)
            IN /\ DOMAIN new.byId = DOMAIN store.byId
               /\ p.id \in DOMAIN store.byId =>
                    SlotOf(new, p.id).entity = Changed(SlotOf(store, p.id).entity, p)
               /\ \A i \in DOMAIN store.byId : i # p.id => SlotOf(new, i) = SlotOf(store, i)
<1> USE SessionAssumption
<1> DEFINE e == Lookup(store, p.id)
<1>1. CASE e = None
  <2>1. p.id \notin DOMAIN store.byId
    <3> SUFFICES ASSUME p.id \in DOMAIN store.byId PROVE FALSE
      OBVIOUS
    <3>1. /\ SlotOf(store, p.id).generation = store.byId[p.id].generation
          /\ SlotOf(store, p.id).entity \in Entities
      BY DEF StoreSound
    <3>2. e = SlotOf(store, p.id).entity
      BY <3>1 DEF Lookup, Holds, SlotOf
    <3> QED BY <1>1, <3>1, <3>2
  <2> QED BY <1>1, <2>1 DEF Updated
<1>2. CASE e # None
  <2> DEFINE id == p.id
  <2> DEFINE k == store.byId[id].slot
  <2>1. Holds(store, id) /\ id \in DOMAIN store.byId
    BY <1>2 DEF Lookup, Holds
  <2>2. /\ k \in DOMAIN store.slots /\ store.slots[k].entity \in Entities
        /\ store.slots[k].entity.id = id /\ store.slots[k].generation = store.byId[id].generation
    BY <2>1 DEF StoreSound, SlotOf
  <2>3. e = store.slots[k].entity
    BY <2>1, <2>2 DEF Lookup
  <2>4. e \in Entities /\ e.id = id
    BY <2>2, <2>3
  <2> DEFINE f == Changed(e, p)
  <2>5. f \in Entities /\ f.id = id
    <3> HIDE DEF e, id
    <3>1. CASE p \in [kind : {"move"}, id : Ids, delta : Int]
      <4>1. p.kind = "move" /\ p.delta \in Int /\ f = [e EXCEPT !.x = @ + p.delta]
        BY <3>1 DEF Changed
      <4> QED BY <4>1, <2>4 DEF Entities
    <3>2. CASE p \in [kind : {"sync"}, id : Ids, x : Int]
      <4>1. p.kind = "sync" /\ p.x \in Int /\ f = [e EXCEPT !.x = p.x]
        BY <3>2 DEF Changed
      <4> QED BY <4>1, <2>4 DEF Entities
    <3>3. CASE p \in [kind : {"data"}, id : Ids, data : Int]
      <4>1. p.kind = "data" /\ p.data \in Int /\ f = [e EXCEPT !.data = p.data]
        BY <3>3 DEF Changed
      <4> QED BY <4>1, <2>4 DEF Entities
    <3>4. CASE p \in [kind : {"velocity"}, id : Ids, v : Int]
      <4>1. p.kind = "velocity" /\ p.v \in Int /\ f = [e EXCEPT !.v = p.v]
        BY <3>4 DEF Changed
      <4> QED BY <4>1, <2>4 DEF Entities
    <3> QED BY <3>1, <3>2, <3>3, <3>4 DEF EntityUpdates
  <2>6. Updated(store, p) = [store EXCEPT !.slots[k].entity = f]
    BY <1>2 DEF Updated, Changed
  <2> DEFINE held == [store.slots[k] EXCEPT !.entity = f]
  <2> DEFINE slots == [store.slots EXCEPT ![k] = held]
  <2> DEFINE new == [slots |-> slots, byId |-> store.byId, free |-> store.free]
  <2>7. /\ store = [slots |-> store.slots, byId |-> store.byId, free |-> store.free]
        /\ store.slots \in Seq(Slots1) /\ store.free \in Seq(Nat)
        /\ DOMAIN store.byId \subseteq Ids /\ store.byId \in [DOMAIN store.byId -> Handles]
    BY StoreParts, SMTT(30) DEF StoreSound
  <2> HIDE DEF f, e
  <2>8. Updated(store, p) = new
    <3>1. [store EXCEPT !.slots[k].entity = f] = [store EXCEPT !.slots = slots]
      OBVIOUS
    <3> HIDE DEF slots
    <3>2. [store EXCEPT !.slots = slots]
            = [[slots |-> store.slots, byId |-> store.byId, free |-> store.free] EXCEPT !.slots = slots]
      BY <2>7
    <3>3. [[slots |-> store.slots, byId |-> store.byId, free |-> store.free] EXCEPT !.slots = slots]
            = new
      OBVIOUS
    <3> QED BY <2>6, <3>1, <3>2, <3>3
  <2>9. store.slots[k] \in Slots1
    BY <2>2, <2>7
  <2>10. held \in Slots1 /\ held.entity = f /\ held.generation = store.slots[k].generation
    BY <2>9, <2>5 DEF Slots1
  <2> HIDE DEF held
  <2>11. /\ slots \in Seq(Slots1) /\ DOMAIN slots = DOMAIN store.slots /\ slots[k] = held
         /\ \A m \in DOMAIN store.slots : m # k => slots[m] = store.slots[m]
    <3> HIDE DEF k
    <3> QED BY <2>2, <2>7, <2>10
  <2> HIDE DEF slots, k, id
  <2>12. new \in Stores
    BY <2>7, <2>11, StoreMade
  <2>13. /\ SlotOf(new, id) = held /\ new.byId[id] = store.byId[id]
         /\ held.generation = store.byId[id].generation
    BY <2>2, <2>10, <2>11 DEF SlotOf, id, k
  <2>14. \A i \in DOMAIN new.byId :
           /\ new.byId[i].slot \in DOMAIN new.slots
           /\ SlotOf(new, i).generation = new.byId[i].generation
           /\ SlotOf(new, i).entity \in Entities /\ SlotOf(new, i).entity.id = i
    <3> TAKE i \in DOMAIN new.byId
    <3>1. /\ store.byId[i].slot \in DOMAIN store.slots
          /\ SlotOf(store, i).generation = store.byId[i].generation
          /\ SlotOf(store, i).entity \in Entities /\ SlotOf(store, i).entity.id = i
      BY DEF StoreSound
    <3>2. CASE i = id
      BY <3>1, <3>2, <2>5, <2>10, <2>11, <2>13
    <3>3. CASE i # id
      <4>1. store.byId[i].slot # k
        BY <3>1, <3>3, <2>2 DEF SlotOf
      <4>2. SlotOf(new, i) = SlotOf(store, i)
        BY <3>1, <4>1, <2>11 DEF SlotOf
      <4> QED BY <3>1, <4>2, <2>11
    <3> QED BY <3>2, <3>3
  <2>15. \A l \in DOMAIN store.free :
           /\ store.free[l] \in DOMAIN slots /\ slots[store.free[l]].entity = None
           /\ \A m \in DOMAIN store.free : store.free[m] = store.free[l] => m = l
    <3> TAKE l \in DOMAIN store.free
    <3>1. /\ store.free[l] \in DOMAIN store.slots /\ store.slots[store.free[l]].entity = None
          /\ \A m \in DOMAIN store.free : store.free[m] = store.free[l] => m = l
      BY DEF StoreSound
    <3>2. store.free[l] # k
      BY <3>1, <2>2
    <3> QED BY <3>1, <3>2, <2>11
  <2>16. \A n \in DOMAIN slots :
           \/ \E i \in DOMAIN store.byId : store.byId[i].slot = n
           \/ \E l \in DOMAIN store.free : store.free[l] = n
    BY <2>11 DEF StoreSound
  <2>17. StoreSound(new)
    BY <2>12, <2>14, <2>15, <2>16 DEF StoreSound
  <2>18. SlotOf(new, id).entity = f
    BY <2>10, <2>13
  <2>19. \A i \in DOMAIN store.byId : i # id => SlotOf(new, i) = SlotOf(store, i)
    <3> TAKE i \in DOMAIN store.byId
    <3> HAVE i # id
    <3>1. store.byId[i].slot \in DOMAIN store.slots /\ SlotOf(store, i).entity.id = i
      BY DEF StoreSound
    <3>2. store.byId[i].slot # k
      BY <3>1, <2>2 DEF SlotOf
    <3> QED BY <3>1, <3>2, <2>11 DEF SlotOf
  <2>20. DOMAIN new.byId = DOMAIN store.byId
    OBVIOUS
  <2>21. f = Changed(SlotOf(store, id).entity, p)
    BY <2>3 DEF f, SlotOf, k
  <2> HIDE DEF new
  <2> QED BY <2>8, <2>17, <2>18, <2>19, <2>20, <2>21 DEF id
<1> QED BY <1>1, <1>2

LEMMA StoreSoundIsExact ==
  ASSUME StoreSound(world.store)
  PROVE  StoreExact
<1> USE SessionAssumption
<1> DEFINE store == world.store
<1> DEFINE D == DOMAIN store.byId
<1> DEFINE used == {store.byId[i].slot : i \in D}
<1> DEFINE n == Len(store.free)
<1>1. /\ Len(store.slots) \in Nat /\ DOMAIN store.slots = 1 .. Len(store.slots)
      /\ n \in Nat /\ DOMAIN store.free = 1 .. n
  BY StoreParts DEF StoreSound
<1>2. \A i \in D : Lookup(store, i) # None /\ Lookup(store, i).id = i
  <2> TAKE i \in D
  <2>1. /\ SlotOf(store, i).generation = store.byId[i].generation
        /\ SlotOf(store, i).entity \in Entities /\ SlotOf(store, i).entity.id = i
    BY DEF StoreSound
  <2>2. Lookup(store, i) = SlotOf(store, i).entity
    BY <2>1 DEF Lookup, Holds, SlotOf
  <2> QED BY <2>1, <2>2
<1>3. IsFiniteSet(D) /\ \A i, j \in D : store.byId[i].slot = store.byId[j].slot => i = j
  BY StoreFinite
<1>4. IsFiniteSet(used) /\ Cardinality(used) = Cardinality(D)
  <2> DEFINE f == [i \in D |-> store.byId[i].slot]
  <2>1. f \in [D -> used]
    OBVIOUS
  <2>2. \A i, j \in D : f[i] = f[j] => i = j
    BY <1>3
  <2>3. \A u \in used : \E i \in D : f[i] = u
    OBVIOUS
  <2> HIDE DEF f, D, used
  <2>4. f \in Bijection(D, used)
    BY <2>1, <2>2, <2>3 DEF Bijection, Injection, Surjection, IsInjective
  <2>5. ExistsBijection(D, used)
    BY <2>4 DEF ExistsBijection
  <2> QED BY <1>3, <2>5, FS_Bijection
<1>5. IsFiniteSet(Range(store.free)) /\ Cardinality(Range(store.free)) = n
  <2> DEFINE R == Range(store.free)
  <2>1. store.free \in [1 .. n -> R]
    BY <1>1, StoreParts DEF StoreSound, Range
  <2>2. \A k, l \in 1 .. n : store.free[k] = store.free[l] => k = l
    BY <1>1 DEF StoreSound
  <2>3. \A r \in R : \E k \in 1 .. n : store.free[k] = r
    BY <1>1 DEF Range
  <2>9. n \in Nat
    BY <1>1
  <2> HIDE DEF R, n
  <2>4. IsFiniteSet(1 .. n) /\ Cardinality(1 .. n) = n
    BY <2>9, FS_Interval
  <2>5. store.free \in Bijection(1 .. n, R)
    <3>1. DOMAIN store.free = 1 .. n
      BY <1>1
    <3> HIDE DEF store
    <3>2. IsInjective(store.free)
      BY <2>2, <3>1 DEF IsInjective
    <3> QED BY <2>1, <2>3, <3>2 DEF Bijection, Injection, Surjection
  <2>6. ExistsBijection(1 .. n, R)
    BY <2>5 DEF ExistsBijection
  <2>7. IsFiniteSet(R) /\ Cardinality(R) = n
    BY <2>4, <2>6, FS_Bijection
  <2> QED BY <2>7 DEF R
<1>6. used \cup Range(store.free) = DOMAIN store.slots
  <2>1. used \subseteq DOMAIN store.slots
    BY DEF StoreSound
  <2>2. Range(store.free) \subseteq DOMAIN store.slots
    BY DEF StoreSound, Range
  <2>3. DOMAIN store.slots \subseteq used \cup Range(store.free)
    BY DEF StoreSound, Range
  <2> QED BY <2>1, <2>2, <2>3
<1>7. used \cap Range(store.free) = {}
  <2>1. \A i \in D : store.slots[store.byId[i].slot].entity # None
    BY DEF StoreSound, SlotOf
  <2>2. \A k \in DOMAIN store.free : store.slots[store.free[k]].entity = None
    BY DEF StoreSound
  <2> QED BY <2>1, <2>2 DEF Range
<1>8. Len(store.free) + Cardinality(used) = Len(store.slots)
  <2>1. Cardinality(DOMAIN store.slots) = Len(store.slots)
    <3>1. PICK l \in Nat : l = Len(store.slots)
      BY <1>1
    <3>2. Cardinality(1 .. l) = IF 1 > l THEN 0 ELSE l - 1 + 1
      BY FS_Interval
    <3>3. Cardinality(1 .. l) = l
      BY <3>2
    <3> QED BY <1>1, <3>1, <3>3
  <2>2. Cardinality({}) = 0
    BY FS_EmptySet
  <2>3. Cardinality(used) \in Nat
    BY <1>4, FS_CardinalityType
  <2> HIDE DEF used
  <2>4. Cardinality(used \cup Range(store.free))
          = Cardinality(used) + Cardinality(Range(store.free)) - Cardinality(used \cap Range(store.free))
    BY <1>4, <1>5, FS_Union
  <2>5. Len(store.slots) = Cardinality(used) + n - 0
    BY <2>1, <2>2, <2>4, <1>5, <1>6, <1>7
  <2> QED BY <2>3, <2>5, <1>1
<1> HIDE DEF n
<1> QED BY <1>2, <1>4, <1>6, <1>8 DEF StoreExact

-----------------------------------------------------------------------------
\* The channels: what is taken off the front and put at the end.

LEMMA SeqParts ==
  ASSUME NEW s, IsSeq(s)
  PROVE  Len(s) \in Nat /\ DOMAIN s = 1 .. Len(s) /\ (s = <<>> <=> Len(s) = 0)
BY DEF IsSeq

LEMMA SeqMade ==
  ASSUME NEW R, NEW s \in Seq(R)
  PROVE  IsSeq(s)
<1>1. s \in [1 .. Len(s) -> R] /\ Len(s) \in Nat
  OBVIOUS
<1>2. s \in [1 .. Len(s) -> Range(s)]
  BY <1>1 DEF Range
<1> QED BY <1>1, <1>2 DEF IsSeq

LEMMA Popped ==
  ASSUME NEW s, IsSeq(s), s # <<>>
  PROVE  /\ IsSeq(Tail(s)) /\ Len(s) \in Nat /\ Len(s) >= 1 /\ Len(Tail(s)) = Len(s) - 1
         /\ DOMAIN s = 1 .. Len(s) /\ DOMAIN Tail(s) = 1 .. Len(s) - 1
         /\ 1 \in DOMAIN s /\ Head(s) = s[1]
         /\ \A i \in 1 .. Len(s) - 1 : i + 1 \in DOMAIN s /\ Tail(s)[i] = s[i + 1]
<1> DEFINE R == Range(s)
<1>1. s \in Seq(R)
  BY DEF IsSeq
<1> HIDE DEF R
<1>2. Tail(s) \in Seq(R)
  BY <1>1
<1>3. IsSeq(Tail(s))
  BY <1>2, SeqMade
<1>4. Len(s) \in Nat /\ Len(s) >= 1 /\ DOMAIN s = 1 .. Len(s)
  BY <1>1
<1>5. Len(Tail(s)) = Len(s) - 1 /\ DOMAIN Tail(s) = 1 .. Len(s) - 1 /\ Head(s) = s[1]
      /\ \A i \in 1 .. Len(s) - 1 : Tail(s)[i] = s[i + 1]
  BY <1>1, <1>4
<1> QED BY <1>3, <1>4, <1>5

LEMMA Joined ==
  ASSUME NEW s, IsSeq(s), NEW t, IsSeq(t)
  PROVE  /\ IsSeq(s \o t) /\ Len(s) \in Nat /\ Len(t) \in Nat /\ Len(s \o t) = Len(s) + Len(t)
         /\ DOMAIN s = 1 .. Len(s) /\ DOMAIN t = 1 .. Len(t)
         /\ DOMAIN (s \o t) = 1 .. Len(s) + Len(t)
         /\ \A i \in 1 .. Len(s) : (s \o t)[i] = s[i]
         /\ \A i \in 1 .. Len(t) : (s \o t)[Len(s) + i] = t[i]
         /\ \A i \in 1 .. Len(s) + Len(t) :
              i \in 1 .. Len(s) \/ (i - Len(s) \in 1 .. Len(t) /\ (s \o t)[i] = t[i - Len(s)])
<1> DEFINE R == Range(s) \cup Range(t)
<1>1. s \in Seq(R) /\ t \in Seq(R)
  BY DEF IsSeq
<1> HIDE DEF R
<1>2. s \o t \in Seq(R) /\ Len(s \o t) = Len(s) + Len(t) /\ Len(s) \in Nat /\ Len(t) \in Nat
      /\ DOMAIN s = 1 .. Len(s) /\ DOMAIN t = 1 .. Len(t)
  BY <1>1
<1>3. IsSeq(s \o t)
  BY <1>2, SeqMade
<1>4. DOMAIN (s \o t) = 1 .. Len(s) + Len(t)
  BY <1>2
<1>5. \A i \in 1 .. Len(s) + Len(t) :
        (s \o t)[i] = IF i <= Len(s) THEN s[i] ELSE t[i - Len(s)]
  BY <1>1, <1>2
<1>6. \A i \in 1 .. Len(s) : (s \o t)[i] = s[i]
  BY <1>2, <1>5
<1>7. \A i \in 1 .. Len(t) : (s \o t)[Len(s) + i] = t[i]
  <2> TAKE i \in 1 .. Len(t)
  <2>1. Len(s) + i \in 1 .. Len(s) + Len(t) /\ ~(Len(s) + i <= Len(s)) /\ Len(s) + i - Len(s) = i
    BY <1>2
  <2> QED BY <2>1, <1>5
<1>8. \A i \in 1 .. Len(s) + Len(t) :
        i \in 1 .. Len(s) \/ (i - Len(s) \in 1 .. Len(t) /\ (s \o t)[i] = t[i - Len(s)])
  <2> TAKE i \in 1 .. Len(s) + Len(t)
  <2>1. CASE i <= Len(s)
    BY <2>1, <1>2
  <2>2. CASE ~(i <= Len(s))
    <3>1. i - Len(s) \in 1 .. Len(t)
      BY <2>2, <1>2
    <3> QED BY <2>2, <3>1, <1>5
  <2> QED BY <2>1, <2>2
<1> QED BY <1>2, <1>3, <1>4, <1>6, <1>7, <1>8

LEMMA Short ==
  /\ IsSeq(<<>>) /\ Len(<<>>) = 0 /\ DOMAIN <<>> = {}
  /\ \A p : IsSeq(<<p>>) /\ Len(<<p>>) = 1 /\ DOMAIN <<p>> = {1} /\ <<p>>[1] = p
  /\ \A p, q : IsSeq(<<p, q>>) /\ Len(<<p, q>>) = 2 /\ DOMAIN <<p, q>> = {1, 2}
               /\ <<p, q>>[1] = p /\ <<p, q>>[2] = q
<1>1. IsSeq(<<>>) /\ Len(<<>>) = 0 /\ DOMAIN <<>> = {}
  <2> DEFINE R == {0}
  <2>1. <<>> \in Seq(R)
    OBVIOUS
  <2> HIDE DEF R
  <2>2. IsSeq(<<>>)
    BY <2>1, SeqMade
  <2> QED BY <2>2
<1>2. ASSUME NEW p PROVE IsSeq(<<p>>) /\ Len(<<p>>) = 1 /\ DOMAIN <<p>> = {1} /\ <<p>>[1] = p
  <2> DEFINE R == {p}
  <2>1. <<p>> \in Seq(R)
    OBVIOUS
  <2> HIDE DEF R
  <2>2. IsSeq(<<p>>)
    BY <2>1, SeqMade
  <2>3. DOMAIN <<p>> = 1 .. 1
    OBVIOUS
  <2> QED BY <2>2, <2>3
<1>3. ASSUME NEW p, NEW q
      PROVE  IsSeq(<<p, q>>) /\ Len(<<p, q>>) = 2 /\ DOMAIN <<p, q>> = {1, 2}
             /\ <<p, q>>[1] = p /\ <<p, q>>[2] = q
  <2> DEFINE R == {p, q}
  <2>1. <<p, q>> \in Seq(R)
    OBVIOUS
  <2> HIDE DEF R
  <2>2. IsSeq(<<p, q>>)
    BY <2>1, SeqMade
  <2>3. DOMAIN <<p, q>> = 1 .. 2
    OBVIOUS
  <2> QED BY <2>2, <2>3
<1> QED BY <1>1, <1>2, <1>3

LEMMA DownPopped ==
  ASSUME NEW s, DownOK(s), s # <<>>
  PROVE  DownOK(Tail(s)) /\ (Head(s).kind \in InventoryKinds \/ Head(s) \in WorldPackets)
<1>1. IsSeq(s)
  BY DEF DownOK
<1> QED BY <1>1, Popped DEF DownOK

LEMMA UpPopped ==
  ASSUME NEW s, UpOK(s), s # <<>>
  PROVE  UpOK(Tail(s)) /\ (Head(s).kind \in SentKinds \/ Head(s) \in Answers)
<1>1. IsSeq(s)
  BY DEF UpOK
<1> QED BY <1>1, Popped DEF UpOK

LEMMA DownPushed ==
  ASSUME NEW s, DownOK(s), NEW t, DownOK(t)
  PROVE  DownOK(s \o t)
<1>1. IsSeq(s) /\ IsSeq(t)
  BY DEF DownOK
<1>2. IsSeq(s \o t) /\ DOMAIN (s \o t) = 1 .. Len(s) + Len(t)
      /\ DOMAIN s = 1 .. Len(s) /\ DOMAIN t = 1 .. Len(t)
  BY <1>1, Joined
<1>3. \A i \in DOMAIN (s \o t) : (\E j \in DOMAIN s : (s \o t)[i] = s[j])
                                 \/ (\E j \in DOMAIN t : (s \o t)[i] = t[j])
  <2> TAKE i \in DOMAIN (s \o t)
  <2>1. \/ i \in 1 .. Len(s) /\ (s \o t)[i] = s[i]
        \/ i - Len(s) \in 1 .. Len(t) /\ (s \o t)[i] = t[i - Len(s)]
    <3>1. i \in 1 .. Len(s) + Len(t)
      BY <1>2
    <3> QED BY <1>1, <3>1, Joined
  <2> QED BY <1>2, <2>1
<1> QED BY <1>2, <1>3 DEF DownOK

LEMMA UpPushed ==
  ASSUME NEW s, UpOK(s), NEW t, UpOK(t)
  PROVE  UpOK(s \o t)
<1>1. IsSeq(s) /\ IsSeq(t)
  BY DEF UpOK
<1>2. IsSeq(s \o t) /\ DOMAIN (s \o t) = 1 .. Len(s) + Len(t)
      /\ DOMAIN s = 1 .. Len(s) /\ DOMAIN t = 1 .. Len(t)
  BY <1>1, Joined
<1>3. \A i \in DOMAIN (s \o t) : (\E j \in DOMAIN s : (s \o t)[i] = s[j])
                                 \/ (\E j \in DOMAIN t : (s \o t)[i] = t[j])
  <2> TAKE i \in DOMAIN (s \o t)
  <2>1. \/ i \in 1 .. Len(s) /\ (s \o t)[i] = s[i]
        \/ i - Len(s) \in 1 .. Len(t) /\ (s \o t)[i] = t[i - Len(s)]
    <3>1. i \in 1 .. Len(s) + Len(t)
      BY <1>2
    <3> QED BY <1>1, <3>1, Joined
  <2> QED BY <1>2, <2>1
<1> QED BY <1>2, <1>3 DEF UpOK

\* What a frame of each kind carries.
LEMMA FrameEntity ==
  ASSUME DownOK(down), down # <<>>
  PROVE  /\ Frame.kind = "spawn" => Frame.id \in Ids /\ Frame.entity \in Entities
         /\ Frame.kind = "remove" => Frame.ids \in Seq(Ids)
         /\ Frame.kind \in {"move", "sync", "data", "velocity"} => Frame \in EntityUpdates
         /\ Frame.kind = "velocity" => Frame.v \in Int /\ Frame.id \in Ids
<1>1. Frame.kind \in InventoryKinds \/ Frame \in WorldPackets
  BY DownPopped DEF Frame
<1> HIDE DEF Frame
<1>2. Frame.kind = "spawn" => Frame.id \in Ids /\ Frame.entity \in Entities
  BY <1>1 DEF WorldPackets, InventoryKinds
<1>3. Frame.kind = "remove" => Frame.ids \in Seq(Ids)
  BY <1>1 DEF WorldPackets, InventoryKinds
<1>4. Frame.kind = "move" => Frame \in EntityUpdates
  BY <1>1 DEF WorldPackets, InventoryKinds, EntityUpdates
<1>5. Frame.kind = "sync" => Frame \in EntityUpdates
  BY <1>1 DEF WorldPackets, InventoryKinds, EntityUpdates
<1>6. Frame.kind = "data" => Frame \in EntityUpdates
  BY <1>1 DEF WorldPackets, InventoryKinds, EntityUpdates
<1>7. Frame.kind = "velocity" => Frame \in EntityUpdates
  BY <1>1 DEF WorldPackets, InventoryKinds, EntityUpdates
<1>8. Frame.kind = "velocity" => Frame.v \in Int /\ Frame.id \in Ids
  BY <1>7 DEF EntityUpdates
<1> QED BY <1>2, <1>3, <1>4, <1>5, <1>6, <1>7, <1>8

LEMMA FrameWorld ==
  ASSUME DownOK(down), down # <<>>
  PROVE  /\ Frame.kind = "chunk" => Frame \in Decodes
         /\ Frame.kind = "forget" => Frame.at \in Coordinates
         /\ Frame.kind = "update" => Frame.at \in Coordinates /\ Frame.field \in Fields
                                     /\ Frame.value \in Int
         /\ Frame.kind = "rain" => Frame.rain \in BOOLEAN
         /\ Frame.kind = "mode" => Frame.mode \in Int
         /\ Frame.kind = "position" => /\ Frame.id \in Nat /\ Frame.serial \in Nat /\ Frame.x \in Int
                                       /\ Frame.relative \in BOOLEAN /\ Frame.turns \in BOOLEAN
         /\ Frame.kind = "respawn" => /\ Frame.dim \in Int /\ Frame.mode \in Int
                                      /\ Frame.keep \in BOOLEAN /\ Frame.stay \in Nat
         /\ Frame.kind = "login" => /\ Frame.own \in Ids /\ Frame.dim \in Int /\ Frame.mode \in Int
                                    /\ Frame.stay \in Nat
         /\ Frame.kind = "keep_alive" => Frame \in [kind : {"keep_alive"}, id : Nat]
<1>1. Frame.kind \in InventoryKinds \/ Frame \in WorldPackets
  BY DownPopped DEF Frame
<1> HIDE DEF Frame
<1>2. Frame.kind = "chunk" => Frame \in Decodes
  BY <1>1 DEF WorldPackets, InventoryKinds, Decodes
<1>3. Frame.kind = "forget" => Frame.at \in Coordinates
  BY <1>1 DEF WorldPackets, InventoryKinds
<1>4. Frame.kind = "update" => Frame.at \in Coordinates /\ Frame.field \in Fields
                               /\ Frame.value \in Int
  BY <1>1 DEF WorldPackets, InventoryKinds
<1>5. Frame.kind = "rain" => Frame.rain \in BOOLEAN
  BY <1>1 DEF WorldPackets, InventoryKinds
<1>6. Frame.kind = "mode" => Frame.mode \in Int
  BY <1>1 DEF WorldPackets, InventoryKinds
<1>7. Frame.kind = "position" => /\ Frame.id \in Nat /\ Frame.serial \in Nat /\ Frame.x \in Int
                                 /\ Frame.relative \in BOOLEAN /\ Frame.turns \in BOOLEAN
  BY <1>1 DEF WorldPackets, InventoryKinds
<1>8. Frame.kind = "respawn" => /\ Frame.dim \in Int /\ Frame.mode \in Int
                                /\ Frame.keep \in BOOLEAN /\ Frame.stay \in Nat
  BY <1>1 DEF WorldPackets, InventoryKinds
<1>9. Frame.kind = "login" => /\ Frame.own \in Ids /\ Frame.dim \in Int /\ Frame.mode \in Int
                              /\ Frame.stay \in Nat
  BY <1>1 DEF WorldPackets, InventoryKinds
<1>10. Frame.kind = "keep_alive" => Frame \in [kind : {"keep_alive"}, id : Nat]
  BY <1>1 DEF WorldPackets, InventoryKinds
<1> QED BY <1>2, <1>3, <1>4, <1>5, <1>6, <1>7, <1>8, <1>9, <1>10

LEMMA AnswerOf ==
  ASSUME UpOK(up), up # <<>>
  PROVE  /\ Head(up).kind = "move" => Head(up).x \in Int /\ Head(up).after \in Nat
         /\ Head(up).kind = "confirm" => Head(up).id \in Nat
<1> DEFINE p == Head(up)
<1>1. p.kind \in SentKinds \/ p \in Answers
  BY UpPopped
<1> HIDE DEF p
<1>2. p.kind = "move" => p.x \in Int /\ p.after \in Nat
  BY <1>1 DEF Answers, CommandKinds, SentKinds
<1>3. p.kind = "confirm" => p.id \in Nat
  BY <1>1 DEF Answers, CommandKinds, SentKinds
<1> QED BY <1>2, <1>3 DEF p

-----------------------------------------------------------------------------
\* What the inventory's part of the session does to the channels.

CommandsOnly(packets) ==
    IsSeq(packets) /\ \A i \in DOMAIN packets : packets[i].kind \in CommandKinds
UpdatesOnly(packets) ==
    IsSeq(packets) /\ \A i \in DOMAIN packets : packets[i].kind \in InventoryKinds
SentOnly(packets) ==
    IsSeq(packets) /\ \A i \in DOMAIN packets : packets[i].kind \in SentKinds

LEMMA UpdatesJoined ==
  ASSUME NEW s, UpdatesOnly(s), NEW t, UpdatesOnly(t)
  PROVE  UpdatesOnly(s \o t)
<1>1. IsSeq(s) /\ IsSeq(t)
  BY DEF UpdatesOnly
<1>2. IsSeq(s \o t) /\ DOMAIN (s \o t) = 1 .. Len(s) + Len(t)
      /\ DOMAIN s = 1 .. Len(s) /\ DOMAIN t = 1 .. Len(t)
  BY <1>1, Joined
<1>3. \A i \in DOMAIN (s \o t) : (s \o t)[i].kind \in InventoryKinds
  <2> TAKE i \in DOMAIN (s \o t)
  <2>1. \/ i \in 1 .. Len(s) /\ (s \o t)[i] = s[i]
        \/ i - Len(s) \in 1 .. Len(t) /\ (s \o t)[i] = t[i - Len(s)]
    <3>1. i \in 1 .. Len(s) + Len(t)
      BY <1>2
    <3> QED BY <1>1, <3>1, Joined
  <2> QED BY <1>2, <2>1 DEF UpdatesOnly
<1> QED BY <1>2, <1>3 DEF UpdatesOnly

LEMMA CommandsJoined ==
  ASSUME NEW s, CommandsOnly(s), NEW t, CommandsOnly(t)
  PROVE  CommandsOnly(s \o t)
<1>1. IsSeq(s) /\ IsSeq(t)
  BY DEF CommandsOnly
<1>2. IsSeq(s \o t) /\ DOMAIN (s \o t) = 1 .. Len(s) + Len(t)
      /\ DOMAIN s = 1 .. Len(s) /\ DOMAIN t = 1 .. Len(t)
  BY <1>1, Joined
<1>3. \A i \in DOMAIN (s \o t) : (s \o t)[i].kind \in CommandKinds
  <2> TAKE i \in DOMAIN (s \o t)
  <2>1. \/ i \in 1 .. Len(s) /\ (s \o t)[i] = s[i]
        \/ i - Len(s) \in 1 .. Len(t) /\ (s \o t)[i] = t[i - Len(s)]
    <3>1. i \in 1 .. Len(s) + Len(t)
      BY <1>2
    <3> QED BY <1>1, <3>1, Joined
  <2> QED BY <1>2, <2>1 DEF CommandsOnly
<1> QED BY <1>2, <1>3 DEF CommandsOnly

LEMMA ShortUpdates ==
  /\ UpdatesOnly(<<>>)
  /\ \A p : p.kind \in InventoryKinds => UpdatesOnly(<<p>>)
  /\ \A p, q : p.kind \in InventoryKinds /\ q.kind \in InventoryKinds => UpdatesOnly(<<p, q>>)
<1>1. UpdatesOnly(<<>>)
  BY Short DEF UpdatesOnly
<1>2. ASSUME NEW p, p.kind \in InventoryKinds PROVE UpdatesOnly(<<p>>)
  BY <1>2, Short DEF UpdatesOnly
<1>3. ASSUME NEW p, NEW q, p.kind \in InventoryKinds, q.kind \in InventoryKinds
      PROVE  UpdatesOnly(<<p, q>>)
  BY <1>3, Short DEF UpdatesOnly
<1> QED BY <1>1, <1>2, <1>3

LEMMA ShortCommands ==
  /\ CommandsOnly(<<>>)
  /\ \A p : p.kind \in CommandKinds => CommandsOnly(<<p>>)
  /\ \A p, q : p.kind \in CommandKinds /\ q.kind \in CommandKinds => CommandsOnly(<<p, q>>)
<1>1. CommandsOnly(<<>>)
  BY Short DEF CommandsOnly
<1>2. ASSUME NEW p, p.kind \in CommandKinds PROVE CommandsOnly(<<p>>)
  BY <1>2, Short DEF CommandsOnly
<1>3. ASSUME NEW p, NEW q, p.kind \in CommandKinds, q.kind \in CommandKinds
      PROVE  CommandsOnly(<<p, q>>)
  BY <1>3, Short DEF CommandsOnly
<1> QED BY <1>1, <1>2, <1>3

-----------------------------------------------------------------------------
\* Folds over a finite set of integers whose steps stay in a set.

LEMMA Climbs ==
  ASSUME NEW S, S \subseteq Int, IsFiniteSet(S), NEW Met, {} \in Met,
         \A s \in SUBSET S : s # {} /\ s \ {Max(s)} \in Met => s \in Met
  PROVE  S \in Met
<1> DEFINE Bad == {n \in Nat : \E s \in Within(n, S) : s \notin Met}
<1>1. Bad = {}
  <2> SUFFICES ASSUME Bad # {} PROVE FALSE
    OBVIOUS
  <2>1. Min(Bad) \in Bad /\ \A m \in Bad : Min(Bad) <= m
    BY Smallest
  <2>2. PICK n \in Nat : n = Min(Bad)
    BY <2>1
  <2>3. PICK s \in Within(n, S) : s \notin Met
    BY <2>1, <2>2
  <2>4. s \in SUBSET S
    BY DEF Within
  <2>5. s # {} /\ n # 0
    <3>1. Within(0, S) = {{}}
      BY WithinSmaller
    <3> QED BY <2>3, <3>1
  <2>6. PICK m \in Nat : n = m + 1
    <3>1. n # 0
      BY <2>5
    <3> HIDE DEF Bad
    <3> QED BY <3>1
  <2>7. s \ {Max(s)} \in Within(m, S)
    BY <2>5, <2>6, WithinSmaller
  <2>8. m \notin Bad
    <3> HIDE DEF Bad
    <3>1. ~(n <= m)
      BY <2>6
    <3> QED BY <2>1, <2>2, <3>1
  <2> QED BY <2>3, <2>4, <2>5, <2>7, <2>8
<1>2. Cardinality(S) \in Nat /\ S \in Within(Cardinality(S), S)
  BY FS_CardinalityType, WithinSmaller
<1> QED BY <1>1, <1>2

\* A fold whose steps are those of a function.
Folds(h, D, base, g) == h = [s \in D |-> IF s = {} THEN base ELSE g[<<Max(s), h[s \ {Max(s)}]>>]]
LEMMA FoldExists ==
  ASSUME NEW S, S \subseteq Int, IsFiniteSet(S), NEW X, NEW base \in X, NEW g \in [S \X X -> X]
  PROVE  \E h : Folds(h, SUBSET S, base, g) /\ \A s \in SUBSET S : h[s] \in X
<1> DEFINE Bad == {n \in Nat : ~ \E h : Folds(h, Within(n, S), base, g)}
<1>1. Bad = {}
  <2> SUFFICES ASSUME Bad # {} PROVE FALSE
    OBVIOUS
  <2>1. Min(Bad) \in Bad /\ \A m \in Bad : Min(Bad) <= m
    BY Smallest
  <2>2. PICK n \in Nat : n = Min(Bad)
    BY <2>1
  <2>3. CASE n = 0
    <3> DEFINE h == [s \in {{}} |-> base]
    <3>1. Folds(h, {{}}, base, g)
      <4>1. h = [s \in {{}} |-> IF s = {} THEN base ELSE g[<<Max(s), h[s \ {Max(s)}]>>]]
        OBVIOUS
      <4> QED BY <4>1 DEF Folds
    <3>2. Within(0, S) = {{}}
      BY WithinSmaller
    <3> HIDE DEF h
    <3>3. ~ \E k : Folds(k, Within(0, S), base, g)
      BY <2>1, <2>2, <2>3
    <3> QED BY <3>1, <3>2, <3>3
  <2>4. CASE n # 0
    <3>1. PICK m \in Nat : n = m + 1
      BY <2>4
    <3>2. m \notin Bad
      <4> HIDE DEF Bad
      <4>1. ~(n <= m)
        BY <3>1
      <4> QED BY <2>1, <2>2, <4>1
    <3>3. PICK f : Folds(f, Within(m, S), base, g)
      BY <3>2
    <3> DEFINE h == [s \in Within(n, S) |-> IF s = {} THEN base ELSE g[<<Max(s), f[s \ {Max(s)}]>>]]
    <3>4. \A s \in Within(m, S) : s \in Within(n, S) /\ h[s] = f[s]
      <4> TAKE s \in Within(m, S)
      <4>1. s \in Within(n, S)
        BY <3>1, WithinSmaller
      <4>2. f[s] = IF s = {} THEN base ELSE g[<<Max(s), f[s \ {Max(s)}]>>]
        BY <3>3 DEF Folds
      <4> QED BY <4>1, <4>2
    <3>5. \A s \in Within(n, S) : s # {} => h[s \ {Max(s)}] = f[s \ {Max(s)}]
      BY <3>1, <3>4, WithinSmaller
    <3>6. h = [s \in Within(n, S) |-> IF s = {} THEN base ELSE g[<<Max(s), h[s \ {Max(s)}]>>]]
      <4> DEFINE k == [s \in Within(n, S) |-> IF s = {} THEN base ELSE g[<<Max(s), h[s \ {Max(s)}]>>]]
      <4>1. \A s \in Within(n, S) : h[s] = k[s]
        <5> TAKE s \in Within(n, S)
        <5>1. CASE s = {}
          BY <5>1
        <5>2. CASE s # {}
          <6>1. h[s \ {Max(s)}] = f[s \ {Max(s)}]
            BY <5>2, <3>5
          <6>2. h[s] = g[<<Max(s), f[s \ {Max(s)}]>>]
            BY <5>2
          <6>3. k[s] = g[<<Max(s), h[s \ {Max(s)}]>>]
            BY <5>2
          <6> QED BY <6>1, <6>2, <6>3
        <5> QED BY <5>1, <5>2
      <4> QED BY <4>1
    <3> HIDE DEF h
    <3>7. Folds(h, Within(n, S), base, g)
      BY <3>6 DEF Folds
    <3> QED BY <2>1, <2>2, <3>7
  <2> QED BY <2>3, <2>4
<1>2. Cardinality(S) \in Nat /\ Within(Cardinality(S), S) = SUBSET S
  BY FS_CardinalityType, WithinSmaller
<1>3. PICK h : Folds(h, SUBSET S, base, g)
  <2>1. \E h : Folds(h, Within(Cardinality(S), S), base, g)
    BY <1>1, <1>2
  <2> QED BY <1>2, <2>1
<1>4. \A s \in SUBSET S : h[s] = IF s = {} THEN base ELSE g[<<Max(s), h[s \ {Max(s)}]>>]
  BY <1>3 DEF Folds
<1>5. ASSUME NEW s \in SUBSET S PROVE h[s] \in X
  <2> DEFINE Met == {r \in SUBSET s : h[r] \in X}
  <2>1. s \subseteq Int /\ IsFiniteSet(s)
    BY FS_Subset
  <2>2. {} \in Met
    BY <1>4
  <2>3. ASSUME NEW r \in SUBSET s, r # {}, r \ {Max(r)} \in Met PROVE r \in Met
    <3>1. IsFiniteSet(r) /\ r \subseteq Int
      BY <2>1, FS_Subset
    <3>2. Max(r) \in r
      BY <2>3, <3>1, GreatestOfFinite
    <3>3. Max(r) \in S /\ h[r \ {Max(r)}] \in X
      BY <2>3, <3>2
    <3>4. g[<<Max(r), h[r \ {Max(r)}]>>] \in X
      BY <3>3
    <3> QED BY <1>4, <2>3, <3>4
  <2> HIDE DEF Met
  <2>4. s \in Met
    BY <2>1, <2>2, <2>3, Climbs
  <2> QED BY <2>4 DEF Met
<1> QED BY <1>3, <1>5

LEMMA StaysIn ==
  ASSUME NEW S, S \subseteq Int, IsFiniteSet(S), NEW X, NEW h, h[{}] \in X,
         \A s \in SUBSET S : s # {} /\ h[s \ {Max(s)}] \in X => h[s] \in X
  PROVE  h[S] \in X
<1> DEFINE Met == {s \in SUBSET S : h[s] \in X}
<1>1. {} \in Met
  OBVIOUS
<1>2. \A s \in SUBSET S : s # {} /\ s \ {Max(s)} \in Met => s \in Met
  OBVIOUS
<1> HIDE DEF Met
<1>3. S \in Met
  BY <1>1, <1>2, Climbs
<1> QED BY <1>3 DEF Met

\* The largest of a set of positions, and the rest.
LEMMA Greatest ==
  ASSUME NEW S, S \subseteq Int, IsFiniteSet(S)
  PROVE  \A s \in SUBSET S : s # {} => Max(s) \in S /\ s \ {Max(s)} \in SUBSET S
<1> TAKE s \in SUBSET S
<1> HAVE s # {}
<1>1. IsFiniteSet(s) /\ s \subseteq Int
  BY FS_Subset
<1>2. Max(s) \in s
  BY <1>1, GreatestOfFinite
<1> QED BY <1>2

LEMMA Listed ==
  ASSUME NEW old, NEW new, NEW V,
         \A i \in 0 .. Offhand : new[i] = old[i] \/ Assign(i, new[i]) \in V
  PROVE  Differing(old, new) \in Seq(V)
<1> DEFINE seq == Upward(0, Offhand + 1)
           S == 1 .. Offhand + 1
           X == Seq(V)
           Add(s, i) == IF new[i] = old[i] THEN s ELSE Append(s, Assign(i, new[i]))
<1>1. Offhand \in Nat
  BY InventoryAssumption DEF Offhand, PlayerHotbar, PlayerMain, Helmet
<1>2. S = DOMAIN seq /\ S \subseteq Int /\ IsFiniteSet(S)
      /\ \A i \in S : seq[i] \in 0 .. Offhand
  <2>1. seq = [i \in S |-> 0 + i - 1]
    BY <1>1 DEF Upward
  <2> HIDE DEF seq
  <2>2. DOMAIN seq = S /\ \A i \in S : seq[i] = 0 + i - 1
    BY <2>1
  <2>3. S \subseteq Int /\ IsFiniteSet(S)
    BY <1>1, FS_Interval
  <2> QED BY <1>1, <2>2, <2>3
<1> HIDE DEF seq, S
<1>3. \A x \in X, i \in S : Add(x, seq[i]) \in X
  BY <1>2
<1>4. <<>> \in X
  OBVIOUS
<1> HIDE DEF X
<1> DEFINE g == [p \in S \X X |-> Add(p[2], seq[p[1]])]
<1>5. g \in [S \X X -> X]
  BY <1>3
<1>6. \A i \in S, x \in X : g[<<i, x>>] = Add(x, seq[i])
  OBVIOUS
<1> HIDE DEF g
<1>7. PICK h : Folds(h, SUBSET S, <<>>, g) /\ \A s \in SUBSET S : h[s] \in X
  BY <1>2, <1>4, <1>5, FoldExists
<1> DEFINE Runs(f) == f = [s \in SUBSET S |-> IF s = {} THEN <<>>
                             ELSE Add(f[s \ {Max(s)}], seq[Max(s)])]
<1>8. Runs(h)
  <2> HIDE DEF Add
  <2>1. \A s \in SUBSET S : s # {} => g[<<Max(s), h[s \ {Max(s)}]>>]
                                        = Add(h[s \ {Max(s)}], seq[Max(s)])
    BY <1>2, <1>6, <1>7, Greatest
  <2> QED BY <1>7, <2>1 DEF Folds
<1> DEFINE k == CHOOSE f : Runs(f)
<1>9. Runs(k)
  <2> HIDE DEF Runs
  <2> QED BY <1>8
<1>10. Differing(old, new) = k[S]
  BY Zenon, <1>2 DEF Differing, FoldLeft, MapThenFoldSet, seq
<1> HIDE DEF k
<1>11. k[S] \in X
  <2> HIDE DEF Add
  <2>1. k[{}] \in X
    BY <1>4, <1>9
  <2>2. ASSUME NEW s \in SUBSET S, s # {}, k[s \ {Max(s)}] \in X PROVE k[s] \in X
    <3>1. k[s] = Add(k[s \ {Max(s)}], seq[Max(s)])
      BY <1>9, <2>2
    <3> HIDE DEF Runs
    <3>2. Max(s) \in S
      BY <1>2, <2>2, Greatest
    <3> QED BY <1>3, <2>2, <3>1, <3>2
  <2> HIDE DEF Runs
  <2> QED BY <1>2, <2>1, <2>2, StaysIn
<1> QED BY <1>10, <1>11 DEF X

-----------------------------------------------------------------------------
\* What the overlay sends.

\* The first of a sequence, as many as there are or fewer.
LEMMA Prefixed ==
  ASSUME NEW s, IsSeq(s), NEW n \in Int, n <= Len(s)
  PROVE  /\ IsSeq(SubSeq(s, 1, n)) /\ DOMAIN SubSeq(s, 1, n) = 1 .. n
         /\ \A i \in 1 .. n : i \in DOMAIN s /\ SubSeq(s, 1, n)[i] = s[i]
         /\ n <= 0 => SubSeq(s, 1, n) = <<>>
         /\ n > 0 => Len(SubSeq(s, 1, n)) = n
         /\ SubSeq(s, 1, Len(s)) = s
<1> DEFINE R == Range(s)
<1>1. s \in Seq(R) /\ Len(s) \in Nat /\ DOMAIN s = 1 .. Len(s)
  BY DEF IsSeq
<1> HIDE DEF R
<1>2. SubSeq(s, 1, n) = [i \in 1 .. n |-> s[i]]
  BY <1>1
<1>3. \A i \in 1 .. n : i \in DOMAIN s
  BY <1>1
<1>4. IsSeq(SubSeq(s, 1, n))
  <2>1. SubSeq(s, 1, n) \in Seq(R)
    BY <1>1
  <2> QED BY <2>1, SeqMade
<1>5. SubSeq(s, 1, Len(s)) = s
  BY <1>1
<1>6. n <= 0 => SubSeq(s, 1, n) = <<>>
  BY <1>1
<1>7. n > 0 => Len(SubSeq(s, 1, n)) = n
  BY <1>1
<1> QED BY <1>2, <1>3, <1>4, <1>5, <1>6, <1>7

LEMMA PrefixCommands ==
  ASSUME NEW s, CommandsOnly(s), NEW n \in Int, n <= Len(s)
  PROVE  CommandsOnly(SubSeq(s, 1, n))
BY Prefixed DEF CommandsOnly

\* What is sent: the first of the commands, and no more than there is room for.
LEMMA SendSome ==
  ASSUME MailboxOK, NEW commands, CommandsOnly(commands), Send(commands)
  PROVE  /\ excuses' \in {excuses, excuses \cup {"lost"}}
         /\ \E n \in Int : /\ n <= Len(commands) /\ n <= MaxCommands - Len(mailbox)
                           /\ mailbox' = mailbox \o SubSeq(commands, 1, n)
<1>1. IsSeq(mailbox) /\ IsSeq(commands)
  BY DEF MailboxOK, CommandsOnly
<1>2. Len(mailbox) \in Nat /\ Len(commands) \in Nat /\ MaxCommands \in Nat
  BY <1>1, SeqParts, ExchangeAssumption
<1> DEFINE n == Least(Len(commands), MaxCommands - Len(mailbox))
<1>3. n \in Int /\ n <= Len(commands) /\ n <= MaxCommands - Len(mailbox)
  BY <1>2 DEF Least
<1>4. mailbox' = mailbox \o SubSeq(commands, 1, n)
      /\ excuses' \in {excuses, excuses \cup {"lost"}}
  BY DEF Send
<1> HIDE DEF n
<1> QED BY <1>3, <1>4

LEMMA SendKeeps ==
  ASSUME MailboxOK, NEW commands, CommandsOnly(commands), Send(commands)
  PROVE  MailboxOK'
<1>1. CommandsOnly(mailbox)
  BY DEF MailboxOK, CommandsOnly
<1>2. PICK n \in Int : n <= Len(commands) /\ mailbox' = mailbox \o SubSeq(commands, 1, n)
  BY SendSome
<1>3. CommandsOnly(SubSeq(commands, 1, n))
  BY <1>2, PrefixCommands
<1>4. CommandsOnly(mailbox')
  BY <1>1, <1>2, <1>3, CommandsJoined
<1> QED BY <1>4 DEF MailboxOK, CommandsOnly

\* The user's actions only reach the mailbox.
Local == UNCHANGED <<habit, net, up, down, server>>
LEMMA ClickLocal ==
  ASSUME MailboxOK, NEW click, NEW drag, Clicked(click, drag)
  PROVE  Local /\ MailboxOK'
<1>1. CommandsOnly(<<[kind |-> "click", click |-> click]>>)
  <2>1. [kind |-> "click", click |-> click].kind \in CommandKinds
    BY DEF CommandKinds
  <2> QED BY <2>1, ShortCommands
<1>2. MailboxOK'
  BY <1>1, SendKeeps DEF Clicked
<1> QED BY <1>2 DEF Clicked, Acted, Local

LEMMA SynchronizeLocal ==
  ASSUME MailboxOK, NEW carried, NEW changes, IsSeq(changes), Synchronize(carried, changes)
  PROVE  Local /\ MailboxOK'
<1> DEFINE cursor == IF carried = Carried(ui.inv) THEN <<>>
                     ELSE <<[kind |-> "cursor", stack |-> carried]>>
<1> DEFINE sets == [i \in DOMAIN changes |->
                      [kind |-> "creative", slot |-> changes[i].slot, stack |-> changes[i].stack]]
<1>1. CommandsOnly(cursor)
  <2>1. [kind |-> "cursor", stack |-> carried].kind \in CommandKinds
    BY DEF CommandKinds
  <2> QED BY <2>1, ShortCommands
<1>2. CommandsOnly(sets)
  <2>1. Len(changes) \in Nat /\ DOMAIN changes = 1 .. Len(changes)
    BY SeqParts
  <2>2. \A i \in DOMAIN changes : sets[i].kind \in CommandKinds
    BY DEF CommandKinds
  <2> DEFINE R == Range(sets)
  <2>3. sets \in [1 .. Len(changes) -> R]
    BY <2>1 DEF Range
  <2> HIDE DEF sets, R
  <2>4. sets \in Seq(R)
    BY <2>1, <2>3
  <2>5. IsSeq(sets)
    BY <2>4, SeqMade
  <2>6. DOMAIN sets = DOMAIN changes
    BY DEF sets
  <2> QED BY <2>2, <2>5, <2>6 DEF CommandsOnly
<1>3. Send(cursor \o sets) /\ Local
  BY DEF Synchronize, Acted, Local
<1> HIDE DEF cursor, sets
<1>4. CommandsOnly(cursor \o sets)
  BY <1>1, <1>2, CommandsJoined
<1> QED BY <1>3, <1>4, SendKeeps

LEMMA CreativeLocal ==
  ASSUME MailboxOK, CreativeInput
  PROVE  Local /\ MailboxOK' /\ Running
<1>1. Running
  <2>1. CreativeSlotClick => Creative
    BY DEF CreativeSlotClick
  <2>2. CreativeSpread => Creative
    BY DEF CreativeSpread
  <2>3. CreativeKey => Creative
    BY DEF CreativeKey
  <2>4. CreativePick => Creative
    BY DEF CreativePick
  <2>5. CreativeCopy \/ CreativeDrop => Creative
    BY DEF CreativeCopy, CreativeDrop
  <2>6. Creative => Running
    BY DEF Creative, Shown, Input
  <2> QED BY <2>1, <2>2, <2>3, <2>4, <2>5, <2>6 DEF CreativeInput
<1>2. ASSUME NEW old, NEW new PROVE IsSeq(Differing(old, new))
  <2> DEFINE V == {Assign(i, new[i]) : i \in 0 .. Offhand}
  <2>1. \A i \in 0 .. Offhand : Assign(i, new[i]) \in V
    OBVIOUS
  <2> HIDE DEF V
  <2>2. Differing(old, new) \in Seq(V)
    BY <2>1, Listed
  <2> QED BY <2>2, SeqMade
<1>3. ASSUME NEW carried, NEW changes, IsSeq(changes), Synchronize(carried, changes)
      PROVE  Local /\ MailboxOK'
  BY <1>3, SynchronizeLocal
<1>4. CASE CreativeSlotClick
  <2>1. \E carried, new : Synchronize(carried, Differing(ui.inv.player.slots, new))
    BY <1>4 DEF CreativeSlotClick
  <2> QED BY <1>1, <1>2, <1>3, <2>1
<1>5. CASE CreativeSpread
  <2>1. \E carried, new : Synchronize(carried, Differing(ui.inv.player.slots, new))
    BY <1>5 DEF CreativeSpread
  <2> QED BY <1>1, <1>2, <1>3, <2>1
<1>6. CASE CreativeKey
  <2> DEFINE emptied == [i \in 1 .. Offhand - Helmet + 1 |-> Assign(Helmet + i - 1, Empty)]
  <2>1. IsSeq(emptied)
    <3> DEFINE V == {Assign(Helmet + i - 1, Empty) : i \in 1 .. Offhand - Helmet + 1}
               n == Offhand - Helmet + 1
    <3>1. n \in Nat
      BY InventoryAssumption DEF Offhand, PlayerHotbar, PlayerMain, Helmet
    <3>2. emptied \in [1 .. n -> V]
      OBVIOUS
    <3> HIDE DEF emptied, n, V
    <3>3. emptied \in Seq(V)
      BY <3>1, <3>2
    <3> QED BY <3>3, SeqMade
  <2>2. \/ \E p, q : Synchronize(Carried(ui.inv), <<p, q>>)
        \/ \E p : Synchronize(Carried(ui.inv), <<p>>)
        \/ Synchronize(Carried(ui.inv), emptied)
        \/ Synchronize(Empty, <<>>)
    BY <1>6 DEF CreativeKey
  <2> HIDE DEF emptied
  <2> QED BY <1>1, <1>3, <2>1, <2>2, Short
<1>7. CASE CreativePick
  <2>1. \E carried : Synchronize(carried, <<>>)
    BY <1>7 DEF CreativePick
  <2> QED BY <1>1, <1>3, <2>1, Short
<1>8. CASE CreativeCopy
  <2>1. \E p : Synchronize(Carried(ui.inv), <<p>>)
    BY <1>8 DEF CreativeCopy
  <2> QED BY <1>1, <1>3, <2>1, Short
<1>9. CASE CreativeDrop
  <2> DEFINE a == [kind |-> "creative", slot |-> -1, stack |-> Carried(ui.inv)]
  <2> DEFINE b == [kind |-> "cursor", stack |-> Empty]
  <2>1. Send(<<a, b>>) /\ Local
    BY <1>9 DEF CreativeDrop, Acted, Local
  <2>2. a.kind \in CommandKinds /\ b.kind \in CommandKinds
    BY DEF CommandKinds
  <2> HIDE DEF a, b
  <2>3. CommandsOnly(<<a, b>>)
    BY <2>2, ShortCommands
  <2> QED BY <1>1, <2>1, <2>3, SendKeeps
<1> QED BY <1>4, <1>5, <1>6, <1>7, <1>8, <1>9 DEF CreativeInput

LEMMA OverlayLocal ==
  ASSUME MailboxOK, Overlay
  PROVE  Local /\ MailboxOK' /\ Running
<1>1. CASE Click
  BY <1>1, ClickLocal DEF Click, Shown, Input
<1>2. CASE StartDrag
  BY <1>2, ClickLocal DEF StartDrag, Shown, Input
<1>3. CASE DragOver
  BY <1>3, ClickLocal DEF DragOver, Shown, Input
<1>4. CASE Release
  BY <1>4, ClickLocal DEF Release, Shown, Input
<1>5. CASE PressInventoryKey
  <2> DEFINE commands == IF ui.inv.open = None THEN <<>>
                         ELSE <<[kind |-> "close", id |-> ui.inv.open.id]>>
  <2>1. CommandsOnly(commands)
    <3>1. [kind |-> "close", id |-> ui.inv.open.id].kind \in CommandKinds
      BY DEF CommandKinds
    <3> QED BY <3>1, ShortCommands
  <2>2. Running /\ (Send(commands) \/ Send(<<>>)) /\ Local
    BY <1>5 DEF PressInventoryKey, Input, Acted, Local
  <2> HIDE DEF commands
  <2> QED BY <2>1, <2>2, ShortCommands, SendKeeps
<1>6. CASE SelectHotbar
  <2>1. PICK slot \in 0 .. HotbarSize - 1 : Send(<<[kind |-> "select", slot |-> slot]>>)
    BY <1>6 DEF SelectHotbar
  <2>2. [kind |-> "select", slot |-> slot].kind \in CommandKinds
    BY DEF CommandKinds
  <2>3. CommandsOnly(<<[kind |-> "select", slot |-> slot]>>)
    BY <2>2, ShortCommands
  <2>4. Running /\ Local
    BY <1>6 DEF SelectHotbar, Input, Acted, Local
  <2> QED BY <2>1, <2>3, <2>4, SendKeeps
<1>7. CASE CreativeInput
  BY <1>7, CreativeLocal
<1> QED BY <1>1, <1>2, <1>3, <1>4, <1>5, <1>6, <1>7 DEF Overlay

\* A tick sends commands, and nothing else of the channels changes.
LEMMA TickCommands ==
  ASSUME MailboxOK, Tick
  PROVE  /\ Running /\ MailboxOK' /\ UNCHANGED <<habit, down, server>>
         /\ \E out : SentOnly(out) /\ up' = up \o out
<1> DEFINE start == [inv |-> net.inv, out |-> <<>>, ended |-> None, closed |-> net.closed]
<1> DEFINE end == FoldLeft(Serve, start, mailbox)
<1>1. Running /\ up' = up \o end.out /\ mailbox' = <<>> /\ UNCHANGED <<habit, down, server>>
  BY DEF Tick
<1>2. Good(start)
  BY Short DEF Good
<1> HIDE DEF start
<1>3. Good(end)
  BY <1>2, ServedGood DEF MailboxOK
<1>4. SentOnly(end.out)
  BY <1>3 DEF Good, SentOnly
<1>5. MailboxOK'
  BY <1>1, Short DEF MailboxOK
<1> QED BY <1>1, <1>4, <1>5

\* What the server says of the inventory is updates.
LEMMA ContentUpdate == \A c : UpdatesOnly(<<Content(c)>>)
<1> TAKE c
<1>1. Content(c).kind \in InventoryKinds
  BY DEF Content, InventoryKinds
<1> QED BY <1>1, ShortUpdates

LEMMA ClosedUpdate == \A inv : UpdatesOnly(Closed(inv).out)
<1> TAKE inv
<1> DEFINE put == [[inv EXCEPT !.open = None, !.drag = None]
                     EXCEPT !.player.slots[Min({i \in PlayerMain .. Offhand :
                                                inv.player.slots[i] = Empty})]
                              = inv.player.carried,
                            !.player.carried = Empty, !.player.state = @ + 1]
<1> DEFINE p == [kind |-> "slot", id |-> PlayerId,
                 slot |-> Min({i \in PlayerMain .. Offhand : inv.player.slots[i] = Empty}),
                 state |-> put.player.state, stack |-> inv.player.carried]
<1>1. Closed(inv).out = <<>> \/ Closed(inv).out = <<p>>
  BY DEF Closed
<1>2. p.kind \in InventoryKinds
  BY DEF InventoryKinds
<1> HIDE DEF p
<1> QED BY <1>1, <1>2, ShortUpdates

\* Nothing said leaves the channel as it is.
LEMMA NothingSaid ==
  ASSUME NEW s, IsSeq(s)
  PROVE  s \o <<>> = s
<1> DEFINE R == Range(s)
<1>1. s \in Seq(R)
  BY DEF IsSeq
<1> HIDE DEF R
<1> QED BY <1>1

\* The server's answer to a command takes it off the channel and sends updates.
LEMMA SetServerEffect ==
  ASSUME EventsOK, NEW inv, NEW out, UpdatesOnly(out), SetServer(inv, out)
  PROVE  EventsOK' /\ \E said : UpdatesOnly(said) /\ down' = down \o said
<1>1. down' = down \o out
  BY DEF SetServer
<1>2. EventsOK'
  BY DEF SetServer, EventsOK
<1> QED BY <1>1, <1>2

LEMMA ReceivedEffect ==
  ASSUME EventsOK, IsSeq(down), ReceiveClick \/ ReceiveOther, Head(up).kind \in SentKinds
  PROVE  /\ up # <<>> /\ up' = Tail(up) /\ UNCHANGED <<habit, mailbox, net>> /\ EventsOK'
         /\ \E out : UpdatesOnly(out) /\ down' = down \o out
<1>1. up # <<>> /\ up' = Tail(up) /\ UNCHANGED <<habit, mailbox, net>>
  BY DEF ReceiveClick, ReceiveOther, Receive
<1>2. \/ UNCHANGED <<server, down>>
      \/ \E inv : SetServer(inv, <<>>)
      \/ \E inv, c : SetServer(inv, <<Content(c)>>)
      \/ \E inv, old : SetServer(inv, Closed(old).out)
  <2>1. CASE ReceiveClick
    <3>1. CASE Head(up).click.container # Active(server.inv).id
      BY <2>1, <3>1 DEF ReceiveClick
    <3>2. CASE Head(up).click.container = Active(server.inv).id
      BY <2>1, <3>2, ZenonT(60) DEF ReceiveClick
    <3> QED BY <3>1, <3>2
  <2>2. CASE ReceiveOther
    <3>1. Head(up).kind \in {"select", "creative", "close"}
      BY <2>2 DEF ReceiveOther, SentKinds, CommandKinds
    <3>2. CASE Head(up).kind = "select"
      BY <2>2, <3>2 DEF ReceiveOther
    <3>3. CASE Head(up).kind = "creative"
      BY <2>2, <3>3 DEF ReceiveOther
    <3>4. CASE Head(up).kind = "close"
      BY <2>2, <3>4 DEF ReceiveOther
    <3> QED BY <3>1, <3>2, <3>3, <3>4
  <2> QED BY <2>1, <2>2
<1>3. CASE UNCHANGED <<server, down>>
  <2>1. down' = down \o <<>>
    BY <1>3, NothingSaid
  <2>2. EventsOK'
    BY <1>3 DEF EventsOK
  <2> QED BY <1>1, <2>1, <2>2, ShortUpdates
<1>4. CASE \E inv : SetServer(inv, <<>>)
  BY <1>1, <1>4, ShortUpdates, SetServerEffect
<1>5. CASE \E inv, c : SetServer(inv, <<Content(c)>>)
  BY <1>1, <1>5, ContentUpdate, SetServerEffect
<1>6. CASE \E inv, old : SetServer(inv, Closed(old).out)
  BY <1>1, <1>6, ClosedUpdate, SetServerEffect
<1> QED BY <1>2, <1>3, <1>4, <1>5, <1>6

LEMMA ByItselfEffect ==
  ASSUME EventsOK, NEW inv, NEW out, UpdatesOnly(out), ByItself(inv, out)
  PROVE  /\ UNCHANGED <<habit, mailbox, net, up>> /\ EventsOK'
         /\ \E said : UpdatesOnly(said) /\ down' = down \o said
<1>1. UNCHANGED <<habit, mailbox, net, up>> /\ down' = down \o out
  BY DEF ByItself
<1>2. server' = [server EXCEPT !.inv = inv, !.events = @ + 1,
                               !.opened = IF inv.open = None THEN @ ELSE inv.open.id]
  BY DEF ByItself
<1>3. EventsOK'
  BY <1>2 DEF EventsOK
<1> QED BY <1>1, <1>3

LEMMA ServerEffect ==
  ASSUME EventsOK, Server
  PROVE  /\ UNCHANGED <<habit, mailbox, net, up>> /\ EventsOK'
         /\ \E out : UpdatesOnly(out) /\ down' = down \o out
<1>1. CASE ServerOpens
  <2>1. \E inv, id, menu, c, old :
          ByItself(inv, (IF server.inv.open = None THEN <<>>
                         ELSE <<[kind |-> "close", id |-> server.inv.open.id]>>)
                        \o Closed(old).out
                        \o <<[kind |-> "open", id |-> id, menu |-> menu], Content(c)>>)
    BY <1>1 DEF ServerOpens
  <2>2. PICK inv, id, menu, c, old :
          ByItself(inv, (IF server.inv.open = None THEN <<>>
                         ELSE <<[kind |-> "close", id |-> server.inv.open.id]>>)
                        \o Closed(old).out
                        \o <<[kind |-> "open", id |-> id, menu |-> menu], Content(c)>>)
    BY <2>1
  <2> DEFINE first == IF server.inv.open = None THEN <<>>
                      ELSE <<[kind |-> "close", id |-> server.inv.open.id]>>
  <2> DEFINE last == <<[kind |-> "open", id |-> id, menu |-> menu], Content(c)>>
  <2>3. UpdatesOnly(first)
    <3>1. [kind |-> "close", id |-> server.inv.open.id].kind \in InventoryKinds
      BY DEF InventoryKinds
    <3> QED BY <3>1, ShortUpdates
  <2>4. UpdatesOnly(last)
    <3>1. [kind |-> "open", id |-> id, menu |-> menu].kind \in InventoryKinds
          /\ Content(c).kind \in InventoryKinds
      BY DEF InventoryKinds, Content
    <3> QED BY <3>1, ShortUpdates
  <2>5. ByItself(inv, first \o Closed(old).out \o last)
    BY <2>2
  <2> HIDE DEF first, last
  <2>6. UpdatesOnly(first \o Closed(old).out)
    BY <2>3, ClosedUpdate, UpdatesJoined
  <2>7. UpdatesOnly(first \o Closed(old).out \o last)
    BY <2>4, <2>6, UpdatesJoined
  <2> QED BY <2>5, <2>7, ByItselfEffect
<1>2. CASE ServerCloses
  <2> DEFINE first == <<[kind |-> "close", id |-> server.inv.open.id]>>
  <2>1. UpdatesOnly(first)
    <3>1. [kind |-> "close", id |-> server.inv.open.id].kind \in InventoryKinds
      BY DEF InventoryKinds
    <3> QED BY <3>1, ShortUpdates
  <2>2. ByItself(Closed(server.inv).inv, first \o Closed(server.inv).out)
    BY <1>2 DEF ServerCloses
  <2> HIDE DEF first
  <2>3. UpdatesOnly(first \o Closed(server.inv).out)
    BY <2>1, ClosedUpdate, UpdatesJoined
  <2> QED BY <2>2, <2>3, ByItselfEffect
<1>3. CASE ServerSets
  <2>1. \E inv, p : p.kind = "slot" /\ ByItself(inv, <<p>>)
    <3>1. PICK slot, item :
            LET c == Active(server.inv)
                stack == IF c.slots[slot] = Empty THEN Stack(item, 1) ELSE Empty
            IN ByItself(SetSlot(server.inv, c.id, c.state + 1, slot, stack),
                        <<[kind |-> "slot", id |-> c.id, state |-> c.state + 1,
                           slot |-> slot, stack |-> stack]>>)
      BY <1>3 DEF ServerSets
    <3> DEFINE stack == IF Active(server.inv).slots[slot] = Empty THEN Stack(item, 1) ELSE Empty
    <3> DEFINE p == [kind |-> "slot", id |-> Active(server.inv).id,
                     state |-> Active(server.inv).state + 1, slot |-> slot, stack |-> stack]
    <3>2. p.kind = "slot"
      OBVIOUS
    <3>3. \E inv : ByItself(inv, <<p>>)
      BY <3>1
    <3> HIDE DEF p
    <3> QED BY <3>2, <3>3
  <2>2. PICK inv, p : p.kind = "slot" /\ ByItself(inv, <<p>>)
    BY <2>1
  <2>3. UpdatesOnly(<<p>>)
    BY <2>2, ShortUpdates DEF InventoryKinds
  <2> QED BY <2>2, <2>3, ByItselfEffect
<1>4. CASE ServerSelects
  <2>1. PICK slot : ByItself([server.inv EXCEPT !.selected = slot], <<[kind |-> "held", slot |-> slot]>>)
    BY <1>4 DEF ServerSelects
  <2>2. [kind |-> "held", slot |-> slot].kind \in InventoryKinds
    BY DEF InventoryKinds
  <2>3. UpdatesOnly(<<[kind |-> "held", slot |-> slot]>>)
    BY <2>2, ShortUpdates
  <2> QED BY <2>1, <2>3, ByItselfEffect
<1> QED BY <1>1, <1>2, <1>3, <1>4 DEF Server

\* Every step of the inventory is one of five to the rest of the session.
InventoryEffect ==
    /\ UNCHANGED <<habit, world, task, wserver>> /\ EventsOK' /\ MailboxOK'
    /\ Running' => Running
    /\ \/ UNCHANGED <<up, down>>
       \/ ~task.configuring /\ down' = down /\ \E out : SentOnly(out) /\ up' = up \o out
       \/ Reads(InventoryKinds) /\ up' = up /\ down' = Tail(down)
       \/ /\ ~wserver.configuring /\ up # <<>> /\ Head(up).kind \in CommandKinds
          /\ up' = Tail(up) /\ \E out : UpdatesOnly(out) /\ down' = down \o out
       \/ /\ ~wserver.configuring /\ up' = up
          /\ \E out : UpdatesOnly(out) /\ down' = down \o out
LEMMA InventoryStepEffect ==
  ASSUME EventsOK, MailboxOK, UpOK(up), DownOK(down), InventoryStep
  PROVE  InventoryEffect
<1>1. UNCHANGED <<world, task, wserver>> /\ IsSeq(down)
  BY DEF InventoryStep, sessionVars, DownOK
<1>2. CASE Overlay
  <2>1. Local /\ MailboxOK' /\ Running
    BY <1>2, OverlayLocal
  <2>2. EventsOK'
    BY <2>1 DEF Local, EventsOK
  <2> QED BY <1>1, <2>1, <2>2 DEF InventoryEffect, Local
<1>3. CASE TakeUpdate
  <2>1. UNCHANGED <<habit, mailbox, net, up, down, server>>
    BY <1>3 DEF TakeUpdate
  <2>2. EventsOK' /\ MailboxOK' /\ Running' = Running
    BY <2>1 DEF EventsOK, MailboxOK, Running
  <2> QED BY <1>1, <2>1, <2>2 DEF InventoryEffect
<1>4. CASE ~task.configuring /\ Tick
  <2>1. /\ Running /\ MailboxOK' /\ UNCHANGED <<habit, down, server>>
        /\ \E out : SentOnly(out) /\ up' = up \o out
    BY <1>4, TickCommands
  <2>2. EventsOK'
    BY <2>1 DEF EventsOK
  <2> QED BY <1>1, <1>4, <2>1, <2>2 DEF InventoryEffect
<1>5. CASE TickWithoutSimulation
  <2>1. Running /\ mailbox' = <<>> /\ UNCHANGED <<habit, net, up, down, server>>
    BY <1>5 DEF TickWithoutSimulation
  <2>2. EventsOK' /\ MailboxOK'
    BY <2>1, Short DEF EventsOK, MailboxOK
  <2> QED BY <1>1, <2>1, <2>2 DEF InventoryEffect
<1>6. CASE Reads(InventoryKinds) /\ ReadPacket
  <2>1. Running /\ down' = Tail(down) /\ UNCHANGED <<habit, mailbox, up, server>>
    BY <1>6 DEF ReadPacket
  <2>2. EventsOK' /\ MailboxOK'
    BY <2>1 DEF EventsOK, MailboxOK
  <2> QED BY <1>1, <1>6, <2>1, <2>2 DEF InventoryEffect
<1>7. CASE /\ ~wserver.configuring /\ up # <<>> /\ Head(up).kind \in CommandKinds
           /\ ReceiveClick \/ ReceiveOther
  <2>1. Head(up).kind \in SentKinds
    <3>1. Head(up).kind \in SentKinds \/ Head(up) \in Answers
      BY <1>7, UpPopped
    <3>2. Head(up) \in Answers => Head(up).kind \notin CommandKinds
      BY DEF Answers, CommandKinds
    <3> QED BY <1>7, <3>1, <3>2
  <2>2. /\ up' = Tail(up) /\ UNCHANGED <<habit, mailbox, net>> /\ EventsOK'
        /\ \E out : UpdatesOnly(out) /\ down' = down \o out
    BY <1>1, <1>7, <2>1, ReceivedEffect
  <2>3. MailboxOK' /\ Running' = Running
    BY <2>2 DEF MailboxOK, Running
  <2> QED BY <1>1, <1>7, <2>2, <2>3 DEF InventoryEffect
<1>8. CASE ~wserver.configuring /\ Server
  <2>1. /\ UNCHANGED <<habit, mailbox, net, up>> /\ EventsOK'
        /\ \E out : UpdatesOnly(out) /\ down' = down \o out
    BY <1>8, ServerEffect
  <2>2. MailboxOK' /\ Running' = Running
    BY <2>1 DEF MailboxOK, Running
  <2> QED BY <1>1, <1>8, <2>1, <2>2 DEF InventoryEffect
<1> QED BY <1>2, <1>3, <1>4, <1>5, <1>6, <1>7, <1>8 DEF InventoryStep

-----------------------------------------------------------------------------
\* Types and the store survive every step.

LEMMA SoundKept ==
  ASSUME Sound, UNCHANGED <<habit, world, task>>
  PROVE  Sound'
<1>1. WorldMode' = WorldMode
  BY DEF WorldMode
<1> QED BY <1>1 DEF Sound, ClientOK

\* A packet, or the end of a decode, changes the world and maybe the task.
LEMMA SoundMade ==
  ASSUME UNCHANGED habit, NEW w \in Worlds, NEW t \in Tasks, Goes(w, t),
         w.active = (w.own # None), t.sim # None => WorldMode, StoreSound(w.store)
  PROVE  Sound'
<1>1. WorldMode' = WorldMode /\ world' = w /\ task' = t
  BY DEF WorldMode, Goes
<1> QED BY <1>1 DEF Sound, ClientOK

LEMMA SoundEnded ==
  ASSUME Sound, UNCHANGED habit, NEW reason, Ends(reason)
  PROVE  Sound'
BY SoundKept DEF Ends

LEMMA StoreReplaced ==
  ASSUME Sound, UNCHANGED habit, NEW store, StoreSound(store),
         Goes([world EXCEPT !.store = store], task)
  PROVE  Sound'
<1> DEFINE w == [world EXCEPT !.store = store]
<1>1. store \in Stores
  BY DEF StoreSound
<1>2. w \in Worlds /\ w.active = world.active /\ w.own = world.own /\ w.store = store
  BY <1>1 DEF Sound, ClientOK, Worlds
<1>3. task \in Tasks /\ (task.sim # None => WorldMode) /\ world.active = (world.own # None)
  BY DEF Sound, ClientOK
<1> HIDE DEF w
<1>4. Goes(w, task)
  BY DEF w
<1> QED BY <1>2, <1>3, <1>4, SoundMade

LEMMA ReadEntitySound ==
  ASSUME Sound, DownOK(down), ReadEntity
  PROVE  Sound'
<1>1. UNCHANGED habit /\ down # <<>> /\ Frame.kind \in EntityKinds
  BY DEF ReadEntity, Took, WithoutInventory, Reads, Frame
<1>2. /\ Frame.kind = "spawn" => Frame.id \in Ids /\ Frame.entity \in Entities
      /\ Frame.kind = "remove" => Frame.ids \in Seq(Ids)
      /\ Frame.kind \in {"move", "sync", "data", "velocity"} => Frame \in EntityUpdates
      /\ Frame.kind = "velocity" => Frame.v \in Int /\ Frame.id \in Ids
  BY <1>1, FrameEntity
<1>3. StoreSound(world.store)
  BY DEF Sound
<1>4. CASE Goes(world, task)
  BY <1>1, <1>4, SoundKept DEF Goes
<1>5. CASE Frame.kind = "velocity" /\ Goes(world, Pushed(task, Frame))
  <2>1. Frame.v \in Int
    BY <1>2, <1>5
  <2>2. task \in Tasks /\ world \in Worlds /\ world.active = (world.own # None)
        /\ (task.sim # None => WorldMode)
    BY DEF Sound, ClientOK
  <2>3. task.sim # None => [task.sim EXCEPT !.v = Frame.v] \in Simulations
    BY <2>1, <2>2 DEF Tasks, Simulations
  <2>4. task.sim # None => [task EXCEPT !.sim = [@ EXCEPT !.v = Frame.v]] \in Tasks
    BY <2>2, <2>3 DEF Tasks
  <2>5. Pushed(task, Frame) \in Tasks /\ (Pushed(task, Frame).sim # None => WorldMode)
    BY <2>2, <2>4 DEF Pushed, Tasks
  <2> QED BY <1>1, <1>3, <1>5, <2>2, <2>5, SoundMade
<1>6. CASE /\ Frame.kind = "spawn"
           /\ Goes([world EXCEPT !.store = Spawned(@, Frame.id, Frame.entity)], task)
  <2>1. StoreSound(Spawned(world.store, Frame.id, Frame.entity))
    BY <1>2, <1>3, <1>6, SpawnedSound
  <2> QED BY <1>1, <1>6, <2>1, StoreReplaced
<1>7. CASE Ends("entities")
  BY <1>1, <1>7, SoundEnded
<1>8. CASE /\ Frame.kind = "remove"
           /\ Goes([world EXCEPT !.store = FoldLeft(Removed, @, Frame.ids)], task)
  <2>1. StoreSound(FoldLeft(Removed, world.store, Frame.ids))
    BY <1>2, <1>3, <1>8, AllRemovedSound
  <2>2. Goes([world EXCEPT !.store = FoldLeft(Removed, world.store, Frame.ids)], task)
    BY <1>8
  <2> QED BY <1>1, <2>1, <2>2, StoreReplaced
<1>9. CASE /\ Frame.kind \in {"move", "sync", "data", "velocity"}
           /\ Goes([world EXCEPT !.store = Updated(@, Frame)], task)
  <2>1. StoreSound(Updated(world.store, Frame))
    BY <1>2, <1>3, <1>9, UpdatedSound
  <2> QED BY <1>1, <1>9, <2>1, StoreReplaced
<1> QED
  BY <1>1, <1>4, <1>5, <1>6, <1>7, <1>8, <1>9 DEF ReadEntity, EntityKinds

LEMMA ReadChunkSound ==
  ASSUME Sound, DownOK(down), ReadChunk
  PROVE  Sound'
<1>1. UNCHANGED habit /\ down # <<>> /\ Frame.kind = "chunk"
      /\ Goes(world, [task EXCEPT !.decode = Frame])
  BY DEF ReadChunk, Took, WithoutInventory, Reads, Frame
<1>2. Frame \in Decodes
  BY <1>1, FrameWorld
<1>3. [task EXCEPT !.decode = Frame] \in Tasks /\ [task EXCEPT !.decode = Frame].sim = task.sim
  BY <1>2 DEF Sound, ClientOK, Tasks
<1> QED BY <1>1, <1>3, SoundMade DEF Sound, ClientOK

LEMMA FinishDecodeSound ==
  ASSUME Sound, FinishDecode
  PROVE  Sound'
<1> DEFINE c == task.decode.at
<1> DEFINE w == [world EXCEPT !.chunks[c] = task.decode.chunk]
<1> DEFINE t == [task EXCEPT !.decode = None]
<1>1. UNCHANGED habit /\ task.decode # None
      /\ (Ends("lifecycle") \/ Ends("chunks") \/ Goes(w, t))
  BY DEF FinishDecode, WithoutInventory
<1>2. c \in Coordinates /\ task.decode.chunk \in Chunks
  BY <1>1 DEF Sound, ClientOK, Tasks, Decodes
<1>3. w \in Worlds /\ w.active = world.active /\ w.own = world.own /\ w.store = world.store
  BY <1>2 DEF Sound, ClientOK, Worlds
<1>4. t \in Tasks /\ t.sim = task.sim
  BY DEF Sound, ClientOK, Tasks
<1>5. world.active = (world.own # None) /\ (task.sim # None => WorldMode)
      /\ StoreSound(world.store)
  BY DEF Sound, ClientOK
<1> HIDE DEF w, t
<1>6. CASE Goes(w, t)
  BY <1>1, <1>3, <1>4, <1>5, <1>6, SoundMade
<1> QED BY <1>1, <1>6, SoundEnded

LEMMA ReadChunkUpdateSound ==
  ASSUME Sound, DownOK(down), ReadChunkUpdate
  PROVE  Sound'
<1> DEFINE c == Frame.at
<1> DEFINE forgot == [world EXCEPT !.chunks[c] = None]
<1> DEFINE chunk == IF world.chunks[c] = None THEN None
                    ELSE [world.chunks[c] EXCEPT !.data[Frame.field] = Frame.value]
<1> DEFINE changed == [world EXCEPT !.chunks[c] = chunk]
<1>1. UNCHANGED habit /\ down # <<>> /\ Frame.kind \in {"forget", "update"}
      /\ \/ Ends("lifecycle")
         \/ Goes(forgot, task)
         \/ Frame.kind = "update" /\ Goes(changed, task)
  BY DEF ReadChunkUpdate, Took, WithoutInventory, Reads, Frame
<1>2. c \in Coordinates
  BY <1>1, FrameWorld
<1>3. Frame.kind = "update" => chunk \in Chunks \cup {None}
  <2>1. Frame.kind = "update" => Frame.field \in Fields /\ Frame.value \in Int
    BY <1>1, FrameWorld
  <2>2. world.chunks[c] \in Chunks \cup {None}
    BY <1>2 DEF Sound, ClientOK, Worlds
  <2> QED BY <2>1, <2>2 DEF Chunks
<1> HIDE DEF chunk
<1>4. forgot \in Worlds /\ forgot.active = world.active /\ forgot.own = world.own
      /\ forgot.store = world.store
  BY <1>2 DEF Sound, ClientOK, Worlds
<1>5. Frame.kind = "update" => changed \in Worlds
  BY <1>2, <1>3 DEF Sound, ClientOK, Worlds
<1>6. changed.active = world.active /\ changed.own = world.own /\ changed.store = world.store
  BY DEF Sound, ClientOK, Worlds
<1>7. task \in Tasks /\ world.active = (world.own # None) /\ (task.sim # None => WorldMode)
      /\ StoreSound(world.store)
  BY DEF Sound, ClientOK
<1> HIDE DEF forgot, changed
<1>8. CASE Goes(forgot, task)
  BY <1>1, <1>4, <1>7, <1>8, SoundMade
<1>9. CASE Frame.kind = "update" /\ Goes(changed, task)
  BY <1>1, <1>5, <1>6, <1>7, <1>9, SoundMade
<1> QED BY <1>1, <1>8, <1>9, SoundEnded

LEMMA ReadSettingSound ==
  ASSUME Sound, DownOK(down), ReadSetting
  PROVE  Sound'
<1>1. UNCHANGED habit /\ down # <<>> /\ Frame.kind \in {"rain", "mode"}
      /\ \/ Ends("lifecycle")
         \/ Frame.kind = "rain" /\ Goes([world EXCEPT !.rain = Frame.rain], task)
         \/ Frame.kind = "mode" /\ Goes([world EXCEPT !.mode = Frame.mode], task)
  BY DEF ReadSetting, Took, WithoutInventory, Reads, Frame
<1>2. (Frame.kind = "rain" => Frame.rain \in BOOLEAN) /\ (Frame.kind = "mode" => Frame.mode \in Int)
  BY <1>1, FrameWorld
<1> DEFINE rained == [world EXCEPT !.rain = Frame.rain]
<1> DEFINE moded == [world EXCEPT !.mode = Frame.mode]
<1>3. /\ Frame.kind = "rain" => rained \in Worlds
      /\ rained.active = world.active /\ rained.own = world.own /\ rained.store = world.store
  BY <1>2 DEF Sound, ClientOK, Worlds
<1>4. /\ Frame.kind = "mode" => moded \in Worlds
      /\ moded.active = world.active /\ moded.own = world.own /\ moded.store = world.store
  BY <1>2 DEF Sound, ClientOK, Worlds
<1>5. task \in Tasks /\ world.active = (world.own # None) /\ (task.sim # None => WorldMode)
      /\ StoreSound(world.store)
  BY DEF Sound, ClientOK
<1>6. CASE Frame.kind = "rain" /\ Goes(rained, task)
  <2> HIDE DEF rained
  <2> QED BY <1>1, <1>3, <1>5, <1>6, SoundMade
<1>7. CASE Frame.kind = "mode" /\ Goes(moded, task)
  <2> HIDE DEF moded
  <2> QED BY <1>1, <1>4, <1>5, <1>7, SoundMade
<1> QED BY <1>1, <1>6, <1>7, SoundEnded

LEMMA ReadRespawnSound ==
  ASSUME Sound, DownOK(down), ReadRespawn
  PROVE  Sound'
<1> DEFINE w == Respawned(world, Frame)
<1> DEFINE t == Reset(task, world.own)
<1>1. UNCHANGED habit /\ down # <<>> /\ Frame.kind = "respawn"
      /\ (Ends("lifecycle") \/ (world.active /\ Goes(w, t)))
  BY DEF ReadRespawn, Took, WithoutInventory, Reads, Frame
<1>2. /\ Frame.dim \in Int /\ Frame.mode \in Int /\ Frame.keep \in BOOLEAN /\ Frame.stay \in Nat
  BY <1>1, FrameWorld
<1>3. StoreSound(Cleared(world.store)) /\ Cleared(world.store) \in Stores
  BY ClearedSound DEF Sound, StoreSound
<1>4. w \in Worlds /\ w.active = world.active /\ w.own = world.own
      /\ w.store = Cleared(world.store)
  <2>1. world \in Worlds
    BY DEF Sound, ClientOK
  <2>2. /\ w.active = world.active /\ w.own = world.own
        /\ w.store = Cleared(world.store)
    BY <2>1 DEF Respawned, Worlds
  <2>3. w \in Worlds
    <3> DEFINE none == [c \in Coordinates |-> None]
    <3> DEFINE store == Cleared(world.store)
    <3> DEFINE rotated == world.rotated \/ ~Frame.keep
    <3> DEFINE rain == world.rain /\ Frame.dim = world.dim
    <3>1. none \in [Coordinates -> Chunks \cup {None}]
      OBVIOUS
    <3>2. rotated \in BOOLEAN /\ rain \in BOOLEAN
      OBVIOUS
    <3>3. store \in Stores
      BY <1>3
    <3>4. w = [world EXCEPT !.dim = Frame.dim, !.mode = Frame.mode, !.stay = Frame.stay, !.x = None,
                            !.rotated = rotated, !.rain = rain, !.chunks = none, !.store = store]
      BY DEF Respawned
    <3> HIDE DEF w, none, store, rotated, rain
    <3> QED BY <1>2, <2>1, <3>1, <3>2, <3>3, <3>4 DEF Worlds
  <2> QED BY <2>2, <2>3
<1>5. ASSUME world.active PROVE t \in Tasks /\ t.sim = None
  <2>1. world.own \in Ids
    BY <1>5 DEF Sound, ClientOK, Worlds
  <2> QED BY <2>1 DEF Reset, Sound, ClientOK, Tasks
<1>6. world.active = (world.own # None)
  BY DEF Sound, ClientOK
<1>7. CASE world.active /\ Goes(w, t)
  <2> HIDE DEF w, t
  <2> QED BY <1>1, <1>3, <1>4, <1>5, <1>6, <1>7, SoundMade
<1> QED BY <1>1, <1>7, SoundEnded

LEMMA ReadPositionSound ==
  ASSUME Sound, DownOK(down), ReadPosition
  PROVE  Sound'
<1> DEFINE x == Target(Frame)
<1> DEFINE w == [world EXCEPT !.x = x, !.rotated = TRUE, !.teleport = Frame.id]
<1> DEFINE t == [task EXCEPT !.sim = Reconciled(task.sim, Frame, x)]
<1>1. UNCHANGED habit /\ down # <<>> /\ Frame.kind = "position"
      /\ \/ Ends(Refusal(Frame))
         \/ Refusal(Frame) = "none" /\ (IF WorldMode THEN Goes(w, t) ELSE Goes(w, task))
  BY DEF ReadPosition, Took, WithoutInventory, Reads, Frame
<1>2. /\ Frame.id \in Nat /\ Frame.serial \in Nat /\ Frame.x \in Int
      /\ Frame.relative \in BOOLEAN /\ Frame.turns \in BOOLEAN
  BY <1>1, FrameWorld
<1>3. CASE Refusal(Frame) = "none" /\ (IF WorldMode THEN Goes(w, t) ELSE Goes(w, task))
  <2>1. Base \in Int \cup {None}
    BY DEF Base, Sound, ClientOK, Worlds, Tasks, Simulations
  <2>2. Frame.relative => Base # None
    BY <1>3 DEF Refusal
  <2>3. x \in Int
    BY <1>2, <2>1, <2>2 DEF Target
  <2> HIDE DEF x
  <2>4. w \in Worlds /\ w.active = world.active /\ w.own = world.own /\ w.store = world.store
    BY <1>2, <2>3 DEF Sound, ClientOK, Worlds
  <2>5. Reconciled(task.sim, Frame, x) \in Simulations
    BY <1>2, <2>3 DEF Reconciled, Simulations, NoPush
  <2>6. t \in Tasks
    BY <2>5 DEF Sound, ClientOK, Tasks
  <2>7. world.active = (world.own # None) /\ task \in Tasks /\ (task.sim # None => WorldMode)
        /\ StoreSound(world.store)
    BY DEF Sound, ClientOK
  <2>8. CASE WorldMode
    <3>1. Goes(w, t)
      BY <1>3, <2>8
    <3> HIDE DEF w, t
    <3> QED BY <1>1, <2>4, <2>6, <2>7, <2>8, <3>1, SoundMade
  <2>9. CASE ~WorldMode
    <3>1. Goes(w, task)
      BY <1>3, <2>9
    <3> HIDE DEF w
    <3> QED BY <1>1, <2>4, <2>7, <3>1, SoundMade
  <2> QED BY <2>8, <2>9
<1> QED BY <1>1, <1>3, SoundEnded

LEMMA ReadRotationSound ==
  ASSUME Sound, ReadRotation
  PROVE  Sound'
<1> DEFINE w == [world EXCEPT !.rotated = TRUE]
<1>1. UNCHANGED habit /\ (Ends("baseline") \/ Ends("lifecycle") \/ Goes(w, task))
  BY DEF ReadRotation, Took, WithoutInventory
<1>2. w \in Worlds /\ w.active = world.active /\ w.own = world.own /\ w.store = world.store
  BY DEF Sound, ClientOK, Worlds
<1>3. world.active = (world.own # None) /\ task \in Tasks /\ (task.sim # None => WorldMode)
      /\ StoreSound(world.store)
  BY DEF Sound, ClientOK
<1> HIDE DEF w
<1>4. CASE Goes(w, task)
  BY <1>1, <1>2, <1>3, <1>4, SoundMade
<1> QED BY <1>1, <1>4, SoundEnded

\* Packets that only change the task, or nothing.
LEMMA TaskOnlySound ==
  ASSUME Sound, UNCHANGED habit, NEW t \in Tasks, t.sim # None => WorldMode, Goes(world, t)
  PROVE  Sound'
BY SoundMade DEF Sound, ClientOK

LEMMA ReadAnswerableSound ==
  ASSUME Sound, ReadKeepAlive \/ ReadBatchFinished \/ ReadHealth
  PROVE  Sound'
<1> DEFINE loaded == [task EXCEPT !.loaded = TRUE]
<1> DEFINE requested == [task EXCEPT !.requested = TRUE]
<1>1. UNCHANGED habit /\ (Goes(world, task) \/ Goes(world, loaded) \/ Goes(world, requested))
  BY DEF ReadKeepAlive, ReadBatchFinished, ReadHealth, Took, WithoutInventory
<1>2. task \in Tasks /\ (task.sim # None => WorldMode)
  BY DEF Sound, ClientOK
<1>3. loaded \in Tasks /\ loaded.sim = task.sim
  BY DEF Sound, ClientOK, Tasks
<1>4. requested \in Tasks /\ requested.sim = task.sim
  BY DEF Sound, ClientOK, Tasks
<1> HIDE DEF loaded, requested
<1> QED BY <1>1, <1>2, <1>3, <1>4, TaskOnlySound

LEMMA ReadStartConfigurationSound ==
  ASSUME Sound, ReadStartConfiguration
  PROVE  Sound'
<1> DEFINE w == BeganConfiguration(world)
<1> DEFINE t == [task EXCEPT !.configuring = TRUE]
<1>1. UNCHANGED habit /\ Goes(w, t)
  BY DEF ReadStartConfiguration, Took, WithoutInventory
<1>2. StoreSound(Cleared(world.store)) /\ Cleared(world.store) \in Stores
  BY ClearedSound DEF Sound, StoreSound
<1>3. w \in Worlds /\ w.active = FALSE /\ w.own = None /\ w.store = Cleared(world.store)
  BY <1>2 DEF BeganConfiguration, Sound, ClientOK, Worlds
<1>4. t \in Tasks /\ t.sim = task.sim /\ (task.sim # None => WorldMode)
  BY DEF Sound, ClientOK, Tasks
<1> HIDE DEF w, t
<1> QED BY <1>1, <1>2, <1>3, <1>4, SoundMade

LEMMA FinishConfigurationSound ==
  ASSUME Sound, DownOK(down), FinishConfiguration
  PROVE  Sound'
<1> DEFINE w == EnteredWorld(world, Frame)
<1> DEFINE t == Reset([task EXCEPT !.configuring = FALSE], Frame.own)
<1>1. UNCHANGED habit /\ down # <<>> /\ Frame.kind = "login" /\ Goes(w, t)
  BY DEF FinishConfiguration, Took, WithoutInventory
<1>2. /\ Frame.own \in Ids /\ Frame.dim \in Int /\ Frame.mode \in Int /\ Frame.stay \in Nat
  BY <1>1, FrameWorld
<1>3. Frame.own # None
  BY <1>2, SessionAssumption
<1>4. w \in Worlds /\ w.active = TRUE /\ w.own = Frame.own /\ w.store = world.store
  BY <1>2 DEF EnteredWorld, Sound, ClientOK, Worlds
<1>5. t \in Tasks /\ t.sim = None
  BY <1>2 DEF Reset, Sound, ClientOK, Tasks
<1>6. StoreSound(world.store)
  BY DEF Sound
<1> HIDE DEF w, t
<1> QED BY <1>1, <1>3, <1>4, <1>5, <1>6, SoundMade

LEMMA MoveSound ==
  ASSUME Sound, Walk \/ ForcedPosition
  PROVE  Sound'
<1>1. task \in Tasks /\ (task.sim # None => WorldMode)
  BY DEF Sound, ClientOK
<1>2. CASE Walk
  <2>1. PICK x \in Places : Goes(world, [task EXCEPT !.sim.x = x, !.sim.told = TRUE])
    BY <1>2 DEF Walk
  <2>2. UNCHANGED habit /\ task.sim # None
    BY <1>2 DEF Walk, WithoutInventory
  <2>4. x \in Int
    BY SessionAssumption DEF Places
  <2>3. [task EXCEPT !.sim.x = x, !.sim.told = TRUE] \in Tasks
    BY <1>1, <2>2, <2>4 DEF Tasks, Simulations
  <2> QED BY <1>1, <2>1, <2>2, <2>3, TaskOnlySound
<1>3. CASE ForcedPosition
  <2>1. UNCHANGED habit /\ task.sim # None /\ Goes(world, [task EXCEPT !.sim.told = TRUE])
    BY <1>3 DEF ForcedPosition, WithoutInventory
  <2>2. [task EXCEPT !.sim.told = TRUE] \in Tasks
    BY <1>1, <2>1 DEF Tasks, Simulations
  <2> QED BY <1>1, <2>1, <2>2, TaskOnlySound
<1> QED BY <1>2, <1>3

LEMMA WorldClientSound ==
  ASSUME Sound, DownOK(down), WorldClient
  PROVE  Sound'
BY ReadEntitySound, ReadChunkSound, FinishDecodeSound, ReadChunkUpdateSound, ReadSettingSound,
   ReadRespawnSound, ReadPositionSound, ReadRotationSound, ReadAnswerableSound,
   ReadStartConfigurationSound, FinishConfigurationSound, MoveSound DEF WorldClient

-----------------------------------------------------------------------------
\* The server's side.

LEMMA DownShort ==
  /\ \A p : p \in WorldPackets \/ p.kind \in InventoryKinds => DownOK(<<p>>)
  /\ \A p, q : /\ p \in WorldPackets \/ p.kind \in InventoryKinds
               /\ q \in WorldPackets \/ q.kind \in InventoryKinds
               => DownOK(<<p, q>>)
<1>1. ASSUME NEW p, p \in WorldPackets \/ p.kind \in InventoryKinds
      PROVE  DownOK(<<p>>)
  BY <1>1, Short DEF DownOK
<1>2. ASSUME NEW p, NEW q, p \in WorldPackets \/ p.kind \in InventoryKinds,
             q \in WorldPackets \/ q.kind \in InventoryKinds
      PROVE  DownOK(<<p, q>>)
  BY <1>2, Short DEF DownOK
<1> QED BY <1>1, <1>2

LEMMA ServerParts ==
  ASSUME ServerOK
  PROVE  /\ wserver \in Servers /\ Remote \subseteq Ids /\ IsFiniteSet(Remote)
         /\ wserver.entities \in [Remote -> Entities]
<1>1. wserver \in Servers /\ wserver.entities \in EntityMaps /\ IsFiniteSet(Remote)
  BY DEF ServerOK, Servers, Remote
<1> QED BY <1>1 DEF EntityMaps, Remote

\* What the server does with its world is told as it should be.
LEMMA DoesSound ==
  ASSUME Typed, NEW w \in Servers, IsFiniteSet(DOMAIN w.entities), NEW packets, DownOK(packets),
         Does(w, packets)
  PROVE  Typed'
<1>1. /\ wserver' = w /\ down' = down \o packets /\ server' = [server EXCEPT !.events = @ + 1]
      /\ UNCHANGED <<habit, mailbox, up, world, task>>
  BY DEF Does
<1>2. Sound'
  BY <1>1, SoundKept DEF Typed
<1>3. DownOK(down)'
  BY <1>1, DownPushed DEF Typed
<1>4. EventsOK'
  BY <1>1 DEF Typed, ServerOK, EventsOK
<1>5. ServerOK'
  BY <1>1, <1>4 DEF ServerOK
<1>6. UpOK(up)' /\ MailboxOK'
  BY <1>1 DEF Typed, MailboxOK
<1> QED BY <1>2, <1>3, <1>5, <1>6 DEF Typed

LEMMA EntitiesMade ==
  ASSUME ServerOK, NEW D, D \subseteq Ids, IsFiniteSet(D), NEW f \in [D -> Entities]
  PROVE  /\ [wserver EXCEPT !.entities = f] \in Servers
         /\ IsFiniteSet(DOMAIN [wserver EXCEPT !.entities = f].entities)
<1>1. f \in EntityMaps
  BY DEF EntityMaps
<1>2. [wserver EXCEPT !.entities = f] \in Servers
  BY <1>1 DEF ServerOK, Servers
<1>3. [wserver EXCEPT !.entities = f].entities = f
  BY DEF ServerOK, Servers
<1> QED BY <1>2, <1>3

LEMMA TellSound ==
  ASSUME Typed, NEW p, p \in WorldPackets, NEW id \in Ids, NEW e \in Entities, Tell(p, id, e)
  PROVE  Typed'
<1> DEFINE f == [i \in Remote \cup {id} |-> IF i = id THEN e ELSE wserver.entities[i]]
<1> DEFINE w == [wserver EXCEPT !.entities = f]
<1>1. ServerOK
  BY DEF Typed
<1>2. IsFiniteSet(Remote \cup {id}) /\ Remote \cup {id} \subseteq Ids
  BY <1>1, ServerParts, FS_AddElement
<1>3. f \in [Remote \cup {id} -> Entities]
  BY <1>1, ServerParts
<1>4. Does(w, <<p>>)
  BY DEF Tell
<1> HIDE DEF f
<1>5. w \in Servers /\ IsFiniteSet(DOMAIN w.entities)
  BY <1>1, <1>2, <1>3, EntitiesMade
<1>6. DownOK(<<p>>)
  BY DownShort
<1> HIDE DEF w
<1> QED BY <1>4, <1>5, <1>6, DoesSound

LEMMA ServerEntitiesSound ==
  ASSUME Typed, ServerSpawns \/ ServerMovesEntity \/ ServerRemoves
  PROVE  Typed'
<1>1. ServerOK /\ Remote \subseteq Ids /\ IsFiniteSet(Remote)
      /\ wserver.entities \in [Remote -> Entities]
  BY ServerParts DEF Typed
<1>2. CASE ServerSpawns
  <2>1. PICK id \in Ids : Tell([kind |-> "spawn", id |-> id, entity |-> NewEntity], id, NewEntity)
    BY <1>2 DEF ServerSpawns
  <2>2. NewEntity \in Entities
    BY DEF NewEntity, Entities, NoPush
  <2>3. [kind |-> "spawn", id |-> id, entity |-> NewEntity] \in WorldPackets
    BY <2>2 DEF WorldPackets
  <2> QED BY <2>1, <2>2, <2>3, TellSound
<1>3. CASE ServerMovesEntity
  <2>1. PICK id \in Remote :
          \/ \E delta \in {1, -1} :
               Tell([kind |-> "move", id |-> id, delta |-> delta], id,
                    [wserver.entities[id] EXCEPT !.x = @ + delta])
          \/ Tell([kind |-> "sync", id |-> id, x |-> Line], id,
                  [wserver.entities[id] EXCEPT !.x = Line])
          \/ Tell([kind |-> "data", id |-> id, data |-> 1], id,
                  [wserver.entities[id] EXCEPT !.data = 1])
          \/ Tell([kind |-> "velocity", id |-> id, v |-> 1], id,
                  [wserver.entities[id] EXCEPT !.v = 1])
    BY <1>3 DEF ServerMovesEntity
  <2> DEFINE e == wserver.entities[id]
  <2>2. id \in Ids /\ e \in Entities
    BY <1>1
  <2> HIDE DEF e
  <2>3. ASSUME NEW delta \in {1, -1},
               Tell([kind |-> "move", id |-> id, delta |-> delta], id, [e EXCEPT !.x = @ + delta])
        PROVE  Typed'
    <3>1. [e EXCEPT !.x = @ + delta] \in Entities
      BY <2>2 DEF Entities
    <3>2. [kind |-> "move", id |-> id, delta |-> delta] \in WorldPackets
      BY <2>2 DEF WorldPackets
    <3> QED BY <2>2, <2>3, <3>1, <3>2, TellSound
  <2>4. CASE Tell([kind |-> "sync", id |-> id, x |-> Line], id, [e EXCEPT !.x = Line])
    <3>1. [e EXCEPT !.x = Line] \in Entities /\ Line \in Int
      BY <2>2, SessionAssumption DEF Entities
    <3>2. [kind |-> "sync", id |-> id, x |-> Line] \in WorldPackets
      BY <2>2, <3>1 DEF WorldPackets
    <3> QED BY <2>2, <2>4, <3>1, <3>2, TellSound
  <2>5. CASE Tell([kind |-> "data", id |-> id, data |-> 1], id, [e EXCEPT !.data = 1])
    <3>1. [e EXCEPT !.data = 1] \in Entities
      BY <2>2 DEF Entities
    <3>2. [kind |-> "data", id |-> id, data |-> 1] \in WorldPackets
      BY <2>2 DEF WorldPackets
    <3> QED BY <2>2, <2>5, <3>1, <3>2, TellSound
  <2>6. CASE Tell([kind |-> "velocity", id |-> id, v |-> 1], id, [e EXCEPT !.v = 1])
    <3>1. [e EXCEPT !.v = 1] \in Entities
      BY <2>2 DEF Entities
    <3>2. [kind |-> "velocity", id |-> id, v |-> 1] \in WorldPackets
      BY <2>2 DEF WorldPackets
    <3> QED BY <2>2, <2>6, <3>1, <3>2, TellSound
  <2> QED BY <2>1, <2>3, <2>4, <2>5, <2>6 DEF e
<1>4. CASE ServerRemoves
  <2>1. PICK gone \in SUBSET Remote :
          \E ids \in SetToSeqs(gone) :
            Does([wserver EXCEPT !.entities = [i \in Remote \ gone |-> @[i]]],
                 <<[kind |-> "remove", ids |-> ids]>>)
    BY <1>4 DEF ServerRemoves
  <2> DEFINE f == [i \in Remote \ gone |-> wserver.entities[i]]
  <2> DEFINE w == [wserver EXCEPT !.entities = f]
  <2>2. PICK ids \in SetToSeqs(gone) : Does(w, <<[kind |-> "remove", ids |-> ids]>>)
    BY <2>1
  <2>3. ids \in Seq(Ids)
    <3>1. ids \in [1 .. Cardinality(gone) -> gone]
      BY DEF SetToSeqs
    <3>2. Cardinality(gone) \in Nat
      BY <1>1, FS_Subset, FS_CardinalityType
    <3>3. ids \in [1 .. Cardinality(gone) -> Ids]
      BY <1>1, <3>1
    <3> QED BY <3>2, <3>3
  <2>4. [kind |-> "remove", ids |-> ids] \in WorldPackets
    BY <2>3 DEF WorldPackets
  <2>5. f \in [Remote \ gone -> Entities] /\ Remote \ gone \subseteq Ids
    BY <1>1
  <2>6. IsFiniteSet(Remote \ gone)
    BY <1>1, FS_Subset
  <2> HIDE DEF f
  <2>7. w \in Servers /\ IsFiniteSet(DOMAIN w.entities)
    BY <1>1, <2>5, <2>6, EntitiesMade
  <2>8. DownOK(<<[kind |-> "remove", ids |-> ids]>>)
    BY <2>4, DownShort
  <2> HIDE DEF w
  <2> QED BY <2>2, <2>7, <2>8, DoesSound
<1> QED BY <1>2, <1>3, <1>4

\* The server's record, field by field: what may replace each.
LEMMA ServerFields ==
  ASSUME NEW w \in Servers
  PROVE  /\ w.own \in Ids /\ w.dim \in Int /\ w.mode \in Int /\ w.x \in Int /\ w.v \in Int
         /\ w.rain \in BOOLEAN /\ w.stay \in Nat /\ w.teleport \in Nat /\ w.sent \in Nat
         /\ w.awaiting \in Nat \cup {None} /\ w.chunks \in [Coordinates -> Chunks \cup {None}]
         /\ w.batches \in {0, 1} /\ w.alive \in BOOLEAN /\ w.asked \in SUBSET Nat
         /\ w.configuring \in BOOLEAN
BY DEF Servers

LEMMA TeleportedMade ==
  ASSUME NEW w \in Servers, NEW x \in Int
  PROVE  /\ Teleported(w, x) \in Servers
         /\ Teleported(w, x).teleport = w.teleport + 1 /\ Teleported(w, x).sent = w.sent + 1
         /\ Teleported(w, x).awaiting = w.teleport + 1 /\ Teleported(w, x).x = x
         /\ Teleported(w, x).asked = w.asked /\ Teleported(w, x).batches = w.batches
         /\ Teleported(w, x).alive = w.alive /\ Teleported(w, x).configuring = w.configuring
         /\ Teleported(w, x).stay = w.stay /\ Teleported(w, x).chunks = w.chunks
         /\ Teleported(w, x).entities = w.entities
<1>1. w.teleport + 1 \in Nat /\ w.sent + 1 \in Nat
  BY ServerFields
<1> DEFINE w1 == [w EXCEPT !.x = x]
<1> DEFINE w2 == [w1 EXCEPT !.v = NoPush]
<1> DEFINE w3 == [w2 EXCEPT !.teleport = w.teleport + 1]
<1> DEFINE w4 == [w3 EXCEPT !.sent = w.sent + 1]
<1> DEFINE w5 == [w4 EXCEPT !.awaiting = w.teleport + 1]
<1> DEFINE Rest(a, b) ==
      /\ a.asked = b.asked /\ a.batches = b.batches /\ a.alive = b.alive
      /\ a.configuring = b.configuring /\ a.stay = b.stay /\ a.chunks = b.chunks
      /\ a.entities = b.entities
<1>2. Teleported(w, x) = w5
  BY DEF Teleported
<1>3. w1 \in Servers /\ Rest(w1, w) /\ w1.x = x
  BY DEF Servers
<1>4. w2 \in Servers /\ Rest(w2, w) /\ w2.x = x
  <2> HIDE DEF w1
  <2> QED BY <1>3 DEF Servers, NoPush
<1>5. w3 \in Servers /\ Rest(w3, w) /\ w3.x = x /\ w3.teleport = w.teleport + 1
  <2> HIDE DEF w2
  <2> QED BY <1>1, <1>4 DEF Servers
<1>6. w4 \in Servers /\ Rest(w4, w) /\ w4.x = x /\ w4.teleport = w.teleport + 1
      /\ w4.sent = w.sent + 1
  <2> HIDE DEF w3
  <2> QED BY <1>1, <1>5 DEF Servers
<1>7. w5 \in Servers /\ Rest(w5, w) /\ w5.x = x /\ w5.teleport = w.teleport + 1
      /\ w5.sent = w.sent + 1 /\ w5.awaiting = w.teleport + 1
  <2> HIDE DEF w4
  <2> QED BY <1>1, <1>6 DEF Servers
<1> HIDE DEF w5
<1> QED BY <1>2, <1>7

LEMMA NewStayMade ==
  ASSUME NEW w \in Servers, NEW rain \in BOOLEAN
  PROVE  /\ NewStay(w, rain) \in Servers /\ IsFiniteSet(DOMAIN NewStay(w, rain).entities)
         /\ NewStay(w, rain).stay = w.stay + 1 /\ NewStay(w, rain).alive = TRUE
         /\ NewStay(w, rain).chunks = [c \in Coordinates |-> None]
         /\ NewStay(w, rain).teleport = w.teleport /\ NewStay(w, rain).sent = w.sent
         /\ NewStay(w, rain).awaiting = w.awaiting /\ NewStay(w, rain).asked = w.asked
         /\ NewStay(w, rain).batches = w.batches /\ NewStay(w, rain).configuring = w.configuring
<1>1. w.stay + 1 \in Nat
  BY ServerFields
<1> DEFINE none == [i \in {} |-> 0]
<1>2. none \in EntityMaps
  <2>1. none \in [{} -> Entities] /\ {} \in SUBSET Ids
    OBVIOUS
  <2> QED BY <2>1 DEF EntityMaps
<1>3. DOMAIN none = {}
  OBVIOUS
<1> DEFINE w1 == [w EXCEPT !.stay = w.stay + 1]
<1> DEFINE w2 == [w1 EXCEPT !.rain = rain]
<1> DEFINE w3 == [w2 EXCEPT !.alive = TRUE]
<1> DEFINE w4 == [w3 EXCEPT !.entities = none]
<1> DEFINE w5 == [w4 EXCEPT !.chunks = [c \in Coordinates |-> None]]
<1> DEFINE Rest(a, b) ==
      /\ a.teleport = b.teleport /\ a.sent = b.sent /\ a.awaiting = b.awaiting
      /\ a.asked = b.asked /\ a.batches = b.batches /\ a.configuring = b.configuring
<1>4. NewStay(w, rain) = w5
  BY DEF NewStay
<1> HIDE DEF none
<1>5. w1 \in Servers /\ Rest(w1, w) /\ w1.stay = w.stay + 1
  BY <1>1 DEF Servers
<1>6. w2 \in Servers /\ Rest(w2, w) /\ w2.stay = w.stay + 1
  <2> HIDE DEF w1
  <2> QED BY <1>5 DEF Servers
<1>7. w3 \in Servers /\ Rest(w3, w) /\ w3.stay = w.stay + 1 /\ w3.alive = TRUE
  <2> HIDE DEF w2
  <2> QED BY <1>6 DEF Servers
<1>8. w4 \in Servers /\ Rest(w4, w) /\ w4.stay = w.stay + 1 /\ w4.alive = TRUE
      /\ w4.entities = none
  <2> HIDE DEF w3
  <2> QED BY <1>2, <1>7 DEF Servers
<1>9. w5 \in Servers /\ Rest(w5, w) /\ w5.stay = w.stay + 1 /\ w5.alive = TRUE
      /\ w5.entities = none /\ w5.chunks = [c \in Coordinates |-> None]
  <2> HIDE DEF w4
  <2> QED BY <1>8 DEF Servers
<1> HIDE DEF w5
<1>10. IsFiniteSet(DOMAIN w5.entities)
  BY <1>3, <1>9, FS_EmptySet
<1> QED BY <1>4, <1>9, <1>10

LEMMA PositionMade ==
  ASSUME NEW w \in Servers, NEW x \in Int, NEW relative \in BOOLEAN, NEW turns \in BOOLEAN
  PROVE  /\ PositionPacket(w, x, relative, turns) \in WorldPackets
         /\ PositionPacket(w, x, relative, turns).kind = "position"
         /\ PositionPacket(w, x, relative, turns).id = w.teleport
         /\ PositionPacket(w, x, relative, turns).serial = w.sent
<1>1. w.teleport \in Nat /\ w.sent \in Nat
  BY ServerFields
<1>2. PositionPacket(w, x, relative, turns) \in
        [kind : {"position"}, id : Nat, serial : Nat, x : Int, relative : BOOLEAN, turns : BOOLEAN]
  BY <1>1 DEF PositionPacket
<1>3. PositionPacket(w, x, relative, turns) \in WorldPackets
  BY <1>2 DEF WorldPackets
<1> QED BY <1>3 DEF PositionPacket

\* What a respawn is told by: the new world, where the player is, and the rain if it rains.
IsRespawn(packets, w) ==
    \E r, p, rest :
      /\ packets = <<r, p>> \o rest
      /\ r \in WorldPackets /\ r.kind = "respawn" /\ r.stay = w.stay
      /\ p \in WorldPackets /\ p.kind = "position" /\ p.id = w.teleport /\ p.serial = w.sent
      /\ DownOK(rest) /\ \A i \in DOMAIN rest : rest[i].kind = "rain"
LEMMA RespawnTold ==
  ASSUME NEW w \in Servers, NEW keep \in BOOLEAN
  PROVE  IsRespawn(RespawnPackets(w, keep), w)
<1> DEFINE r == [kind |-> "respawn", dim |-> w.dim, mode |-> w.mode, keep |-> keep,
                 stay |-> w.stay]
<1> DEFINE p == PositionPacket(w, w.x, FALSE, TRUE)
<1> DEFINE rain == [kind |-> "rain", rain |-> TRUE]
<1>1. RespawnPackets(w, keep) = <<r, p>> \o Told(w.rain)
  BY DEF RespawnPackets
<1>2. r \in WorldPackets /\ r.kind = "respawn" /\ r.stay = w.stay
  <2>1. r \in [kind : {"respawn"}, dim : Int, mode : Int, keep : BOOLEAN, stay : Nat]
    BY ServerFields
  <2> QED BY <2>1 DEF WorldPackets
<1>3. p \in WorldPackets /\ p.kind = "position" /\ p.id = w.teleport /\ p.serial = w.sent
  BY ServerFields, PositionMade
<1>4. Told(w.rain) = <<>> \/ Told(w.rain) = <<rain>>
  BY DEF Told
<1>5. rain \in WorldPackets /\ rain.kind = "rain"
  <2>1. rain \in [kind : {"rain"}, rain : BOOLEAN]
    OBVIOUS
  <2> QED BY <2>1 DEF WorldPackets
<1> HIDE DEF r, p, rain
<1>6. DownOK(Told(w.rain)) /\ \A i \in DOMAIN Told(w.rain) : Told(w.rain)[i].kind = "rain"
  <2>1. CASE Told(w.rain) = <<>>
    BY <2>1, Short DEF DownOK
  <2>2. CASE Told(w.rain) = <<rain>>
    BY <1>5, <2>2, Short, DownShort
  <2> QED BY <1>4, <2>1, <2>2
<1> QED BY <1>1, <1>2, <1>3, <1>6 DEF IsRespawn

LEMMA RespawnDown ==
  ASSUME NEW w \in Servers, NEW keep \in BOOLEAN
  PROVE  DownOK(RespawnPackets(w, keep))
<1>1. IsRespawn(RespawnPackets(w, keep), w)
  BY RespawnTold
<1>3. PICK r, p, rest : /\ RespawnPackets(w, keep) = <<r, p>> \o rest
                        /\ r \in WorldPackets /\ p \in WorldPackets /\ DownOK(rest)
  BY <1>1 DEF IsRespawn
<1>2. DownOK(<<r, p>>)
  BY <1>3, DownShort
<1> QED BY <1>2, <1>3, DownPushed

LEMMA OneFieldDone ==
  ASSUME Typed, NEW w \in Servers, w.entities = wserver.entities, NEW packets, DownOK(packets),
         Does(w, packets)
  PROVE  Typed'
<1>1. IsFiniteSet(DOMAIN w.entities)
  BY DEF Typed, ServerOK
<1> QED BY <1>1, DoesSound

LEMMA ServerChunksSound ==
  ASSUME Typed, ServerPushes \/ ServerSendsChunk \/ ServerForgets \/ ServerUpdates
  PROVE  Typed'
<1>1. wserver \in Servers
  BY DEF Typed, ServerOK
<1>2. CASE ServerPushes
  <2> DEFINE w == [wserver EXCEPT !.v = 1]
  <2> DEFINE p == [kind |-> "velocity", id |-> wserver.own, v |-> 1]
  <2>1. Does(w, <<p>>)
    BY <1>2 DEF ServerPushes
  <2>2. w \in Servers /\ w.entities = wserver.entities
    BY <1>1 DEF Servers
  <2>3. p \in [kind : {"velocity"}, id : Ids, v : Int]
    BY <1>1, ServerFields
  <2>4. p \in WorldPackets
    BY <2>3 DEF WorldPackets
  <2> HIDE DEF w, p
  <2> QED BY <2>1, <2>2, <2>4, DownShort, OneFieldDone
<1>3. CASE ServerSendsChunk
  <2>1. PICK c \in Coordinates, value \in {0, 1} :
          LET chunk == [stay |-> wserver.stay, data |-> [f \in Fields |-> value]]
          IN Does([wserver EXCEPT !.chunks[c] = chunk, !.batches = 1],
                  <<[kind |-> "chunk", at |-> c, chunk |-> chunk], [kind |-> "batch_finished"]>>)
    BY <1>3 DEF ServerSendsChunk
  <2> DEFINE chunk == [stay |-> wserver.stay, data |-> [f \in Fields |-> value]]
  <2> DEFINE v == [wserver EXCEPT !.chunks[c] = chunk]
  <2> DEFINE w == [v EXCEPT !.batches = 1]
  <2> DEFINE p == [kind |-> "chunk", at |-> c, chunk |-> chunk]
  <2> DEFINE q == [kind |-> "batch_finished"]
  <2>2. Does(w, <<p, q>>)
    BY <2>1
  <2>3. chunk \in Chunks
    BY <1>1, ServerFields DEF Chunks
  <2> HIDE DEF chunk
  <2>4. v \in Servers /\ v.entities = wserver.entities
    BY <1>1, <2>3 DEF Servers
  <2> HIDE DEF v
  <2>5. w \in Servers /\ w.entities = wserver.entities
    BY <2>4 DEF Servers
  <2>6. p \in WorldPackets
    BY <2>3 DEF WorldPackets
  <2>7. q \in WorldPackets
    BY DEF WorldPackets
  <2>8. DownOK(<<p, q>>)
    <3> HIDE DEF p, q
    <3> QED BY <2>6, <2>7, DownShort
  <2> HIDE DEF w, p, q
  <2> QED BY <2>2, <2>5, <2>8, OneFieldDone
<1>4. CASE ServerForgets
  <2>1. PICK c \in Coordinates :
          Does([wserver EXCEPT !.chunks[c] = None], <<[kind |-> "forget", at |-> c]>>)
    BY <1>4 DEF ServerForgets
  <2> DEFINE w == [wserver EXCEPT !.chunks[c] = None]
  <2> DEFINE p == [kind |-> "forget", at |-> c]
  <2>2. w \in Servers /\ w.entities = wserver.entities
    BY <1>1 DEF Servers
  <2>3. p \in WorldPackets
    BY DEF WorldPackets
  <2>4. Does(w, <<p>>)
    BY <2>1
  <2> HIDE DEF w, p
  <2> QED BY <2>2, <2>3, <2>4, DownShort, OneFieldDone
<1>5. CASE ServerUpdates
  <2>1. PICK c \in Coordinates, f \in Fields :
          /\ wserver.chunks[c] # None
          /\ LET value == 1 - wserver.chunks[c].data[f]
             IN Does([wserver EXCEPT !.chunks[c].data[f] = value],
                     <<[kind |-> "update", at |-> c, field |-> f, value |-> value]>>)
    BY <1>5 DEF ServerUpdates
  <2> DEFINE value == 1 - wserver.chunks[c].data[f]
  <2> DEFINE chunk == [wserver.chunks[c] EXCEPT !.data[f] = value]
  <2> DEFINE w == [wserver EXCEPT !.chunks[c] = chunk]
  <2> DEFINE p == [kind |-> "update", at |-> c, field |-> f, value |-> value]
  <2>2. wserver.chunks[c] \in Chunks
    BY <1>1, <2>1, ServerFields
  <2>3. value \in Int
    BY <2>2 DEF Chunks
  <2>4. Does(w, <<p>>)
    BY <2>1
  <2> HIDE DEF value
  <2>5. chunk \in Chunks
    BY <2>2, <2>3 DEF Chunks
  <2> HIDE DEF chunk
  <2>6. w \in Servers /\ w.entities = wserver.entities
    BY <1>1, <2>5 DEF Servers
  <2>7. p \in WorldPackets
    BY <2>3 DEF WorldPackets
  <2> HIDE DEF w, p
  <2> QED BY <2>4, <2>6, <2>7, DownShort, OneFieldDone
<1> QED BY <1>2, <1>3, <1>4, <1>5

LEMMA ServerSettingsSound ==
  ASSUME Typed, ServerSetsWorld \/ ServerTurns \/ ServerKills \/ ServerAsks
  PROVE  Typed'
<1>1. wserver \in Servers
  BY DEF Typed, ServerOK
<1>2. CASE Does([wserver EXCEPT !.rain = ~@], <<[kind |-> "rain", rain |-> ~wserver.rain]>>)
  <2> DEFINE w == [wserver EXCEPT !.rain = ~wserver.rain]
  <2> DEFINE p == [kind |-> "rain", rain |-> ~wserver.rain]
  <2>1. Does(w, <<p>>)
    BY <1>2
  <2>2. w \in Servers /\ w.entities = wserver.entities
    BY <1>1 DEF Servers
  <2>3. p \in WorldPackets
    BY <1>1, ServerFields DEF WorldPackets
  <2> HIDE DEF w, p
  <2> QED BY <2>1, <2>2, <2>3, DownShort, OneFieldDone
<1>3. CASE Does([wserver EXCEPT !.mode = 1 - @], <<[kind |-> "mode", mode |-> 1 - wserver.mode]>>)
  <2> DEFINE m == 1 - wserver.mode
  <2> DEFINE w == [wserver EXCEPT !.mode = m]
  <2> DEFINE p == [kind |-> "mode", mode |-> m]
  <2>1. Does(w, <<p>>)
    BY <1>3
  <2>2. m \in Int
    BY <1>1, ServerFields
  <2> HIDE DEF m
  <2>3. w \in Servers /\ w.entities = wserver.entities
    BY <1>1, <2>2 DEF Servers
  <2>4. p \in WorldPackets
    BY <2>2 DEF WorldPackets
  <2> HIDE DEF w, p
  <2> QED BY <2>1, <2>3, <2>4, DownShort, OneFieldDone
<1>4. CASE ServerTurns
  <2> DEFINE p == [kind |-> "rotation", turns |-> TRUE]
  <2>1. Does(wserver, <<p>>)
    BY <1>4 DEF ServerTurns
  <2>2. p \in WorldPackets
    BY DEF WorldPackets
  <2> HIDE DEF p
  <2> QED BY <1>1, <2>1, <2>2, DownShort, OneFieldDone
<1>5. CASE ServerKills
  <2> DEFINE w == [wserver EXCEPT !.alive = FALSE]
  <2> DEFINE p == [kind |-> "health"]
  <2>1. Does(w, <<p>>)
    BY <1>5 DEF ServerKills
  <2>2. w \in Servers /\ w.entities = wserver.entities
    BY <1>1 DEF Servers
  <2>3. p \in WorldPackets
    BY DEF WorldPackets
  <2> HIDE DEF w, p
  <2> QED BY <2>1, <2>2, <2>3, DownShort, OneFieldDone
<1>6. CASE ServerAsks
  <2> DEFINE id == server.events
  <2> DEFINE w == [wserver EXCEPT !.asked = wserver.asked \cup {id}]
  <2> DEFINE p == [kind |-> "keep_alive", id |-> id]
  <2>1. Does(w, <<p>>)
    BY <1>6 DEF ServerAsks
  <2>2. id \in Nat
    BY DEF Typed, ServerOK, EventsOK
  <2> HIDE DEF id
  <2>3. w \in Servers /\ w.entities = wserver.entities
    BY <1>1, <2>2 DEF Servers
  <2>4. p \in WorldPackets
    BY <2>2 DEF WorldPackets
  <2> HIDE DEF w, p
  <2> QED BY <2>1, <2>3, <2>4, DownShort, OneFieldDone
<1> QED BY <1>2, <1>3, <1>4, <1>5, <1>6 DEF ServerSetsWorld

\* A respawn, whatever brings it about: the player is in the new world at 0.
ComesBack(w, dim, rain) == Teleported(NewStay([w EXCEPT !.dim = dim], rain), 0)
IsBack(new, w) ==
    /\ new \in Servers /\ IsFiniteSet(DOMAIN new.entities)
    /\ new.stay = w.stay + 1 /\ new.chunks = [c \in Coordinates |-> None]
    /\ new.teleport = w.teleport + 1 /\ new.sent = w.sent + 1
    /\ new.awaiting = w.teleport + 1 /\ new.asked = w.asked /\ new.batches = w.batches
    /\ new.configuring = w.configuring /\ new.alive = TRUE
LEMMA ComesBackMade ==
  ASSUME NEW w \in Servers, NEW dim \in Int, NEW rain \in BOOLEAN
  PROVE  IsBack(ComesBack(w, dim, rain), w)
<1> DEFINE a == [w EXCEPT !.dim = dim]
<1> DEFINE b == NewStay(a, rain)
<1> DEFINE new == Teleported(b, 0)
<1>1. a \in Servers /\ a.stay = w.stay /\ a.teleport = w.teleport /\ a.sent = w.sent
      /\ a.asked = w.asked /\ a.batches = w.batches /\ a.configuring = w.configuring
  BY DEF Servers
<1> HIDE DEF a
<1>2. /\ b \in Servers /\ IsFiniteSet(DOMAIN b.entities) /\ b.stay = w.stay + 1
      /\ b.alive = TRUE /\ b.chunks = [c \in Coordinates |-> None]
      /\ b.teleport = w.teleport /\ b.sent = w.sent
      /\ b.asked = w.asked /\ b.batches = w.batches /\ b.configuring = w.configuring
  <2>1. /\ b \in Servers /\ IsFiniteSet(DOMAIN b.entities) /\ b.stay = a.stay + 1
        /\ b.alive = TRUE /\ b.chunks = [c \in Coordinates |-> None]
        /\ b.teleport = a.teleport /\ b.sent = a.sent
        /\ b.awaiting = a.awaiting /\ b.asked = a.asked
        /\ b.batches = a.batches /\ b.configuring = a.configuring
    BY <1>1, Zenon, NewStayMade
  <2> HIDE DEF b
  <2> QED BY <1>1, <2>1
<1> HIDE DEF b
<1>3. /\ new \in Servers /\ new.entities = b.entities /\ new.stay = b.stay
      /\ new.chunks = b.chunks /\ new.teleport = b.teleport + 1 /\ new.sent = b.sent + 1
      /\ new.awaiting = b.teleport + 1 /\ new.asked = b.asked /\ new.batches = b.batches
      /\ new.configuring = b.configuring /\ new.alive = b.alive
  BY <1>2, TeleportedMade
<1>4. ComesBack(w, dim, rain) = new
  BY DEF ComesBack, a, b
<1> HIDE DEF new
<1> QED BY <1>2, <1>3, <1>4 DEF IsBack

\* A new login: teleport ids start again, and the player is in a new stay.
NewLogin(w, own) ==
    Teleported(NewStay([w EXCEPT !.own = own, !.configuring = FALSE, !.teleport = 0,
                                 !.mode = 0, !.dim = 0], FALSE), 0)
IsNewLogin(new, w) ==
    /\ new \in Servers /\ IsFiniteSet(DOMAIN new.entities)
    /\ new.stay = w.stay + 1 /\ new.chunks = [c \in Coordinates |-> None]
    /\ new.teleport = 1 /\ new.sent = w.sent + 1
    /\ new.awaiting = 1 /\ new.asked = w.asked /\ new.batches = w.batches
    /\ ~new.configuring /\ new.alive
LEMMA LoginMade ==
  ASSUME NEW w \in Servers, NEW own \in Ids
  PROVE  IsNewLogin(NewLogin(w, own), w)
<1> DEFINE a1 == [w EXCEPT !.own = own]
<1> DEFINE a2 == [a1 EXCEPT !.configuring = FALSE]
<1> DEFINE a3 == [a2 EXCEPT !.teleport = 0]
<1> DEFINE a4 == [a3 EXCEPT !.mode = 0]
<1> DEFINE a5 == [a4 EXCEPT !.dim = 0]
<1> DEFINE fresh == NewStay(a5, FALSE)
<1> DEFINE new == Teleported(fresh, 0)
<1> DEFINE Rest(a, b) == a.stay = b.stay /\ a.sent = b.sent /\ a.asked = b.asked /\ a.batches = b.batches
<1>1. a1 \in Servers /\ Rest(a1, w)
  BY DEF Servers
<1>2. a2 \in Servers /\ Rest(a2, w) /\ ~a2.configuring
  <2> HIDE DEF a1
  <2> QED BY <1>1 DEF Servers
<1>3. a3 \in Servers /\ Rest(a3, w) /\ ~a3.configuring /\ a3.teleport = 0
  <2> HIDE DEF a2
  <2> QED BY <1>2 DEF Servers
<1>4. a4 \in Servers /\ Rest(a4, w) /\ ~a4.configuring /\ a4.teleport = 0
  <2> HIDE DEF a3
  <2> QED BY <1>3 DEF Servers
<1>5. a5 \in Servers /\ Rest(a5, w) /\ ~a5.configuring /\ a5.teleport = 0
  <2> HIDE DEF a4
  <2> QED BY <1>4 DEF Servers
<1>6. new = NewLogin(w, own)
  BY DEF NewLogin
<1> HIDE DEF a5
<1>7. /\ fresh \in Servers /\ IsFiniteSet(DOMAIN fresh.entities) /\ fresh.stay = a5.stay + 1
      /\ fresh.alive = TRUE /\ fresh.chunks = [c \in Coordinates |-> None]
      /\ fresh.teleport = a5.teleport /\ fresh.sent = a5.sent
      /\ fresh.awaiting = a5.awaiting /\ fresh.asked = a5.asked
      /\ fresh.batches = a5.batches /\ fresh.configuring = a5.configuring
  BY <1>5, Zenon, NewStayMade
<1> HIDE DEF fresh
<1>8. /\ new \in Servers /\ new.entities = fresh.entities /\ new.stay = fresh.stay
      /\ new.chunks = fresh.chunks /\ new.teleport = fresh.teleport + 1
      /\ new.sent = fresh.sent + 1
      /\ new.awaiting = fresh.teleport + 1 /\ new.asked = fresh.asked
      /\ new.batches = fresh.batches
      /\ new.configuring = fresh.configuring /\ new.alive = fresh.alive
  BY <1>7, TeleportedMade
<1> HIDE DEF new
<1>9. ~new.configuring /\ new.alive
  BY <1>5, <1>7, <1>8, Zenon
<1>10. /\ new.stay = w.stay + 1 /\ new.sent = w.sent + 1 /\ new.teleport = 1 /\ new.awaiting = 1
  BY <1>5, <1>7, <1>8
<1>11. /\ new \in Servers /\ IsFiniteSet(DOMAIN new.entities)
       /\ new.chunks = [c \in Coordinates |-> None]
       /\ new.asked = w.asked /\ new.batches = w.batches
  BY <1>5, <1>7, <1>8
<1> QED BY <1>6, <1>9, <1>10, <1>11 DEF IsNewLogin

LEMMA ServerPositionsSound ==
  ASSUME Typed, ServerTeleports \/ ServerRepeats \/ ServerRespawns
  PROVE  Typed'
<1>1. wserver \in Servers /\ IsFiniteSet(DOMAIN wserver.entities)
  BY DEF Typed, ServerOK
<1>2. CASE ServerTeleports
  <2>1. PICK x \in Places, relative \in BOOLEAN :
          Does(Teleported(wserver, x),
               <<PositionPacket(Teleported(wserver, x), IF relative THEN x - wserver.x ELSE x,
                                relative, relative)>>)
    BY <1>2 DEF ServerTeleports
  <2> DEFINE w == Teleported(wserver, x)
  <2> DEFINE to == IF relative THEN x - wserver.x ELSE x
  <2>2. x \in Int
    BY SessionAssumption DEF Places
  <2>3. to \in Int
    BY <1>1, <2>2, ServerFields
  <2>4. w \in Servers /\ w.entities = wserver.entities
    BY <1>1, <2>2, TeleportedMade
  <2>5. Does(w, <<PositionPacket(w, to, relative, relative)>>)
    BY <2>1
  <2> HIDE DEF w, to
  <2>6. DownOK(<<PositionPacket(w, to, relative, relative)>>)
    BY <2>3, <2>4, PositionMade, DownShort
  <2> QED BY <2>4, <2>5, <2>6, OneFieldDone
<1>3. CASE ServerRepeats
  <2> DEFINE w == Teleported(wserver, wserver.x)
  <2>1. Does(w, <<PositionPacket(w, w.x, FALSE, FALSE)>>)
    BY <1>3 DEF ServerRepeats
  <2>2. w \in Servers /\ w.entities = wserver.entities
    BY <1>1, ServerFields, TeleportedMade
  <2> HIDE DEF w
  <2>3. DownOK(<<PositionPacket(w, w.x, FALSE, FALSE)>>)
    BY <2>2, ServerFields, PositionMade, DownShort
  <2> QED BY <2>1, <2>2, <2>3, OneFieldDone
<1>4. CASE ServerRespawns
  <2>1. PICK dim \in {0, 1}, keep \in BOOLEAN, rain \in BOOLEAN :
          Does(ComesBack(wserver, dim, rain), RespawnPackets(ComesBack(wserver, dim, rain), keep))
    BY <1>4 DEF ServerRespawns, ComesBack
  <2> DEFINE w == ComesBack(wserver, dim, rain)
  <2>2. w \in Servers /\ IsFiniteSet(DOMAIN w.entities)
    <3>1. IsBack(w, wserver)
      BY <1>1, ComesBackMade
    <3> QED BY <3>1 DEF IsBack
  <2> HIDE DEF w
  <2>3. DownOK(RespawnPackets(w, keep))
    BY <2>2, RespawnDown
  <2>4. Does(w, RespawnPackets(w, keep))
    BY <2>1 DEF w
  <2> QED BY <2>2, <2>3, <2>4, DoesSound
<1> QED BY <1>2, <1>3, <1>4

\* A packet from the client is received, or dropped.
LEMMA ReceivedSound ==
  ASSUME Typed, up # <<>>, up' = Tail(up), UNCHANGED <<habit, mailbox, server, world, task>>,
         wserver' \in Servers, IsFiniteSet(DOMAIN wserver'.entities), DownOK(down')
  PROVE  Typed'
<1>1. Sound'
  BY SoundKept DEF Typed
<1>2. UpOK(up)'
  BY UpPopped DEF Typed
<1>3. ServerOK' /\ MailboxOK'
  BY DEF Typed, ServerOK, EventsOK, MailboxOK
<1> QED BY <1>1, <1>2, <1>3 DEF Typed

\* What the server does with an answer, by its kind.
Passed(p, w) ==
    w.configuring \/ p.kind \notin {"keep_alive", "batch_received", "confirm"}
    \/ (p.kind = "confirm" /\ p.id # w.awaiting)
Received(p, w) ==
    \/ Passed(p, w) /\ wserver' = w /\ down' = down
    \/ /\ ~w.configuring /\ p.kind = "confirm" /\ p.id = w.awaiting /\ down' = down
       /\ wserver' = [w EXCEPT !.awaiting = None]
    \/ /\ ~w.configuring /\ p.kind = "move" /\ w.awaiting = None /\ down' = down
       /\ wserver' = [w EXCEPT !.x = p.x]
    \/ /\ ~w.configuring /\ p.kind = "keep_alive" /\ down' = down
       /\ wserver' = [w EXCEPT !.asked = @ \ {p.id}]
    \/ /\ ~w.configuring /\ p.kind = "batch_received" /\ down' = down
       /\ wserver' = [w EXCEPT !.batches = 0]
    \/ /\ ~w.configuring /\ p.kind = "perform_respawn"
       /\ wserver' = ComesBack(w, w.dim, w.rain)
       /\ down' = down \o RespawnPackets(ComesBack(w, w.dim, w.rain), FALSE)
LEMMA ReceivesByKind ==
  ASSUME wserver \in Servers, ServerReceives
  PROVE  /\ Received(Head(up), wserver) /\ up # <<>> /\ up' = Tail(up)
         /\ Head(up).kind \in WorldAnswers
         /\ UNCHANGED <<habit, mailbox, net, server, world, task>>
<1> DEFINE p == Head(up)
<1> DEFINE w == wserver
<1>1. up # <<>> /\ up' = Tail(up) /\ p.kind \in WorldAnswers
      /\ UNCHANGED <<habit, mailbox, net, server, world, task>>
  BY DEF ServerReceives
<1>2. CASE w.configuring
  <2>1. wserver' = w /\ down' = down
    BY <1>2 DEF ServerReceives
  <2> QED BY <1>1, <1>2, <2>1 DEF Received, Passed
<1>3. CASE ~w.configuring /\ p.kind = "confirm"
  <2>1. wserver' = (IF p.id = w.awaiting THEN [w EXCEPT !.awaiting = None] ELSE w) /\ down' = down
    BY <1>3 DEF ServerReceives
  <2> HIDE DEF p
  <2> QED BY <1>1, <1>3, <2>1 DEF Received, Passed, p
<1>4. CASE ~w.configuring /\ p.kind = "move"
  <2>1. wserver' = (IF w.awaiting = None THEN [w EXCEPT !.x = p.x] ELSE w) /\ down' = down
    BY <1>4 DEF ServerReceives
  <2> QED BY <1>1, <1>4, <2>1 DEF Received, Passed
<1>5. CASE ~w.configuring /\ p.kind = "keep_alive"
  <2>1. wserver' = [w EXCEPT !.asked = @ \ {p.id}] /\ down' = down
    BY <1>5 DEF ServerReceives
  <2> QED BY <1>1, <1>5, <2>1 DEF Received
<1>6. CASE ~w.configuring /\ p.kind = "batch_received"
  <2>1. wserver' = [w EXCEPT !.batches = 0] /\ down' = down
    BY <1>6 DEF ServerReceives
  <2> QED BY <1>1, <1>6, <2>1 DEF Received
<1>7. CASE ~w.configuring /\ p.kind = "player_loaded"
  <2>1. wserver' = w /\ down' = down
    BY <1>7 DEF ServerReceives
  <2> QED BY <1>1, <1>7, <2>1 DEF Received, Passed
<1>8. CASE ~w.configuring /\ p.kind = "perform_respawn"
  <2>1. CASE w.alive
    <3>1. wserver' = w /\ down' = down
      BY <1>8, <2>1 DEF ServerReceives
    <3> QED BY <1>1, <1>8, <3>1 DEF Received, Passed
  <2>2. CASE ~w.alive
    <3> DEFINE new == Teleported(NewStay(w, w.rain), 0)
    <3>1. wserver' = new /\ down' = down \o RespawnPackets(new, FALSE)
      BY <1>8, <2>2 DEF ServerReceives
    <3>2. [w EXCEPT !.dim = w.dim] = w
      BY DEF Servers
    <3>3. ComesBack(w, w.dim, w.rain) = new
      BY <3>2 DEF ComesBack
    <3> HIDE DEF new
    <3> QED BY <1>1, <1>8, <3>1, <3>3 DEF Received
  <2> QED BY <2>1, <2>2
<1> HIDE DEF p, w
<1>9. p.kind \in {"confirm", "move", "keep_alive", "batch_received", "player_loaded",
                  "perform_respawn"}
  BY <1>1 DEF WorldAnswers
<1> QED BY <1>2, <1>3, <1>4, <1>5, <1>6, <1>7, <1>8, <1>9

LEMMA ServerReceivesSound ==
  ASSUME Typed, ServerReceives
  PROVE  Typed'
<1> DEFINE p == Head(up)
<1> DEFINE w == wserver
<1>1. w \in Servers /\ IsFiniteSet(DOMAIN w.entities) /\ DownOK(down)
  BY DEF Typed, ServerOK
<1>2. /\ Received(p, w) /\ up # <<>> /\ up' = Tail(up)
      /\ UNCHANGED <<habit, mailbox, net, server, world, task>>
  BY <1>1, ReceivesByKind
<1>3. (p.kind = "move" => p.x \in Int) /\ (p.kind = "confirm" => p.id \in Nat)
  BY <1>2, AnswerOf DEF Typed
<1>4. wserver' \in Servers /\ IsFiniteSet(DOMAIN wserver'.entities) /\ DownOK(down')
  <2>1. CASE wserver' = w /\ down' = down
    BY <1>1, <2>1
  <2>2. CASE down' = down /\ wserver' = [w EXCEPT !.awaiting = None]
    BY <1>1, <2>2 DEF Servers
  <2>3. CASE p.kind = "move" /\ down' = down /\ wserver' = [w EXCEPT !.x = p.x]
    BY <1>1, <1>3, <2>3 DEF Servers
  <2>4. CASE down' = down /\ wserver' = [w EXCEPT !.asked = @ \ {p.id}]
    BY <1>1, <2>4 DEF Servers
  <2>5. CASE down' = down /\ wserver' = [w EXCEPT !.batches = 0]
    BY <1>1, <2>5 DEF Servers
  <2>6. CASE /\ wserver' = ComesBack(w, w.dim, w.rain)
             /\ down' = down \o RespawnPackets(ComesBack(w, w.dim, w.rain), FALSE)
    <3> DEFINE new == ComesBack(w, w.dim, w.rain)
    <3>1. new \in Servers /\ IsFiniteSet(DOMAIN new.entities)
      <4>1. IsBack(new, w)
        BY <1>1, ServerFields, ComesBackMade
      <4> QED BY <4>1 DEF IsBack
    <3> HIDE DEF new
    <3>2. DownOK(RespawnPackets(new, FALSE))
      BY <3>1, RespawnDown
    <3>3. wserver' = new /\ down' = down \o RespawnPackets(new, FALSE)
      BY <2>6 DEF new
    <3> QED BY <1>1, <3>1, <3>2, <3>3, DownPushed
  <2> QED BY <1>2, <2>1, <2>2, <2>3, <2>4, <2>5, <2>6 DEF Received
<1> HIDE DEF p, w
<1> QED BY <1>2, <1>4, ReceivedSound DEF w

\* A new login: what the server says, and its world.
IsLogin(packets, w) ==
    \E login, position, rest :
      /\ packets = <<login, position>> \o rest /\ UpdatesOnly(rest)
      /\ login \in WorldPackets /\ login.kind = "login" /\ login.stay = w.stay
      /\ position \in WorldPackets /\ position.kind = "position"
      /\ position.id = w.teleport /\ position.serial = w.sent
LEMMA RelogsEffect ==
  ASSUME Typed, ServerRelogs
  PROVE  /\ up # <<>> /\ Head(up).kind = "configuration_acknowledged" /\ up' = Tail(up)
         /\ UNCHANGED <<habit, mailbox, net, server, world, task>>
         /\ IsNewLogin(wserver', wserver)
         /\ \E packets : down' = down \o packets /\ IsLogin(packets, wserver')
<1>1. up # <<>> /\ Head(up).kind = "configuration_acknowledged" /\ up' = Tail(up)
      /\ UNCHANGED <<habit, mailbox, net, server, world, task>>
  BY DEF ServerRelogs
<1>2. PICK own \in Ids :
        LET w == NewLogin(wserver, own)
        IN /\ wserver' = w
           /\ down' = down \o <<[kind |-> "login", own |-> own, dim |-> 0, mode |-> 0,
                                  stay |-> w.stay],
                                 PositionPacket(w, 0, FALSE, FALSE),
                                 Content(server.inv.player)>>
  BY SessionAssumption DEF ServerRelogs, NewLogin
<1> DEFINE w == NewLogin(wserver, own)
<1> DEFINE login == [kind |-> "login", own |-> own, dim |-> 0, mode |-> 0, stay |-> w.stay]
<1> DEFINE position == PositionPacket(w, 0, FALSE, FALSE)
<1> DEFINE content == Content(server.inv.player)
<1>3. IsNewLogin(w, wserver)
  BY LoginMade DEF Typed, ServerOK
<1>4. wserver' = w /\ down' = down \o <<login, position, content>>
  BY <1>2
<1> HIDE DEF w
<1>5. w \in Servers
  BY <1>3 DEF IsNewLogin
<1>6. login \in WorldPackets /\ login.kind = "login" /\ login.stay = w.stay
  <2>1. login \in [kind : {"login"}, own : Ids, dim : Int, mode : Int, stay : Nat]
    BY <1>5, ServerFields
  <2> QED BY <2>1 DEF WorldPackets
<1>7. /\ position \in WorldPackets /\ position.kind = "position"
      /\ position.id = w.teleport /\ position.serial = w.sent
  BY <1>5, 0 \in Int, FALSE \in BOOLEAN, PositionMade, Zenon
<1>8. UpdatesOnly(<<content>>)
  BY ContentUpdate
<1> HIDE DEF login, position, content
<1>9. <<login, position, content>> = <<login, position>> \o <<content>>
  OBVIOUS
<1>10. IsLogin(<<login, position, content>>, w)
  BY <1>6, <1>7, <1>8, <1>9 DEF IsLogin
<1> QED BY <1>1, <1>3, <1>4, <1>10

-----------------------------------------------------------------------------
\* What the client's steps do to the channels, to the task and to the end of the
\* session.

Calm == UNCHANGED <<habit, mailbox, server, wserver>> /\ Running
KeepsSim ==
    task'.sim = None \/ (task.sim # None /\ task'.sim.after = task.sim.after)
KeepsTask ==
    KeepsSim /\ task'.configuring = task.configuring /\ task'.requested = task.requested
Reading(out) == down # <<>> /\ down' = Tail(down) /\ up' = up \o out
Told1(out) == UpOK(out) /\ NoneOf("confirm", out) /\ NoneOf("configuration_acknowledged", out)
Says(out) == Told1(out) /\ NoneOf("move", out)
Asking == {"position", "keep_alive", "batch_finished", "health", "start_configuration", "login"}

AsksNothing ==
    Reading(<<>>) /\ KeepsTask /\ ~task.configuring /\ Frame.kind \notin Asking
Decoded ==
    /\ down' = down /\ up' = up \o <<>> /\ KeepsTask /\ task.decode # None
    /\ task'.decode \in {None, task.decode}
Moves ==
    /\ down' = down /\ ~task.configuring /\ KeepsTask /\ task'.decode = task.decode
    /\ task.sim # None
    /\ \E m \in Answers : m.kind = "move" /\ m.after = task.sim.after /\ up' = up \o <<m>>
TurnedDown ==
    /\ Reading(<<>>) /\ ~task.configuring /\ Frame.kind = "position" /\ ~Running'
    /\ UNCHANGED task
Confirms ==
    /\ ~task.configuring /\ Frame.kind = "position"
    /\ Reading(<<[kind |-> "confirm", id |-> Frame.id]>>)
    /\ task'.configuring = task.configuring /\ task'.requested = task.requested
    /\ task'.sim = None \/ task'.sim.after = Frame.serial
Echoes ==
    ~task.configuring /\ Frame.kind = "keep_alive" /\ Reading(<<Frame>>) /\ UNCHANGED task
Acknowledges ==
    /\ ~task.configuring /\ Frame.kind = "batch_finished" /\ KeepsTask
    /\ \E out : Says(out) /\ Has(out, "batch_received") /\ Reading(out)
AsksBack ==
    /\ ~task.configuring /\ Frame.kind = "health" /\ KeepsSim
    /\ task'.configuring = task.configuring
    /\ WorldMode => task'.requested
    /\ task.requested => task'.requested
    /\ \E out : Says(out) /\ Reading(out)
Leaves ==
    /\ ~task.configuring /\ Frame.kind = "start_configuration"
    /\ Reading(<<[kind |-> "configuration_acknowledged"]>>)
    /\ KeepsSim /\ task'.configuring /\ task'.requested = task.requested
    /\ task.decode = None /\ task'.decode = None
Arrives ==
    /\ task.configuring /\ Frame.kind = "login" /\ Reading(<<>>)
    /\ task'.sim = None /\ ~task'.configuring /\ task'.requested = task.requested
ClientEffect ==
    /\ Calm
    /\ \/ AsksNothing \/ Decoded \/ Moves \/ TurnedDown \/ Confirms \/ Echoes \/ Acknowledges
       \/ AsksBack \/ Leaves \/ Arrives

LEMMA UpShort ==
  /\ UpOK(<<>>)
  /\ \A p \in Answers : UpOK(<<p>>)
  /\ \A p, q \in Answers : UpOK(<<p, q>>)
<1>1. UpOK(<<>>)
  BY Short DEF UpOK
<1>2. ASSUME NEW p \in Answers PROVE UpOK(<<p>>)
  BY Short DEF UpOK
<1>3. ASSUME NEW p \in Answers, NEW q \in Answers PROVE UpOK(<<p, q>>)
  BY Short DEF UpOK
<1> QED BY <1>1, <1>2, <1>3

Plain(p) == p \in Answers /\ p.kind \notin {"confirm", "move", "configuration_acknowledged"}
LEMMA SaysShort ==
  /\ Says(<<>>)
  /\ \A p : Plain(p) => Says(<<p>>)
  /\ \A p, q : Plain(p) /\ Plain(q) => Says(<<p, q>>)
<1>1. Says(<<>>)
  BY Short, UpShort DEF Says, Told1, NoneOf
<1>2. ASSUME NEW p, Plain(p) PROVE Says(<<p>>)
  BY <1>2, Short, UpShort DEF Says, Told1, NoneOf, Plain
<1>3. ASSUME NEW p, NEW q, Plain(p), Plain(q) PROVE Says(<<p, q>>)
  BY <1>3, Short, UpShort DEF Says, Told1, NoneOf, Plain
<1> QED BY <1>1, <1>2, <1>3

LEMMA TaskUnchanged ==
  ASSUME UNCHANGED task
  PROVE  KeepsTask
BY DEF KeepsTask, KeepsSim

LEMMA QuietFrames ==
  ASSUME Typed, \/ ReadEntity \/ ReadChunk \/ ReadChunkUpdate \/ ReadSetting
                \/ ReadRespawn \/ ReadRotation
  PROVE  Calm /\ AsksNothing
<1>1. /\ down # <<>> /\ down' = Tail(down) /\ up' = up \o <<>> /\ Calm /\ ~task.configuring
      /\ Frame.kind \notin Asking
  <2>1. CASE ReadEntity
    BY <2>1 DEF ReadEntity, Took, WithoutInventory, Reads, MayRead, Frame, Answer, Calm, Asking,
       EntityKinds
  <2>2. CASE ReadChunk
    BY <2>2 DEF ReadChunk, Took, WithoutInventory, Reads, MayRead, Frame, Answer, Calm, Asking
  <2>3. CASE ReadChunkUpdate
    BY <2>3 DEF ReadChunkUpdate, Took, WithoutInventory, Reads, MayRead, Frame, Answer, Calm,
       Asking
  <2>4. CASE ReadSetting
    BY <2>4 DEF ReadSetting, Took, WithoutInventory, Reads, MayRead, Frame, Answer, Calm, Asking
  <2>5. CASE ReadRespawn
    BY <2>5 DEF ReadRespawn, Took, WithoutInventory, Reads, MayRead, Frame, Answer, Calm, Asking
  <2>6. CASE ReadRotation
    BY <2>6 DEF ReadRotation, Took, WithoutInventory, Reads, MayRead, Frame, Answer, Calm, Asking
  <2> QED BY <2>1, <2>2, <2>3, <2>4, <2>5, <2>6
<1>2. task \in Tasks
  BY DEF Typed, Sound, ClientOK
<1>3. KeepsTask
  <2>1. CASE ReadEntity
    <3>1. UNCHANGED task \/ task' = Pushed(task, Frame)
      BY <2>1 DEF ReadEntity, Goes, Ends, EntityKinds, Reads, Frame
    <3>2. CASE task' = Pushed(task, Frame)
      <4>1. CASE UNCHANGED task
        BY <4>1, TaskUnchanged
      <4>2. CASE task.sim # None /\ task' = [task EXCEPT !.sim.v = Frame.v]
        <5> DEFINE sim == [task.sim EXCEPT !.v = Frame.v]
        <5>1. task.sim \in Simulations
          BY <1>2, <4>2 DEF Tasks
        <5>2. sim = [x |-> task.sim.x, v |-> Frame.v, after |-> task.sim.after,
                     told |-> task.sim.told]
          BY <5>1 DEF Simulations
        <5>3. task'.sim = sim /\ task'.configuring = task.configuring
              /\ task'.requested = task.requested
          BY <1>2, <4>2 DEF Tasks
        <5> QED BY <4>2, <5>2, <5>3 DEF KeepsTask, KeepsSim
      <4> QED BY <3>2, <4>1, <4>2 DEF Pushed
    <3> QED BY <3>1, <3>2, TaskUnchanged
  <2>2. CASE ReadChunk
    <3>1. task' = [task EXCEPT !.decode = Frame]
      BY <2>2 DEF ReadChunk, Goes
    <3> QED BY <1>2, <3>1 DEF KeepsTask, KeepsSim, Tasks
  <2>3. CASE ReadChunkUpdate
    BY <2>3, TaskUnchanged DEF ReadChunkUpdate, Goes, Ends, Reads, Frame
  <2>4. CASE ReadSetting
    BY <2>4, TaskUnchanged DEF ReadSetting, Goes, Ends
  <2>5. CASE ReadRespawn
    <3>1. UNCHANGED task \/ task' = [task EXCEPT !.sim = None, !.controller = world.own]
      BY <2>5 DEF ReadRespawn, Goes, Ends, Reset
    <3>2. CASE task' = [task EXCEPT !.sim = None, !.controller = world.own]
      BY <1>2, <3>2 DEF KeepsTask, KeepsSim, Tasks
    <3> QED BY <3>1, <3>2, TaskUnchanged
  <2>6. CASE ReadRotation
    BY <2>6, TaskUnchanged DEF ReadRotation, Goes, Ends
  <2> QED BY <2>1, <2>2, <2>3, <2>4, <2>5, <2>6
<1> QED BY <1>1, <1>3 DEF AsksNothing, Reading

LEMMA Pair ==
  ASSUME NEW a, NEW b
  PROVE  <<a>> \o <<b>> = <<a, b>>
<1> DEFINE R == {a, b}
<1>1. <<a>> \in Seq(R) /\ <<b>> \in Seq(R) /\ <<a, b>> \in Seq(R) /\ Len(<<a, b>>) = 2
  OBVIOUS
<1> HIDE DEF R
<1>2. <<a>> \o <<b>> \in Seq(R) /\ Len(<<a>> \o <<b>>) = 2
  BY <1>1
<1>3. \A i \in 1 .. 2 : (<<a>> \o <<b>>)[i] = <<a, b>>[i]
  BY <1>1
<1> QED BY <1>1, <1>2, <1>3, SeqEqual

LEMMA OtherFrames ==
  ASSUME Typed, ReadPosition \/ ReadKeepAlive \/ ReadBatchFinished \/ ReadHealth
  PROVE  ClientEffect
<1>1. task \in Tasks /\ (task.sim # None => WorldMode) /\ DownOK(down)
  BY DEF Typed, Sound, ClientOK
<1>2. CASE ReadPosition
  <2>1. down # <<>> /\ down' = Tail(down) /\ Calm /\ ~task.configuring /\ Frame.kind = "position"
    BY <1>2 DEF ReadPosition, Took, WithoutInventory, Reads, MayRead, Frame, Calm
  <2>2. CASE Refusal(Frame) # "none"
    <3>1. Ends(Refusal(Frame)) /\ up' = up \o <<>>
      BY <1>2, <2>2 DEF ReadPosition, Answer
    <3>2. net' = [net EXCEPT !.ended = [kind |-> Refusal(Frame), id |-> 0]]
          /\ UNCHANGED task
      BY <3>1 DEF Ends
    <3>3. Refusal(Frame) \in {"baseline", "lifecycle", "stale"}
      <4>1. Refusal(Frame) \in {"baseline", "lifecycle", "stale", "none"}
        BY Zenon DEF Refusal
      <4> QED BY <2>2, <4>1
    <3>4. [kind |-> Refusal(Frame), id |-> 0] # None
      BY <3>3, SessionAssumption DEF Endings
    <3>5. ~Running'
      BY <3>2, <3>4, <1>2 DEF Running
    <3> QED BY <2>1, <3>1, <3>2, <3>5 DEF ClientEffect, TurnedDown, Reading
  <2>3. CASE Refusal(Frame) = "none"
    <3> DEFINE x == Target(Frame)
    <3>1. /\ task' = IF WorldMode THEN [task EXCEPT !.sim = Reconciled(task.sim, Frame, x)]
                     ELSE task
          /\ up' = up \o <<[kind |-> "confirm", id |-> Frame.id]>>
      BY <1>2, <2>3 DEF ReadPosition, Goes, Answer, Confirmation
    <3>2. task'.configuring = task.configuring /\ task'.requested = task.requested
          /\ (task'.sim = None \/ task'.sim.after = Frame.serial)
      BY <1>1, <3>1 DEF Tasks, Reconciled
    <3> QED BY <2>1, <3>1, <3>2 DEF ClientEffect, Confirms, Reading
  <2> QED BY <2>2, <2>3
<1>3. CASE ReadKeepAlive
  BY <1>3 DEF ReadKeepAlive, Took, WithoutInventory, Reads, MayRead, Frame, Calm, Goes, Answer,
              ClientEffect, Echoes, Reading
<1>4. CASE ReadBatchFinished
  <2> DEFINE p == [kind |-> "batch_received"]
  <2> DEFINE q == [kind |-> "player_loaded"]
  <2> DEFINE out == <<p>> \o (IF task.loaded THEN <<>> ELSE <<q>>)
  <2>1. down # <<>> /\ down' = Tail(down) /\ Calm /\ ~task.configuring
        /\ Frame.kind = "batch_finished" /\ task' = [task EXCEPT !.loaded = TRUE]
        /\ up' = up \o out
    BY <1>4 DEF ReadBatchFinished, Took, WithoutInventory, Reads, MayRead, Frame, Calm, Goes,
                Answer
  <2>2. KeepsTask
    BY <1>1, <2>1 DEF KeepsTask, KeepsSim, Tasks
  <2>3. out = <<p>> \/ out = <<p, q>>
    <3> HIDE DEF p, q
    <3>1. <<p>> \o <<>> = <<p>>
      BY NothingSaid, Short
    <3> QED BY <3>1, Pair
  <2>4. Plain(p) /\ p.kind = "batch_received"
    BY DEF Answers, Plain
  <2>5. Plain(q)
    BY DEF Answers, Plain
  <2> HIDE DEF p, q, out
  <2>6. Says(out) /\ Has(out, "batch_received")
    <3>1. CASE out = <<p>>
      BY <2>4, <3>1, SaysShort, Short DEF Has
    <3>2. CASE out = <<p, q>>
      BY <2>4, <2>5, <3>2, SaysShort, Short DEF Has
    <3> QED BY <2>3, <3>1, <3>2
  <2> QED BY <2>1, <2>2, <2>6 DEF ClientEffect, Acknowledges, Reading
<1>5. CASE ReadHealth
  <2> DEFINE p == [kind |-> "perform_respawn"]
  <2>1. down # <<>> /\ down' = Tail(down) /\ Calm /\ ~task.configuring /\ Frame.kind = "health"
    BY <1>5 DEF ReadHealth, Took, WithoutInventory, Reads, MayRead, Frame, Calm
  <2>2. Plain(p)
    BY DEF Answers, Plain
  <2>3. CASE WorldMode /\ ~task.requested
    <3>1. task' = [task EXCEPT !.requested = TRUE] /\ up' = up \o <<p>>
      BY <1>5, <2>3 DEF ReadHealth, Goes, Answer
    <3> HIDE DEF p
    <3>2. KeepsSim /\ task'.configuring = task.configuring /\ task'.requested
      BY <1>1, <3>1 DEF KeepsSim, Tasks
    <3>3. Says(<<p>>)
      BY <2>2, SaysShort
    <3> QED BY <2>1, <3>1, <3>2, <3>3 DEF ClientEffect, AsksBack, Reading
  <2>4. CASE ~(WorldMode /\ ~task.requested)
    <3>1. task' = task /\ up' = up \o <<>>
      BY <1>5, <2>4 DEF ReadHealth, Goes, Answer
    <3>2. /\ KeepsSim /\ task'.configuring = task.configuring
          /\ WorldMode => task'.requested
          /\ task.requested => task'.requested
      BY <2>4, <3>1 DEF KeepsSim
    <3> QED BY <2>1, <3>1, <3>2, SaysShort DEF ClientEffect, AsksBack, Reading
  <2> QED BY <2>3, <2>4
<1> QED BY <1>2, <1>3, <1>4, <1>5

LEMMA OtherSteps ==
  ASSUME Typed, FinishDecode \/ ReadStartConfiguration \/ FinishConfiguration \/ Walk \/ ForcedPosition
  PROVE  ClientEffect
<1>1. task \in Tasks /\ IsSeq(up)
  BY DEF Typed, Sound, ClientOK, UpOK
<1>2. CASE FinishDecode
  <2>1. Calm /\ down' = down /\ up' = up /\ task.decode # None
    BY <1>2 DEF FinishDecode, WithoutInventory, Calm
  <2>2. task' = task \/ task' = [task EXCEPT !.decode = None]
    BY <1>2 DEF FinishDecode, Goes, Ends
  <2>3. KeepsTask /\ task'.decode \in {None, task.decode}
    BY <1>1, <2>2 DEF KeepsTask, KeepsSim, Tasks
  <2>4. up' = up \o <<>>
    BY <1>1, <2>1, NothingSaid
  <2> QED BY <2>1, <2>3, <2>4 DEF ClientEffect, Decoded
<1>3. CASE ReadStartConfiguration
  <2>1. /\ down # <<>> /\ down' = Tail(down) /\ Calm /\ ~task.configuring
        /\ Frame.kind = "start_configuration" /\ task.decode = None
        /\ up' = up \o <<[kind |-> "configuration_acknowledged"]>>
        /\ task' = [task EXCEPT !.configuring = TRUE]
    BY <1>3 DEF ReadStartConfiguration, Took, WithoutInventory, Reads, MayRead, Frame, Calm,
                Goes, Answer
  <2>2. KeepsSim /\ task'.configuring /\ task'.requested = task.requested
        /\ task'.decode = task.decode
    BY <1>1, <2>1 DEF KeepsSim, Tasks
  <2> QED BY <2>1, <2>2 DEF ClientEffect, Leaves, Reading
<1>4. CASE FinishConfiguration
  <2>1. /\ down # <<>> /\ down' = Tail(down) /\ Calm /\ task.configuring /\ Frame.kind = "login"
        /\ up' = up \o <<>>
        /\ task' = [[task EXCEPT !.configuring = FALSE] EXCEPT !.sim = None,
                                                              !.controller = Frame.own]
    BY <1>4 DEF FinishConfiguration, Took, WithoutInventory, Calm, Goes, Answer, Reset
  <2>2. task'.sim = None /\ ~task'.configuring /\ task'.requested = task.requested
    BY <1>1, <2>1 DEF Tasks
  <2> QED BY <2>1, <2>2 DEF ClientEffect, Arrives, Reading
<1>5. CASE Walk
  <2>1. PICK x \in Places :
          /\ task' = [task EXCEPT !.sim.x = x, !.sim.told = TRUE]
          /\ up' = up \o <<[kind |-> "move", x |-> x, after |-> task.sim.after]>>
    BY <1>5 DEF Walk, Goes, Answer
  <2>2. Calm /\ down' = down /\ ~task.configuring /\ task.sim # None /\ x \in Int
    <3>1. x \in Int
      BY SessionAssumption DEF Places
    <3>2. Calm /\ down' = down /\ ~task.configuring /\ task.sim # None
      BY <1>5 DEF Walk, WithoutInventory, Calm
    <3> QED BY <3>1, <3>2
  <2>3. task.sim \in Simulations
    BY <1>1, <2>2 DEF Tasks
  <2>4. KeepsTask /\ task'.decode = task.decode
    BY <1>1, <2>1, <2>2, <2>3 DEF KeepsTask, KeepsSim, Tasks, Simulations
  <2> DEFINE m == [kind |-> "move", x |-> x, after |-> task.sim.after]
  <2>5. m \in Answers /\ m.kind = "move" /\ m.after = task.sim.after
    BY <2>2, <2>3 DEF Answers, Simulations
  <2> QED BY <2>1, <2>2, <2>4, <2>5 DEF ClientEffect, Moves
<1>6. CASE ForcedPosition
  <2>1. /\ task' = [task EXCEPT !.sim.told = TRUE]
        /\ up' = up \o <<[kind |-> "move", x |-> task.sim.x, after |-> task.sim.after]>>
    BY <1>6 DEF ForcedPosition, Goes, Answer
  <2>2. Calm /\ down' = down /\ ~task.configuring /\ task.sim # None
    BY <1>6 DEF ForcedPosition, WithoutInventory, Calm
  <2>3. task.sim \in Simulations
    BY <1>1, <2>2 DEF Tasks
  <2>4. KeepsTask /\ task'.decode = task.decode
    BY <1>1, <2>1, <2>2, <2>3 DEF KeepsTask, KeepsSim, Tasks, Simulations
  <2> DEFINE m == [kind |-> "move", x |-> task.sim.x, after |-> task.sim.after]
  <2>5. m \in Answers /\ m.kind = "move" /\ m.after = task.sim.after
    BY <2>3 DEF Answers, Simulations
  <2> QED BY <2>1, <2>2, <2>4, <2>5 DEF ClientEffect, Moves
<1> QED BY <1>2, <1>3, <1>4, <1>5, <1>6

LEMMA WorldClientEffect ==
  ASSUME Typed, WorldClient
  PROVE  ClientEffect
<1>1. CASE ReadEntity \/ ReadChunk \/ ReadChunkUpdate \/ ReadSetting \/ ReadRespawn \/ ReadRotation
  BY <1>1, QuietFrames DEF ClientEffect
<1> QED BY <1>1, OtherFrames, OtherSteps DEF WorldClient

LEMMA WorldClientTyped ==
  ASSUME Typed, WorldClient
  PROVE  Typed'
<1>1. ClientEffect /\ Sound'
  BY WorldClientEffect, WorldClientSound DEF Typed
<1>2. ServerOK' /\ MailboxOK'
  BY <1>1 DEF ClientEffect, Calm, Typed, ServerOK, EventsOK, MailboxOK
<1>3. UpOK(up) /\ DownOK(down)
  BY DEF Typed
<1>4. DownOK(down)'
  <2>1. down' = down \/ (down # <<>> /\ down' = Tail(down))
    BY <1>1 DEF ClientEffect, AsksNothing, Decoded, Moves, TurnedDown, Confirms, Echoes,
                Acknowledges, AsksBack, Leaves, Arrives, Reading
  <2> QED BY <1>3, <2>1, DownPopped
<1>5. UpOK(up)'
  <2>1. \E out : UpOK(out) /\ up' = up \o out
    <3>1. CASE AsksNothing \/ TurnedDown \/ Arrives \/ Decoded
      BY <3>1, UpShort DEF AsksNothing, TurnedDown, Arrives, Decoded, Reading
    <3>2. CASE Moves
      BY <3>2, UpShort DEF Moves
    <3>3. CASE Confirms
      <4>1. Frame.id \in Nat
        BY <1>3, <3>3, FrameWorld DEF Confirms, Reading
      <4>2. [kind |-> "confirm", id |-> Frame.id] \in Answers
        BY <4>1 DEF Answers
      <4> QED BY <3>3, <4>2, UpShort DEF Confirms, Reading
    <3>4. CASE Echoes
      <4>1. Frame \in [kind : {"keep_alive"}, id : Nat]
        BY <1>3, <3>4, FrameWorld DEF Echoes, Reading
      <4>2. Frame \in Answers
        BY <4>1 DEF Answers
      <4> QED BY <3>4, <4>2, UpShort DEF Echoes, Reading
    <3>5. CASE Acknowledges \/ AsksBack
      BY <3>5 DEF Acknowledges, AsksBack, Reading, Says, Told1
    <3>6. CASE Leaves
      <4>1. [kind |-> "configuration_acknowledged"] \in Answers
        BY DEF Answers
      <4> QED BY <3>6, <4>1, UpShort DEF Leaves, Reading
    <3> QED BY <1>1, <3>1, <3>2, <3>3, <3>4, <3>5, <3>6 DEF ClientEffect
  <2> QED BY <1>3, <2>1, UpPushed
<1> QED BY <1>1, <1>2, <1>4, <1>5 DEF Typed

LEMMA UpdatesDown ==
  ASSUME NEW packets, UpdatesOnly(packets)
  PROVE  DownOK(packets)
BY DEF UpdatesOnly, DownOK

LEMMA LoginDown ==
  ASSUME NEW packets, NEW w, IsLogin(packets, w)
  PROVE  DownOK(packets)
<1>1. PICK login, position, rest :
        /\ packets = <<login, position>> \o rest /\ UpdatesOnly(rest)
        /\ login \in WorldPackets /\ position \in WorldPackets
  BY DEF IsLogin
<1>2. DownOK(<<login, position>>)
  BY <1>1, DownShort
<1> QED BY <1>1, <1>2, UpdatesDown, DownPushed

\* The server asks for a reconfiguration: nothing of the old login is awaited any more.
LEMMA ReconfiguresEffect ==
  ASSUME wserver \in Servers, ServerReconfigures
  PROVE  /\ wserver' \in Servers /\ wserver'.entities = wserver.entities
         /\ wserver'.configuring /\ wserver'.awaiting = None /\ wserver'.asked = {}
         /\ wserver'.batches = 0 /\ wserver'.teleport = wserver.teleport
         /\ wserver'.sent = wserver.sent /\ wserver'.stay = wserver.stay
         /\ wserver'.chunks = wserver.chunks /\ wserver'.alive = wserver.alive
         /\ wserver'.x = wserver.x
<1> DEFINE w1 == [wserver EXCEPT !.configuring = TRUE]
<1> DEFINE w2 == [w1 EXCEPT !.awaiting = None]
<1> DEFINE w3 == [w2 EXCEPT !.asked = {}]
<1> DEFINE w4 == [w3 EXCEPT !.batches = 0]
<1> DEFINE Rest(w) == w.teleport = wserver.teleport /\ w.sent = wserver.sent
                      /\ w.stay = wserver.stay /\ w.chunks = wserver.chunks
                      /\ w.alive = wserver.alive /\ w.x = wserver.x
                      /\ w.entities = wserver.entities
<1>1. wserver' = w4
  BY DEF ServerReconfigures
<1>2. w1 \in Servers /\ Rest(w1) /\ w1.configuring
  BY DEF Servers
<1>3. w2 \in Servers /\ Rest(w2) /\ w2.configuring /\ w2.awaiting = None
  <2> HIDE DEF w1
  <2> QED BY <1>2 DEF Servers
<1>4. w3 \in Servers /\ Rest(w3) /\ w3.configuring /\ w3.awaiting = None /\ w3.asked = {}
  <2> HIDE DEF w2
  <2> QED BY <1>3 DEF Servers
<1>5. w4 \in Servers /\ Rest(w4) /\ w4.configuring /\ w4.awaiting = None /\ w4.asked = {}
      /\ w4.batches = 0
  <2> HIDE DEF w3
  <2> QED BY <1>4 DEF Servers
<1> HIDE DEF w4
<1> QED BY <1>1, <1>5

LEMMA ReconfiguresSound ==
  ASSUME Typed, ServerReconfigures
  PROVE  Typed'
<1> DEFINE p == [kind |-> "start_configuration"]
<1>1. wserver \in Servers /\ IsFiniteSet(DOMAIN wserver.entities) /\ EventsOK /\ DownOK(down)
  BY DEF Typed, ServerOK
<1>2. /\ down' = Append(down, p) /\ UNCHANGED <<habit, mailbox, net, up, world, task>>
      /\ server' = [server EXCEPT !.events = @ + 1, !.inv = Rejoined(@)]
  BY DEF ServerReconfigures
<1>3. down' = down \o <<p>>
  <2>1. IsSeq(down)
    BY <1>1 DEF DownOK
  <2> DEFINE R == Range(down)
  <2>2. down \in Seq(R)
    BY <2>1 DEF IsSeq
  <2> HIDE DEF R, p
  <2> QED BY <1>2, <2>2
<1>4. p \in WorldPackets
  BY DEF WorldPackets
<1> HIDE DEF p
<1>5. DownOK(down)'
  BY <1>1, <1>3, <1>4, DownShort, DownPushed
<1>6. EventsOK'
  BY <1>1, <1>2 DEF EventsOK
<1>7. ServerOK'
  BY <1>1, <1>6, ReconfiguresEffect DEF ServerOK
<1>8. Sound'
  BY <1>2, SoundKept DEF Typed
<1>9. UpOK(up)' /\ MailboxOK'
  BY <1>2 DEF Typed, MailboxOK
<1> QED BY <1>5, <1>7, <1>8, <1>9 DEF Typed

LEMMA WorldServerTyped ==
  ASSUME Typed, WorldServer
  PROVE  Typed'
<1>1. CASE ServerRelogs
  <2>1. /\ up # <<>> /\ up' = Tail(up) /\ UNCHANGED <<habit, mailbox, net, server, world, task>>
        /\ IsNewLogin(wserver', wserver)
    BY <1>1, RelogsEffect
  <2>2. PICK packets : down' = down \o packets /\ IsLogin(packets, wserver')
    BY <1>1, RelogsEffect
  <2>3. DownOK(packets) /\ DownOK(down)
    BY <2>2, LoginDown DEF Typed
  <2>4. DownOK(down')
    BY <2>2, <2>3, DownPushed
  <2>5. wserver' \in Servers /\ IsFiniteSet(DOMAIN wserver'.entities)
    BY <2>1 DEF IsNewLogin
  <2> QED BY <2>1, <2>4, <2>5, ReceivedSound
<1>2. CASE ServerDiscards
  <2>1. up # <<>> /\ up' = Tail(up)
        /\ UNCHANGED <<habit, mailbox, net, down, server, world, task, wserver>>
    BY <1>2 DEF ServerDiscards
  <2>2. wserver' \in Servers /\ IsFiniteSet(DOMAIN wserver'.entities) /\ DownOK(down')
    BY <2>1 DEF Typed, ServerOK
  <2> QED BY <2>1, <2>2, ReceivedSound
<1> QED
  BY <1>1, <1>2, ServerEntitiesSound, ServerChunksSound, ServerSettingsSound,
     ServerPositionsSound, ServerReceivesSound, ReconfiguresSound DEF WorldServer

LEMMA InventoryTyped ==
  ASSUME Typed, InventoryStep
  PROVE  Typed'
<1>1. InventoryEffect
  BY InventoryStepEffect DEF Typed, ServerOK
<1>2. Sound'
  BY <1>1, SoundKept DEF Typed, InventoryEffect
<1>3. ServerOK' /\ MailboxOK'
  BY <1>1 DEF Typed, ServerOK, InventoryEffect
<1>4. UpOK(up) /\ DownOK(down)
  BY DEF Typed
<1>5. UpOK(up)'
  <2>1. \/ up' = up
        \/ up # <<>> /\ up' = Tail(up)
        \/ \E out : SentOnly(out) /\ up' = up \o out
    BY <1>1 DEF InventoryEffect
  <2>2. ASSUME NEW out, SentOnly(out) PROVE UpOK(out)
    BY <2>2 DEF SentOnly, UpOK
  <2> QED BY <1>4, <2>1, <2>2, UpPopped, UpPushed
<1>6. DownOK(down)'
  <2>1. \/ down' = down
        \/ down # <<>> /\ down' = Tail(down)
        \/ \E out : UpdatesOnly(out) /\ down' = down \o out
    BY <1>1 DEF InventoryEffect, Reads
  <2> QED BY <1>4, <2>1, DownPopped, DownPushed, UpdatesDown
<1> QED BY <1>2, <1>3, <1>5, <1>6 DEF Typed

LEMMA StutterTyped ==
  ASSUME Typed, UNCHANGED vars
  PROVE  Typed'
<1>1. UNCHANGED <<habit, mailbox, up, down, server, world, task, wserver>>
  BY DEF vars
<1>2. Sound'
  BY <1>1, SoundKept DEF Typed
<1> QED BY <1>1, <1>2 DEF Typed, ServerOK, EventsOK, MailboxOK

\* Whatever happens, packets, world, store and task keep their shapes.
LEMMA TypedStep ==
  ASSUME Typed, [Next]_vars
  PROVE  Typed'
BY InventoryTyped, WorldClientTyped, WorldServerTyped, StutterTyped DEF Next

LEMMA TypedInit ==
  ASSUME Init
  PROVE  Typed
<1> DEFINE none == [i \in {} |-> 0]
<1>1. Settled /\ mailbox = <<>> /\ up = <<>> /\ down = <<>> /\ "events" \in DOMAIN server
      /\ server.events \in Nat
  BY DEF Init, InventoryInit
<1>2. UpOK(up) /\ DownOK(down) /\ MailboxOK /\ EventsOK
  BY <1>1, Short, UpShort DEF DownOK, MailboxOK, EventsOK
<1>3. First \in Ids /\ First # None
  BY SessionAssumption
<1>4. StoreSound(NoEntities) /\ NoEntities \in Stores
  <2>1. none \in [{} -> Handles] /\ DOMAIN none = {}
    OBVIOUS
  <2>2. <<>> \in Seq(Slots1) /\ <<>> \in Seq(Nat) /\ DOMAIN <<>> = {}
    BY Short
  <2>3. NoEntities = [slots |-> <<>>, byId |-> none, free |-> <<>>]
    BY DEF NoEntities
  <2> HIDE DEF none
  <2>4. NoEntities \in Stores
    BY <2>1, <2>2, <2>3, StoreMade
  <2>5. DOMAIN NoEntities.byId = {} /\ DOMAIN NoEntities.free = {} /\ DOMAIN NoEntities.slots = {}
    BY <2>1, <2>2, <2>3
  <2> QED BY <2>4, <2>5 DEF StoreSound
<1>5. Sound
  <2>1. [c \in Coordinates |-> None] \in [Coordinates -> Chunks \cup {None}]
    OBVIOUS
  <2>2. world \in Worlds /\ world.active = TRUE /\ world.own = First /\ world.store = NoEntities
    BY <1>1, <1>3, <1>4, <2>1 DEF Settled, Worlds
  <2>3. task \in Tasks /\ (task.sim # None => WorldMode)
    BY <1>1, <1>3 DEF Settled, Tasks, Simulations, NoPush
  <2> QED BY <1>3, <1>4, <2>2, <2>3 DEF Sound, ClientOK
<1>6. ServerOK
  <2>1. none \in EntityMaps /\ DOMAIN none = {}
    <3>1. none \in [{} -> Entities] /\ {} \in SUBSET Ids
      OBVIOUS
    <3> QED BY <3>1 DEF EntityMaps
  <2>2. wserver = [own |-> First, dim |-> 0, mode |-> 0, x |-> 0, v |-> 0, rain |-> FALSE,
                  stay |-> 0, teleport |-> 1, sent |-> 1, awaiting |-> None,
                  entities |-> none, chunks |-> [c \in Coordinates |-> None],
                  batches |-> 0, alive |-> TRUE, asked |-> {}, configuring |-> FALSE]
    BY <1>1 DEF Settled, NoPush
  <2> HIDE DEF none
  <2>3. wserver \in Servers /\ wserver.entities = none
    BY <1>3, <2>1, <2>2 DEF Servers
  <2>4. IsFiniteSet(DOMAIN wserver.entities)
    BY <2>1, <2>3, FS_EmptySet
  <2> QED BY <1>2, <2>3, <2>4 DEF ServerOK
<1> QED BY <1>2, <1>5, <1>6 DEF Typed

-----------------------------------------------------------------------------
\* What the server's steps do to the talk: what it says by itself, the teleports, what
\* it receives and the reconfiguration.

Still == UNCHANGED <<habit, net, world, task>>
Plays == ~wserver.configuring /\ ~wserver'.configuring
SameTeleport ==
    wserver'.awaiting = wserver.awaiting /\ wserver'.teleport = wserver.teleport
    /\ wserver'.sent = wserver.sent
SameAsked ==
    wserver'.asked = wserver.asked /\ wserver'.batches = wserver.batches
    /\ wserver'.alive = wserver.alive
SameStay == wserver'.stay = wserver.stay /\ wserver'.chunks = wserver.chunks
OldChunk(c) == wserver.chunks[c] # None /\ wserver'.chunks[c].stay = wserver.chunks[c].stay
Staying ==
    /\ wserver'.stay = wserver.stay
    /\ \A c \in Coordinates : wserver'.chunks[c] # None =>
        wserver'.chunks[c].stay = wserver.stay \/ OldChunk(c)
Steady(packets) == /\ DownOK(packets) /\ NoneOf("start_configuration", packets)
                   /\ NoneOf("login", packets)
InStay(packets) ==
    /\ NoneOf("respawn", packets)
    /\ \A i \in DOMAIN packets : packets[i].kind = "chunk" => packets[i].chunk.stay = wserver.stay

\* It says something of the world, of the player or of the inventory.
Utters(packets) ==
    /\ up' = up /\ down' = down \o packets /\ Plays /\ SameTeleport /\ Staying
    /\ Steady(packets) /\ InStay(packets) /\ NoneOf("position", packets)
    /\ \A id \in wserver'.asked : id \in wserver.asked \/ Asked(packets, "keep_alive", id)
    /\ wserver'.batches # 0 => wserver.batches # 0 \/ Has(packets, "batch_finished")
    /\ ~wserver'.alive => ~wserver.alive \/ Has(packets, "health")
NewTeleport ==
    /\ wserver'.teleport = wserver.teleport + 1 /\ wserver'.sent = wserver.sent + 1
    /\ wserver'.awaiting = wserver.teleport + 1
IsNew(p) == p.kind = "position" /\ p.id = wserver'.teleport /\ p.serial = wserver'.sent
Places1 ==
    /\ up' = up /\ Plays /\ NewTeleport /\ SameAsked /\ SameStay
    /\ \E p : IsNew(p) /\ DownOK(<<p>>) /\ down' = down \o <<p>>
Returns ==
    /\ up' = up \/ (up # <<>> /\ up' = Tail(up) /\ Head(up).kind = "perform_respawn")
    /\ ~wserver.configuring /\ IsBack(wserver', wserver)
    /\ \E packets : down' = down \o packets /\ IsRespawn(packets, wserver')
Hears ==
    /\ up # <<>> /\ up' = Tail(up) /\ UNCHANGED down /\ SameStay
    /\ Head(up).kind # "configuration_acknowledged"
    /\ wserver'.alive = wserver.alive /\ wserver'.configuring = wserver.configuring
    /\ wserver'.teleport = wserver.teleport /\ wserver'.sent = wserver.sent
    /\ wserver'.x # wserver.x => ~wserver.configuring /\ wserver.awaiting = None
    /\ \/ wserver'.awaiting = wserver.awaiting
          /\ (wserver.configuring \/ ~IsA(Head(up), "confirm", wserver.awaiting))
       \/ wserver'.awaiting = None /\ IsA(Head(up), "confirm", wserver.awaiting)
    /\ \/ wserver'.asked = wserver.asked
          /\ (wserver.configuring \/ Head(up).kind # "keep_alive")
       \/ Head(up).kind = "keep_alive" /\ wserver'.asked = wserver.asked \ {Head(up).id}
    /\ \/ wserver'.batches = wserver.batches
          /\ (wserver.configuring \/ Head(up).kind # "batch_received")
       \/ wserver'.batches = 0
Reconfigures ==
    /\ up' = up /\ down' = down \o <<[kind |-> "start_configuration"]>> /\ ~wserver.configuring
    /\ wserver'.configuring /\ wserver'.awaiting = None /\ wserver'.asked = {}
    /\ wserver'.batches = 0 /\ wserver'.teleport = wserver.teleport
    /\ wserver'.sent = wserver.sent /\ SameStay /\ wserver'.alive = wserver.alive
Relogs ==
    /\ up # <<>> /\ Head(up).kind = "configuration_acknowledged" /\ up' = Tail(up)
    /\ IsNewLogin(wserver', wserver)
    /\ \E packets : down' = down \o packets /\ IsLogin(packets, wserver')
TalkEffect ==
    /\ Still
    /\ (\E packets : Utters(packets)) \/ Places1 \/ Returns \/ Hears \/ Reconfigures \/ Relogs

\* One packet that says nothing of teleports, logins and respawns.
Mere(p) == /\ p \in WorldPackets
           /\ p.kind \notin {"position", "start_configuration", "login", "respawn", "chunk"}
LEMMA MereOne ==
  ASSUME NEW p, Mere(p)
  PROVE  /\ Steady(<<p>>) /\ InStay(<<p>>) /\ NoneOf("position", <<p>>)
<1>1. DownOK(<<p>>) /\ DOMAIN <<p>> = {1} /\ <<p>>[1] = p
  BY DownShort, Short DEF Mere
<1> QED BY <1>1 DEF Steady, InStay, NoneOf, Mere

SameTalk(w) ==
    /\ w.awaiting = wserver.awaiting /\ w.teleport = wserver.teleport /\ w.sent = wserver.sent
    /\ w.stay = wserver.stay /\ w.configuring = wserver.configuring
LEMMA UttersOne ==
  ASSUME NEW w, SameTalk(w), w.chunks = wserver.chunks, w.asked = wserver.asked,
         w.batches = wserver.batches, w.alive = wserver.alive,
         NEW p, Mere(p), Does(w, <<p>>), ~wserver.configuring
  PROVE  TalkEffect
<1>1. wserver' = w /\ up' = up /\ down' = down \o <<p>> /\ Still
  BY DEF Does, Still
<1>2. Plays /\ SameTeleport
  BY <1>1 DEF Plays, SameTeleport, SameTalk
<1>3. Staying
  BY <1>1 DEF Staying, SameTalk, OldChunk
<1>4. Utters(<<p>>)
  BY <1>1, <1>2, <1>3, MereOne DEF Utters
<1> QED BY <1>1, <1>4 DEF TalkEffect

LEMMA EntitiesTalk ==
  ASSUME Typed, ServerSpawns \/ ServerMovesEntity \/ ServerRemoves \/ ServerPushes
  PROVE  TalkEffect
<1>1. wserver \in Servers /\ ~wserver.configuring
  BY DEF Typed, ServerOK, ServerSpawns, ServerMovesEntity, ServerRemoves, ServerPushes, Playing
<1>2. \A f : LET w == [wserver EXCEPT !.entities = f]
             IN /\ SameTalk(w) /\ w.chunks = wserver.chunks /\ w.asked = wserver.asked
                /\ w.batches = wserver.batches /\ w.alive = wserver.alive
  BY <1>1 DEF Servers, SameTalk
<1>3. ASSUME NEW p, Mere(p), NEW id, NEW e, Tell(p, id, e)
      PROVE  TalkEffect
  <2>1. \E f : Does([wserver EXCEPT !.entities = f], <<p>>)
    BY <1>3 DEF Tell
  <2>2. PICK f : Does([wserver EXCEPT !.entities = f], <<p>>)
    BY <2>1
  <2> DEFINE w == [wserver EXCEPT !.entities = f]
  <2>3. /\ SameTalk(w) /\ w.chunks = wserver.chunks /\ w.asked = wserver.asked
        /\ w.batches = wserver.batches /\ w.alive = wserver.alive
    BY <1>2
  <2>4. Does(w, <<p>>)
    BY <2>2
  <2> HIDE DEF w
  <2> QED BY <1>1, <1>3, <2>3, <2>4, UttersOne
<1>4. CASE ServerSpawns
  <2>1. PICK id \in Ids : Tell([kind |-> "spawn", id |-> id, entity |-> NewEntity], id, NewEntity)
    BY <1>4 DEF ServerSpawns
  <2>2. NewEntity \in Entities
    BY DEF NewEntity, Entities, NoPush
  <2>3. Mere([kind |-> "spawn", id |-> id, entity |-> NewEntity])
    BY <2>2 DEF Mere, WorldPackets
  <2> QED BY <1>3, <2>1, <2>3
<1>5. CASE ServerMovesEntity
  <2>1. \E id, p, e : id \in Remote /\ Tell(p, id, e)
          /\ (\/ \E delta \in {1, -1} : p = [kind |-> "move", id |-> id, delta |-> delta]
              \/ p = [kind |-> "sync", id |-> id, x |-> Line]
              \/ p = [kind |-> "data", id |-> id, data |-> 1]
              \/ p = [kind |-> "velocity", id |-> id, v |-> 1])
    BY <1>5 DEF ServerMovesEntity
  <2>2. PICK id, p, e : id \in Remote /\ Tell(p, id, e)
          /\ (\/ \E delta \in {1, -1} : p = [kind |-> "move", id |-> id, delta |-> delta]
              \/ p = [kind |-> "sync", id |-> id, x |-> Line]
              \/ p = [kind |-> "data", id |-> id, data |-> 1]
              \/ p = [kind |-> "velocity", id |-> id, v |-> 1])
    BY <2>1
  <2>3. id \in Ids /\ Line \in Int
    BY <2>2, ServerParts, SessionAssumption DEF Typed
  <2>4. Mere(p)
    BY <2>2, <2>3 DEF Mere, WorldPackets
  <2> QED BY <1>3, <2>2, <2>4
<1>6. CASE ServerRemoves
  <2>7. PICK gone \in SUBSET Remote :
          \E ids \in SetToSeqs(gone) :
            Does([wserver EXCEPT !.entities = [i \in Remote \ gone |-> @[i]]],
                 <<[kind |-> "remove", ids |-> ids]>>)
    BY <1>6 DEF ServerRemoves
  <2>1. PICK ids \in SetToSeqs(gone) :
          Does([wserver EXCEPT !.entities = [i \in Remote \ gone |-> @[i]]],
               <<[kind |-> "remove", ids |-> ids]>>)
    BY <2>7
  <2> DEFINE p == [kind |-> "remove", ids |-> ids]
  <2> DEFINE w == [wserver EXCEPT !.entities = [i \in Remote \ gone |-> wserver.entities[i]]]
  <2>2. Remote \subseteq Ids /\ IsFiniteSet(Remote)
    BY ServerParts DEF Typed
  <2>3. ids \in Seq(Ids)
    <3>1. ids \in [1 .. Cardinality(gone) -> gone]
      BY DEF SetToSeqs
    <3>2. Cardinality(gone) \in Nat
      BY <2>2, FS_Subset, FS_CardinalityType
    <3>3. ids \in [1 .. Cardinality(gone) -> Ids]
      BY <2>2, <3>1
    <3> QED BY <3>2, <3>3
  <2>4. Mere(p)
    BY <2>3 DEF Mere, WorldPackets
  <2>5. /\ SameTalk(w) /\ w.chunks = wserver.chunks /\ w.asked = wserver.asked
        /\ w.batches = wserver.batches /\ w.alive = wserver.alive
    BY <1>2
  <2>6. Does(w, <<p>>)
    BY <2>1
  <2> HIDE DEF w, p
  <2> QED BY <1>1, <2>4, <2>5, <2>6, UttersOne
<1>7. CASE ServerPushes
  <2> DEFINE p == [kind |-> "velocity", id |-> wserver.own, v |-> 1]
  <2> DEFINE w == [wserver EXCEPT !.v = 1]
  <2>1. Does(w, <<p>>)
    BY <1>7 DEF ServerPushes
  <2>2. /\ SameTalk(w) /\ w.chunks = wserver.chunks /\ w.asked = wserver.asked
        /\ w.batches = wserver.batches /\ w.alive = wserver.alive
    BY <1>1 DEF Servers, SameTalk
  <2>3. Mere(p)
    <3>1. wserver.own \in Ids
      BY <1>1, ServerFields
    <3> QED BY <3>1 DEF Mere, WorldPackets
  <2> HIDE DEF w, p
  <2> QED BY <1>1, <2>1, <2>2, <2>3, UttersOne
<1> QED BY <1>4, <1>5, <1>6, <1>7

LEMMA ChunksTalk ==
  ASSUME Typed, ServerSendsChunk \/ ServerForgets \/ ServerUpdates
  PROVE  TalkEffect
<1>1. wserver \in Servers /\ ~wserver.configuring
  BY DEF Typed, ServerOK, ServerSendsChunk, ServerForgets, ServerUpdates, Playing
<1>2. CASE ServerSendsChunk
  <2>1. PICK c \in Coordinates, value \in {0, 1} :
          LET chunk == [stay |-> wserver.stay, data |-> [f \in Fields |-> value]]
          IN Does([wserver EXCEPT !.chunks[c] = chunk, !.batches = 1],
                  <<[kind |-> "chunk", at |-> c, chunk |-> chunk], [kind |-> "batch_finished"]>>)
    BY <1>2 DEF ServerSendsChunk
  <2> DEFINE chunk == [stay |-> wserver.stay, data |-> [f \in Fields |-> value]]
  <2> DEFINE v == [wserver EXCEPT !.chunks[c] = chunk]
  <2> DEFINE w == [v EXCEPT !.batches = 1]
  <2> DEFINE p == [kind |-> "chunk", at |-> c, chunk |-> chunk]
  <2> DEFINE q == [kind |-> "batch_finished"]
  <2>2. Does(w, <<p, q>>)
    BY <2>1
  <2>3. chunk \in Chunks /\ chunk.stay = wserver.stay
    BY <1>1, ServerFields DEF Chunks
  <2> HIDE DEF chunk
  <2>4. v \in Servers /\ SameTalk(v) /\ v.asked = wserver.asked /\ v.alive = wserver.alive
        /\ v.chunks = [wserver.chunks EXCEPT ![c] = chunk]
    BY <1>1, <2>3 DEF Servers, SameTalk
  <2> HIDE DEF v
  <2>5. SameTalk(w) /\ w.asked = wserver.asked /\ w.alive = wserver.alive
        /\ w.chunks = [wserver.chunks EXCEPT ![c] = chunk]
    BY <2>4 DEF Servers, SameTalk
  <2>6. p \in WorldPackets /\ p.kind = "chunk" /\ p.chunk.stay = wserver.stay
    BY <2>3 DEF WorldPackets
  <2>7. q \in WorldPackets /\ q.kind = "batch_finished"
    BY DEF WorldPackets
  <2> HIDE DEF w, p, q
  <2>8. /\ DownOK(<<p, q>>) /\ DOMAIN <<p, q>> = {1, 2} /\ <<p, q>>[1] = p /\ <<p, q>>[2] = q
    BY <2>6, <2>7, DownShort, Short
  <2>9. Steady(<<p, q>>) /\ InStay(<<p, q>>) /\ NoneOf("position", <<p, q>>)
        /\ Has(<<p, q>>, "batch_finished")
    BY <2>6, <2>7, <2>8 DEF Steady, InStay, NoneOf, Has
  <2>10. wserver' = w /\ up' = up /\ down' = down \o <<p, q>> /\ Still
    BY <2>2 DEF Does, Still
  <2>11. Plays /\ SameTeleport
    BY <1>1, <2>5, <2>10 DEF Plays, SameTeleport, SameTalk
  <2>12. Staying
    <3>1. wserver'.stay = wserver.stay /\ wserver'.chunks = [wserver.chunks EXCEPT ![c] = chunk]
      BY <2>5, <2>10 DEF SameTalk
    <3>2. wserver.chunks \in [Coordinates -> Chunks \cup {None}]
      BY <1>1, ServerFields
    <3>3. \A d \in Coordinates :
            wserver'.chunks[d] = IF d = c THEN chunk ELSE wserver.chunks[d]
      BY <3>1, <3>2
    <3> QED BY <2>3, <3>1, <3>3 DEF Staying, OldChunk
  <2>13. Utters(<<p, q>>)
    BY <2>5, <2>9, <2>10, <2>11, <2>12 DEF Utters
  <2> QED BY <2>10, <2>13 DEF TalkEffect
<1>3. ASSUME NEW w, SameTalk(w), w.asked = wserver.asked, w.batches = wserver.batches,
             w.alive = wserver.alive, NEW c \in Coordinates, NEW chunk,
             w.chunks = [wserver.chunks EXCEPT ![c] = chunk],
             chunk # None => wserver.chunks[c] # None /\ chunk.stay = wserver.chunks[c].stay,
             NEW p, Mere(p), Does(w, <<p>>)
      PROVE  TalkEffect
  <2>1. wserver' = w /\ up' = up /\ down' = down \o <<p>> /\ Still
    BY <1>3 DEF Does, Still
  <2>2. Plays /\ SameTeleport
    BY <1>1, <1>3, <2>1 DEF Plays, SameTeleport, SameTalk
  <2>3. wserver.chunks \in [Coordinates -> Chunks \cup {None}]
    BY <1>1, ServerFields
  <2>4. \A d \in Coordinates : wserver'.chunks[d] = IF d = c THEN chunk ELSE wserver.chunks[d]
    BY <1>3, <2>1, <2>3
  <2>5. Staying
    BY <1>3, <2>1, <2>4 DEF Staying, OldChunk, SameTalk
  <2>6. Utters(<<p>>)
    BY <1>3, <2>1, <2>2, <2>5, MereOne DEF Utters
  <2> QED BY <2>1, <2>6 DEF TalkEffect
<1>4. CASE ServerForgets
  <2>1. PICK c \in Coordinates :
          Does([wserver EXCEPT !.chunks[c] = None], <<[kind |-> "forget", at |-> c]>>)
    BY <1>4 DEF ServerForgets
  <2> DEFINE w == [wserver EXCEPT !.chunks[c] = None]
  <2> DEFINE p == [kind |-> "forget", at |-> c]
  <2>2. /\ SameTalk(w) /\ w.asked = wserver.asked /\ w.batches = wserver.batches
        /\ w.alive = wserver.alive /\ w.chunks = [wserver.chunks EXCEPT ![c] = None]
    BY <1>1 DEF Servers, SameTalk
  <2>3. Mere(p)
    BY DEF WorldPackets, Mere
  <2>4. Does(w, <<p>>)
    BY <2>1
  <2> HIDE DEF w, p
  <2> QED BY <1>3, <2>2, <2>3, <2>4
<1>5. CASE ServerUpdates
  <2>1. PICK c \in Coordinates, f \in Fields :
          /\ wserver.chunks[c] # None
          /\ LET value == 1 - wserver.chunks[c].data[f]
             IN Does([wserver EXCEPT !.chunks[c].data[f] = value],
                     <<[kind |-> "update", at |-> c, field |-> f, value |-> value]>>)
    BY <1>5 DEF ServerUpdates
  <2> DEFINE value == 1 - wserver.chunks[c].data[f]
  <2> DEFINE chunk == [wserver.chunks[c] EXCEPT !.data[f] = value]
  <2> DEFINE w == [wserver EXCEPT !.chunks[c] = chunk]
  <2> DEFINE p == [kind |-> "update", at |-> c, field |-> f, value |-> value]
  <2>2. wserver.chunks[c] \in Chunks
    BY <1>1, <2>1, ServerFields
  <2>3. value \in Int
    BY <2>2 DEF Chunks
  <2>4. Does(w, <<p>>)
    BY <2>1
  <2> HIDE DEF value
  <2>5. chunk.stay = wserver.chunks[c].stay
    BY <2>2 DEF Chunks
  <2> HIDE DEF chunk
  <2>6. /\ SameTalk(w) /\ w.asked = wserver.asked /\ w.batches = wserver.batches
        /\ w.alive = wserver.alive /\ w.chunks = [wserver.chunks EXCEPT ![c] = chunk]
    BY <1>1 DEF Servers, SameTalk
  <2>7. Mere(p)
    BY <2>3 DEF WorldPackets, Mere
  <2> HIDE DEF w, p
  <2> QED BY <1>3, <2>1, <2>4, <2>5, <2>6, <2>7
<1> QED BY <1>2, <1>4, <1>5

LEMMA SettingsTalk ==
  ASSUME Typed, ServerSetsWorld \/ ServerTurns \/ ServerKills \/ ServerAsks
  PROVE  TalkEffect
<1>1. wserver \in Servers /\ ~wserver.configuring
  BY DEF Typed, ServerOK, ServerSetsWorld, ServerTurns, ServerKills, ServerAsks, Playing
<1>2. CASE Does([wserver EXCEPT !.rain = ~@], <<[kind |-> "rain", rain |-> ~wserver.rain]>>)
  <2> DEFINE w == [wserver EXCEPT !.rain = ~wserver.rain]
  <2> DEFINE p == [kind |-> "rain", rain |-> ~wserver.rain]
  <2>1. Does(w, <<p>>)
    BY <1>2
  <2>2. /\ SameTalk(w) /\ w.chunks = wserver.chunks /\ w.asked = wserver.asked
        /\ w.batches = wserver.batches /\ w.alive = wserver.alive
    BY <1>1 DEF Servers, SameTalk
  <2>3. Mere(p)
    BY DEF Mere, WorldPackets
  <2> HIDE DEF w, p
  <2> QED BY <1>1, <2>1, <2>2, <2>3, UttersOne
<1>3. CASE Does([wserver EXCEPT !.mode = 1 - @], <<[kind |-> "mode", mode |-> 1 - wserver.mode]>>)
  <2> DEFINE m == 1 - wserver.mode
  <2> DEFINE w == [wserver EXCEPT !.mode = m]
  <2> DEFINE p == [kind |-> "mode", mode |-> m]
  <2>1. Does(w, <<p>>)
    BY <1>3
  <2>2. m \in Int
    BY <1>1, ServerFields
  <2> HIDE DEF m
  <2>3. /\ SameTalk(w) /\ w.chunks = wserver.chunks /\ w.asked = wserver.asked
        /\ w.batches = wserver.batches /\ w.alive = wserver.alive
    BY <1>1 DEF Servers, SameTalk
  <2>4. Mere(p)
    BY <2>2 DEF Mere, WorldPackets
  <2> HIDE DEF w, p
  <2> QED BY <1>1, <2>1, <2>3, <2>4, UttersOne
<1>4. CASE ServerTurns
  <2> DEFINE p == [kind |-> "rotation", turns |-> TRUE]
  <2>1. Does(wserver, <<p>>)
    BY <1>4 DEF ServerTurns
  <2>2. Mere(p)
    BY DEF Mere, WorldPackets
  <2>3. SameTalk(wserver)
    BY DEF SameTalk
  <2> HIDE DEF p
  <2> QED BY <1>1, <2>1, <2>2, <2>3, UttersOne
<1>5. CASE ServerKills
  <2> DEFINE w == [wserver EXCEPT !.alive = FALSE]
  <2> DEFINE p == [kind |-> "health"]
  <2>1. Does(w, <<p>>)
    BY <1>5 DEF ServerKills
  <2>2. /\ SameTalk(w) /\ w.chunks = wserver.chunks /\ w.asked = wserver.asked
        /\ w.batches = wserver.batches
    BY <1>1 DEF Servers, SameTalk
  <2>3. Mere(p) /\ p.kind = "health"
    BY DEF Mere, WorldPackets
  <2> HIDE DEF w, p
  <2>4. wserver' = w /\ up' = up /\ down' = down \o <<p>> /\ Still
    BY <2>1 DEF Does, Still
  <2>5. Plays /\ SameTeleport /\ Staying
    BY <1>1, <2>2, <2>4 DEF Plays, SameTeleport, SameTalk, Staying, OldChunk
  <2>6. Has(<<p>>, "health")
    BY <2>3, Short DEF Has
  <2>7. Utters(<<p>>)
    BY <2>2, <2>3, <2>4, <2>5, <2>6, MereOne DEF Utters
  <2> QED BY <2>4, <2>7 DEF TalkEffect
<1>6. CASE ServerAsks
  <2> DEFINE id == server.events
  <2> DEFINE w == [wserver EXCEPT !.asked = wserver.asked \cup {id}]
  <2> DEFINE p == [kind |-> "keep_alive", id |-> id]
  <2>1. Does(w, <<p>>)
    BY <1>6 DEF ServerAsks
  <2>2. id \in Nat
    BY DEF Typed, ServerOK, EventsOK
  <2> HIDE DEF id
  <2>3. /\ SameTalk(w) /\ w.chunks = wserver.chunks /\ w.asked = wserver.asked \cup {id}
        /\ w.batches = wserver.batches /\ w.alive = wserver.alive
    BY <1>1 DEF Servers, SameTalk
  <2>4. Mere(p) /\ IsA(p, "keep_alive", id)
    BY <2>2 DEF Mere, WorldPackets, IsA
  <2> HIDE DEF w, p
  <2>5. wserver' = w /\ up' = up /\ down' = down \o <<p>> /\ Still
    BY <2>1 DEF Does, Still
  <2>6. Plays /\ SameTeleport /\ Staying
    BY <1>1, <2>3, <2>5 DEF Plays, SameTeleport, SameTalk, Staying, OldChunk
  <2>7. Asked(<<p>>, "keep_alive", id)
    BY <2>4, Short DEF Asked
  <2>8. Utters(<<p>>)
    BY <2>3, <2>4, <2>5, <2>6, <2>7, MereOne DEF Utters
  <2> QED BY <2>5, <2>8 DEF TalkEffect
<1> QED BY <1>2, <1>3, <1>4, <1>5, <1>6 DEF ServerSetsWorld

LEMMA PlacesOne ==
  ASSUME NEW x \in Int, NEW to \in Int, NEW relative \in BOOLEAN, NEW turns \in BOOLEAN, Typed,
         ~wserver.configuring,
         Does(Teleported(wserver, x),
              <<PositionPacket(Teleported(wserver, x), to, relative, turns)>>)
  PROVE  TalkEffect
<1> DEFINE w == Teleported(wserver, x)
<1> DEFINE p == PositionPacket(w, to, relative, turns)
<1>1. wserver \in Servers
  BY DEF Typed, ServerOK
<1>2. /\ w \in Servers /\ w.teleport = wserver.teleport + 1 /\ w.sent = wserver.sent + 1
      /\ w.awaiting = wserver.teleport + 1 /\ w.asked = wserver.asked
      /\ w.batches = wserver.batches /\ w.alive = wserver.alive
      /\ w.configuring = wserver.configuring /\ w.stay = wserver.stay
      /\ w.chunks = wserver.chunks
  BY <1>1, TeleportedMade
<1>3. Does(w, <<p>>)
  OBVIOUS
<1> HIDE DEF w
<1>4. p \in WorldPackets /\ p.kind = "position" /\ p.id = w.teleport /\ p.serial = w.sent
  BY <1>2, PositionMade
<1> HIDE DEF p
<1>5. DownOK(<<p>>)
  BY <1>4, DownShort
<1>6. wserver' = w /\ up' = up /\ down' = down \o <<p>> /\ Still
  BY <1>3 DEF Does, Still
<1>7. IsNew(p) /\ NewTeleport /\ SameAsked /\ SameStay /\ Plays
  BY <1>2, <1>4, <1>6 DEF IsNew, NewTeleport, SameAsked, SameStay, Plays
<1>8. Places1
  BY <1>5, <1>6, <1>7 DEF Places1
<1> QED BY <1>6, <1>8 DEF TalkEffect

LEMMA PositionsTalk ==
  ASSUME Typed, ServerTeleports \/ ServerRepeats \/ ServerRespawns
  PROVE  TalkEffect
<1>1. wserver \in Servers /\ ~wserver.configuring
  BY DEF Typed, ServerOK, ServerTeleports, ServerRepeats, ServerRespawns, Playing
<1>2. CASE ServerTeleports
  <2>1. PICK x \in Places, relative \in BOOLEAN :
          Does(Teleported(wserver, x),
               <<PositionPacket(Teleported(wserver, x), IF relative THEN x - wserver.x ELSE x,
                                relative, relative)>>)
    BY <1>2 DEF ServerTeleports
  <2> DEFINE to == IF relative THEN x - wserver.x ELSE x
  <2>2. x \in Int
    BY SessionAssumption DEF Places
  <2>3. to \in Int
    BY <1>1, <2>2, ServerFields
  <2>4. Does(Teleported(wserver, x), <<PositionPacket(Teleported(wserver, x), to, relative, relative)>>)
    BY <2>1
  <2> HIDE DEF to
  <2> QED BY <1>1, <2>2, <2>3, <2>4, PlacesOne
<1>3. CASE ServerRepeats
  <2> DEFINE w == Teleported(wserver, wserver.x)
  <2> DEFINE to == w.x
  <2>1. Does(w, <<PositionPacket(w, to, FALSE, FALSE)>>)
    BY <1>3 DEF ServerRepeats
  <2>2. wserver.x \in Int /\ to \in Int
    BY <1>1, ServerFields, TeleportedMade
  <2> HIDE DEF to
  <2>3. FALSE \in BOOLEAN
    OBVIOUS
  <2> QED BY <1>1, <2>1, <2>2, <2>3, PlacesOne, Zenon
<1>4. CASE ServerRespawns
  <2>1. PICK dim \in {0, 1}, keep \in BOOLEAN, rain \in BOOLEAN :
          Does(ComesBack(wserver, dim, rain), RespawnPackets(ComesBack(wserver, dim, rain), keep))
    BY <1>4 DEF ServerRespawns, ComesBack
  <2> DEFINE w == ComesBack(wserver, dim, rain)
  <2>2. IsBack(w, wserver)
    BY <1>1, ComesBackMade
  <2>3. Does(w, RespawnPackets(w, keep))
    BY <2>1
  <2> HIDE DEF w
  <2>4. IsRespawn(RespawnPackets(w, keep), w)
    BY <2>2, RespawnTold DEF IsBack
  <2>5. wserver' = w /\ up' = up /\ down' = down \o RespawnPackets(w, keep) /\ Still
    BY <2>3 DEF Does, Still
  <2>6. Returns
    BY <1>1, <2>2, <2>4, <2>5 DEF Returns
  <2> QED BY <2>5, <2>6 DEF TalkEffect
<1> QED BY <1>2, <1>3, <1>4

LEMMA ReceivesTalk ==
  ASSUME Typed, ServerReceives
  PROVE  TalkEffect
<1> DEFINE p == Head(up)
<1> DEFINE w == wserver
<1>1. w \in Servers
  BY DEF Typed, ServerOK
<1>2. /\ Received(p, w) /\ up # <<>> /\ up' = Tail(up) /\ p.kind \in WorldAnswers
      /\ UNCHANGED <<habit, mailbox, net, server, world, task>>
  BY <1>1, ReceivesByKind
<1>3. Still
  BY <1>2 DEF Still
<1>4. p.kind # "configuration_acknowledged"
  BY <1>2 DEF WorldAnswers
<1> DEFINE Kept(v) ==
      /\ v.stay = w.stay /\ v.chunks = w.chunks /\ v.alive = w.alive
      /\ v.configuring = w.configuring /\ v.teleport = w.teleport /\ v.sent = w.sent
<1>5. ASSUME Kept(wserver'), down' = down,
             wserver'.x # w.x => ~w.configuring /\ w.awaiting = None,
             \/ wserver'.awaiting = w.awaiting
                /\ (w.configuring \/ ~IsA(p, "confirm", w.awaiting))
             \/ wserver'.awaiting = None /\ IsA(p, "confirm", w.awaiting),
             \/ wserver'.asked = w.asked /\ (w.configuring \/ p.kind # "keep_alive")
             \/ p.kind = "keep_alive" /\ wserver'.asked = w.asked \ {p.id},
             \/ wserver'.batches = w.batches /\ (w.configuring \/ p.kind # "batch_received")
             \/ wserver'.batches = 0
      PROVE  TalkEffect
  <2>1. Hears
    BY <1>2, <1>4, <1>5 DEF Hears, SameStay
  <2> QED BY <1>3, <2>1 DEF TalkEffect
<1>6. CASE Passed(p, w) /\ wserver' = w /\ down' = down
  BY <1>5, <1>6 DEF Passed, IsA
<1>7. CASE ~w.configuring /\ p.kind = "confirm" /\ p.id = w.awaiting /\ down' = down
           /\ wserver' = [w EXCEPT !.awaiting = None]
  <2>1. /\ Kept(wserver') /\ wserver'.awaiting = None /\ wserver'.asked = w.asked
        /\ wserver'.batches = w.batches /\ wserver'.x = w.x
    BY <1>1, <1>7 DEF Servers
  <2>2. IsA(p, "confirm", w.awaiting) /\ p.kind # "keep_alive" /\ p.kind # "batch_received"
    BY <1>7 DEF IsA
  <2> HIDE DEF Kept, p, w
  <2> QED BY <1>5, <1>7, <2>1, <2>2
<1>8. CASE ~w.configuring /\ p.kind = "move" /\ w.awaiting = None /\ down' = down
           /\ wserver' = [w EXCEPT !.x = p.x]
  <2>1. /\ Kept(wserver') /\ wserver'.awaiting = w.awaiting /\ wserver'.asked = w.asked
        /\ wserver'.batches = w.batches
    BY <1>1, <1>8 DEF Servers
  <2>2. ~IsA(p, "confirm", w.awaiting) /\ p.kind # "keep_alive" /\ p.kind # "batch_received"
    BY <1>8 DEF IsA
  <2> HIDE DEF Kept, p, w
  <2> QED BY <1>5, <1>8, <2>1, <2>2
<1>9. CASE ~w.configuring /\ p.kind = "keep_alive" /\ down' = down
           /\ wserver' = [w EXCEPT !.asked = @ \ {p.id}]
  <2>1. /\ Kept(wserver') /\ wserver'.awaiting = w.awaiting /\ wserver'.asked = w.asked \ {p.id}
        /\ wserver'.batches = w.batches /\ wserver'.x = w.x
    BY <1>1, <1>9 DEF Servers
  <2>2. ~IsA(p, "confirm", w.awaiting) /\ p.kind # "batch_received"
    BY <1>9 DEF IsA
  <2> HIDE DEF Kept, p, w
  <2> QED BY <1>5, <1>9, <2>1, <2>2
<1>10. CASE ~w.configuring /\ p.kind = "batch_received" /\ down' = down
            /\ wserver' = [w EXCEPT !.batches = 0]
  <2>1. /\ Kept(wserver') /\ wserver'.awaiting = w.awaiting /\ wserver'.asked = w.asked
        /\ wserver'.batches = 0 /\ wserver'.x = w.x
    BY <1>1, <1>10 DEF Servers
  <2>2. ~IsA(p, "confirm", w.awaiting) /\ p.kind # "keep_alive"
    BY <1>10 DEF IsA
  <2> HIDE DEF Kept, p, w
  <2> QED BY <1>5, <1>10, <2>1, <2>2
<1>11. CASE ~w.configuring /\ p.kind = "perform_respawn"
            /\ wserver' = ComesBack(w, w.dim, w.rain)
            /\ down' = down \o RespawnPackets(ComesBack(w, w.dim, w.rain), FALSE)
  <2> DEFINE new == ComesBack(w, w.dim, w.rain)
  <2>1. IsBack(new, w)
    BY <1>1, ServerFields, ComesBackMade
  <2>2. wserver' = new /\ down' = down \o RespawnPackets(new, FALSE)
    BY <1>11
  <2> HIDE DEF new
  <2>3. new \in Servers
    BY <2>1 DEF IsBack
  <2>4. IsRespawn(RespawnPackets(new, FALSE), new)
    BY <2>3, FALSE \in BOOLEAN, RespawnTold, Zenon
  <2>5. Returns
    BY <1>2, <1>11, <2>1, <2>2, <2>4 DEF Returns
  <2> QED BY <1>3, <2>5 DEF TalkEffect
<1> HIDE DEF p, w
<1> QED BY <1>2, <1>6, <1>7, <1>8, <1>9, <1>10, <1>11 DEF Received

LEMMA OthersTalk ==
  ASSUME Typed, ServerDiscards \/ ServerReconfigures \/ ServerRelogs
  PROVE  TalkEffect
<1>1. CASE ServerDiscards
  <2>1. /\ up # <<>> /\ wserver.configuring /\ up' = Tail(up)
        /\ Head(up).kind # "configuration_acknowledged"
        /\ UNCHANGED <<habit, net, world, task, down, wserver>>
    BY <1>1 DEF ServerDiscards
  <2>2. Hears
    BY <2>1 DEF Hears, SameStay
  <2> QED BY <2>1, <2>2 DEF TalkEffect, Still
<1>2. CASE ServerReconfigures
  <2> DEFINE p == [kind |-> "start_configuration"]
  <2>1. /\ down' = Append(down, p) /\ UNCHANGED <<habit, net, up, world, task>>
        /\ ~wserver.configuring
    BY <1>2 DEF ServerReconfigures, Playing
  <2>2. down' = down \o <<p>>
    <3>1. IsSeq(down)
      BY DEF Typed, DownOK
    <3> DEFINE R == Range(down)
    <3>2. down \in Seq(R)
      BY <3>1 DEF IsSeq
    <3> HIDE DEF R, p
    <3> QED BY <2>1, <3>2
  <2>3. wserver \in Servers
    BY DEF Typed, ServerOK
  <2>4. Reconfigures
    BY <1>2, <2>1, <2>2, <2>3, ReconfiguresEffect DEF Reconfigures, SameStay
  <2> QED BY <2>1, <2>4 DEF TalkEffect, Still
<1>3. CASE ServerRelogs
  <2>1. Relogs
    BY <1>3, RelogsEffect DEF Relogs
  <2>2. Still
    BY <1>3 DEF ServerRelogs, Still
  <2> QED BY <2>1, <2>2 DEF TalkEffect
<1> QED BY <1>1, <1>2, <1>3

LEMMA WorldServerTalk ==
  ASSUME Typed, WorldServer
  PROVE  TalkEffect
BY EntitiesTalk, ChunksTalk, SettingsTalk, PositionsTalk, ReceivesTalk, OthersTalk DEF WorldServer

-----------------------------------------------------------------------------
\* The reconfiguration goes through its phases in order.

LEMMA InTail ==
  ASSUME NEW s, IsSeq(s), s # <<>>, NEW i \in DOMAIN Tail(s)
  PROVE  /\ i \in Nat /\ i >= 1 /\ i + 1 \in DOMAIN s /\ Tail(s)[i] = s[i + 1]
         /\ i + 1 = Len(s) => i = Len(Tail(s))
<1>1. i \in 1 .. Len(s) - 1 /\ Len(s) \in Nat /\ Len(Tail(s)) = Len(s) - 1
  BY Popped
<1>2. i + 1 \in DOMAIN s /\ Tail(s)[i] = s[i + 1]
  BY <1>1, Popped
<1> QED BY <1>1, <1>2

LEMMA InJoined ==
  ASSUME NEW s, IsSeq(s), NEW t, IsSeq(t), NEW i \in DOMAIN (s \o t)
  PROVE  \/ i \in DOMAIN s /\ (s \o t)[i] = s[i]
         \/ i - Len(s) \in DOMAIN t /\ (s \o t)[i] = t[i - Len(s)]
<1>1. i \in 1 .. Len(s) + Len(t)
  BY Joined
<1>2. i \in 1 .. Len(s) \/ (i - Len(s) \in 1 .. Len(t) /\ (s \o t)[i] = t[i - Len(s)])
  BY <1>1, Joined
<1> QED BY <1>2, Joined

LEMMA NonePopped ==
  ASSUME NEW s, IsSeq(s), s # <<>>, NEW kind, NoneOf(kind, s)
  PROVE  NoneOf(kind, Tail(s))
BY InTail DEF NoneOf

LEMMA NonePushed ==
  ASSUME NEW s, IsSeq(s), NEW t, IsSeq(t), NEW kind, NoneOf(kind, s), NoneOf(kind, t)
  PROVE  NoneOf(kind, s \o t)
<1> SUFFICES ASSUME NEW i \in DOMAIN (s \o t) PROVE (s \o t)[i].kind # kind
  BY DEF NoneOf
<1> QED BY InJoined DEF NoneOf

LEMMA NoneSaid ==
  /\ \A packets : UpdatesOnly(packets) => /\ Steady(packets) /\ InStay(packets)
                                          /\ NoneOf("position", packets)
  /\ \A packets : SentOnly(packets) => Says(packets)
<1>1. ASSUME NEW packets, UpdatesOnly(packets)
      PROVE  Steady(packets) /\ InStay(packets) /\ NoneOf("position", packets)
  BY <1>1, UpdatesDown DEF UpdatesOnly, Steady, InStay, NoneOf, InventoryKinds
<1>2. ASSUME NEW packets, SentOnly(packets)
      PROVE  Says(packets)
  <2>1. UpOK(packets)
    BY <1>2 DEF SentOnly, UpOK
  <2> QED BY <1>2, <2>1 DEF SentOnly, Says, Told1, NoneOf, SentKinds, CommandKinds
<1> QED BY <1>1, <1>2

LEMMA NothingBefore ==
  ASSUME NEW s, IsSeq(s)
  PROVE  <<>> \o s = s
<1>1. IsSeq(<<>>) /\ Len(<<>>) = 0
  BY Short
<1>2. /\ IsSeq(<<>> \o s) /\ Len(s) \in Nat /\ Len(<<>> \o s) = Len(s)
      /\ \A i \in 1 .. Len(s) : (<<>> \o s)[i] = s[i]
  BY <1>1, Joined
<1> DEFINE R == Range(s) \cup Range(<<>> \o s)
<1>3. s \in Seq(R) /\ <<>> \o s \in Seq(R)
  BY <1>2 DEF IsSeq
<1> HIDE DEF R
<1> QED BY <1>2, <1>3, SeqEqual

\* What a respawn and a login do not say.
LEMMA RespawnSteady ==
  ASSUME NEW packets, NEW w, IsRespawn(packets, w)
  PROVE  Steady(packets)
<1>1. PICK r, p, rest :
        /\ packets = <<r, p>> \o rest
        /\ r \in WorldPackets /\ r.kind = "respawn" /\ r.stay = w.stay
        /\ p \in WorldPackets /\ p.kind = "position" /\ p.id = w.teleport /\ p.serial = w.sent
        /\ DownOK(rest) /\ \A i \in DOMAIN rest : rest[i].kind = "rain"
  BY DEF IsRespawn
<1>2. DownOK(<<r, p>>) /\ IsSeq(<<r, p>>) /\ DOMAIN <<r, p>> = {1, 2}
      /\ <<r, p>>[1] = r /\ <<r, p>>[2] = p
  BY <1>1, DownShort, Short
<1>3. DownOK(packets)
  BY <1>1, <1>2, DownPushed
<1>4. \A kind \in {"start_configuration", "login"} :
        NoneOf(kind, <<r, p>>) /\ NoneOf(kind, rest)
  BY <1>1, <1>2 DEF NoneOf
<1>5. \A kind \in {"start_configuration", "login"} : NoneOf(kind, packets)
  BY <1>1, <1>2, <1>4, NonePushed DEF DownOK
<1> QED BY <1>3, <1>5 DEF Steady

LEMMA LoginSteady ==
  ASSUME NEW packets, NEW w, IsLogin(packets, w)
  PROVE  \A i \in DOMAIN packets : /\ packets[i].kind # "start_configuration"
                                   /\ packets[i].kind = "login" => i = 1
<1>1. PICK login, position, rest :
        /\ packets = <<login, position>> \o rest /\ UpdatesOnly(rest)
        /\ login.kind = "login" /\ position.kind = "position"
  BY DEF IsLogin
<1>2. IsSeq(<<login, position>>) /\ DOMAIN <<login, position>> = {1, 2}
      /\ <<login, position>>[1] = login /\ <<login, position>>[2] = position
  BY Short
<1>3. IsSeq(rest) /\ NoneOf("start_configuration", rest) /\ NoneOf("login", rest)
  BY <1>1, NoneSaid DEF UpdatesOnly, Steady
<1> SUFFICES ASSUME NEW i \in DOMAIN packets
             PROVE  /\ packets[i].kind # "start_configuration"
                    /\ packets[i].kind = "login" => i = 1
  OBVIOUS
<1>4. \/ i \in {1, 2} /\ packets[i] = <<login, position>>[i]
      \/ i - 2 \in DOMAIN rest /\ packets[i] = rest[i - 2]
  <2>1. Len(<<login, position>>) = 2
    BY Short
  <2> QED BY <1>1, <1>2, <1>3, <2>1, InJoined
<1> QED BY <1>1, <1>2, <1>3, <1>4 DEF NoneOf

LEMMA PhaseParts ==
  ASSUME Typed, Phase
  PROVE  /\ IsSeq(down) /\ IsSeq(up)
         /\ ~wserver.configuring =>
              NoneOf("start_configuration", down) /\ NoneOf("configuration_acknowledged", up)
         /\ ~task.configuring =>
              NoneOf("configuration_acknowledged", up) /\ NoneOf("login", down)
         /\ down # <<>> => NoneOf("configuration_acknowledged", up)
         /\ up # <<>> => NoneOf("login", down)
<1>1. IsSeq(down) /\ IsSeq(up)
  BY DEF Typed, DownOK, UpOK
<1> QED BY <1>1 DEF Phase, NoneOf

\* The player plays on: neither side begins or ends a reconfiguration.
LEMMA PhaseAnswered ==
  ASSUME Typed, Phase, UNCHANGED wserver, ~task.configuring, ~task'.configuring,
         down' = down \/ (down # <<>> /\ down' = Tail(down)),
         NEW out, up' = up \o out, IsSeq(out), NoneOf("configuration_acknowledged", out)
  PROVE  Phase'
<1>1. /\ IsSeq(down) /\ IsSeq(up) /\ NoneOf("configuration_acknowledged", up)
      /\ NoneOf("login", down)
  BY PhaseParts
<1>2. NoneOf("configuration_acknowledged", up')
  BY <1>1, NonePushed
<1>3. NoneOf("login", down')
  BY <1>1, NonePopped
<1>4. ASSUME NEW i \in DOMAIN down', down'[i].kind = "start_configuration"
      PROVE  i = Len(down') /\ wserver.configuring
  <2>1. CASE down' = down
    BY <1>4, <2>1 DEF Phase
  <2>2. CASE down # <<>> /\ down' = Tail(down)
    <3>1. i + 1 \in DOMAIN down /\ down'[i] = down[i + 1] /\ (i + 1 = Len(down) => i = Len(down'))
      BY <1>1, <2>2, InTail
    <3>2. i + 1 = Len(down) /\ wserver.configuring
      BY <1>4, <3>1 DEF Phase
    <3> QED BY <3>1, <3>2
  <2> QED BY <2>1, <2>2
<1> QED BY <1>2, <1>3, <1>4 DEF Phase, NoneOf

LEMMA PhaseClient ==
  ASSUME Typed, Phase, ClientEffect
  PROVE  Phase'
<1>1. UNCHANGED wserver /\ IsSeq(down) /\ IsSeq(up)
  BY PhaseParts DEF ClientEffect, Calm
<1>2. CASE AsksNothing \/ TurnedDown
  <2>1. IsSeq(<<>>) /\ NoneOf("configuration_acknowledged", <<>>)
    BY Short DEF NoneOf
  <2> QED BY <1>1, <1>2, <2>1, PhaseAnswered DEF AsksNothing, TurnedDown, Reading, KeepsTask
<1>3. CASE Decoded
  <2>1. IsSeq(<<>>) /\ NoneOf("configuration_acknowledged", <<>>)
    BY Short DEF NoneOf
  <2>2. ~task.configuring
    BY <1>3 DEF Decoded, Phase
  <2> QED BY <1>1, <1>3, <2>1, <2>2, PhaseAnswered DEF Decoded, KeepsTask
<1>4. CASE Moves
  <2>1. PICK m : m.kind = "move" /\ up' = up \o <<m>>
    BY <1>4 DEF Moves
  <2>2. IsSeq(<<m>>) /\ NoneOf("configuration_acknowledged", <<m>>)
    BY <2>1, Short DEF NoneOf
  <2> QED BY <1>1, <1>4, <2>1, <2>2, PhaseAnswered DEF Moves, KeepsTask
<1>5. CASE Confirms
  <2> DEFINE p == [kind |-> "confirm", id |-> Frame.id]
  <2>1. p.kind = "confirm" /\ Reading(<<p>>)
    BY <1>5 DEF Confirms
  <2> HIDE DEF p
  <2>2. IsSeq(<<p>>) /\ NoneOf("configuration_acknowledged", <<p>>)
    BY <2>1, Short DEF NoneOf
  <2> QED BY <1>1, <1>5, <2>1, <2>2, PhaseAnswered DEF Confirms, Reading
<1>6. CASE Echoes
  <2>1. Frame.kind = "keep_alive" /\ Reading(<<Frame>>)
    BY <1>6 DEF Echoes
  <2> HIDE DEF Frame
  <2>2. IsSeq(<<Frame>>) /\ NoneOf("configuration_acknowledged", <<Frame>>)
    BY <2>1, Short DEF NoneOf
  <2> QED BY <1>1, <1>6, <2>1, <2>2, PhaseAnswered DEF Echoes, Reading
<1>7. CASE Acknowledges \/ AsksBack
  <2>1. PICK out : Says(out) /\ Reading(out)
    BY <1>7 DEF Acknowledges, AsksBack
  <2>2. IsSeq(out) /\ NoneOf("configuration_acknowledged", out)
    BY <2>1 DEF Says, Told1, UpOK
  <2> QED BY <1>1, <1>7, <2>1, <2>2, PhaseAnswered DEF Acknowledges, AsksBack, Reading, KeepsTask
<1>8. CASE Leaves
  <2> DEFINE p == [kind |-> "configuration_acknowledged"]
  <2>1. down # <<>> /\ down' = Tail(down) /\ up' = up \o <<p>> /\ ~task.configuring
        /\ down[1].kind = "start_configuration" /\ 1 \in DOMAIN down
    BY <1>1, <1>8, Popped DEF Leaves, Reading, Frame
  <2>2. Len(down) = 1 /\ wserver.configuring
    BY <2>1 DEF Phase
  <2>3. down' = <<>> /\ DOMAIN down' = {}
    <3>1. IsSeq(down') /\ Len(down') = 0
      BY <1>1, <2>1, <2>2, Popped
    <3>2. down' = <<>>
      BY <3>1, SeqParts
    <3> QED BY <3>2, Short
  <2>4. NoneOf("configuration_acknowledged", up)
    BY <2>1, PhaseParts
  <2> HIDE DEF p
  <2>5. \A i \in DOMAIN up' : up'[i].kind = "configuration_acknowledged" => i = Len(up')
    <3> SUFFICES ASSUME NEW i \in DOMAIN up', up'[i].kind = "configuration_acknowledged"
                 PROVE  i = Len(up')
      OBVIOUS
    <3>1. IsSeq(<<p>>) /\ DOMAIN <<p>> = {1} /\ Len(<<p>>) = 1
      BY Short
    <3>2. Len(up) \in Nat /\ Len(up') = Len(up) + 1 /\ DOMAIN up' = 1 .. Len(up) + 1
      BY <1>1, <2>1, <3>1, Joined
    <3>3. (i \in DOMAIN up /\ up'[i] = up[i]) \/ i - Len(up) = 1
      BY <1>1, <2>1, <3>1, InJoined
    <3> QED BY <2>4, <3>2, <3>3 DEF NoneOf
  <2>6. task'.decode = None /\ task'.configuring
    BY <1>8 DEF Leaves
  <2> QED BY <1>1, <2>2, <2>3, <2>5, <2>6 DEF Phase
<1>9. CASE Arrives
  <2>1. down # <<>> /\ down' = Tail(down) /\ up' = up \o <<>> /\ ~task'.configuring
        /\ down[1].kind = "login" /\ 1 \in DOMAIN down
    BY <1>1, <1>9, Popped DEF Arrives, Reading, Frame
  <2>2. up = <<>>
    BY <2>1 DEF Phase
  <2>3. DOMAIN up' = {}
    <3>1. up' = <<>>
      BY <2>1, <2>2, Short, NothingSaid
    <3> QED BY <3>1, Short
  <2>4. ASSUME NEW i \in DOMAIN down'
        PROVE  /\ down'[i].kind # "login"
               /\ down'[i].kind = "start_configuration" => i = Len(down') /\ wserver.configuring
    <3>1. /\ i + 1 \in DOMAIN down /\ down'[i] = down[i + 1] /\ i \in Nat /\ i >= 1
          /\ (i + 1 = Len(down) => i = Len(down'))
      BY <1>1, <2>1, InTail
    <3> QED BY <3>1 DEF Phase
  <2> QED BY <1>1, <2>1, <2>3, <2>4 DEF Phase
<1> QED BY <1>2, <1>3, <1>4, <1>5, <1>6, <1>7, <1>8, <1>9 DEF ClientEffect

\* The server talks on, between logins.
LEMMA PhaseTalked ==
  ASSUME Typed, Phase, UNCHANGED task, ~wserver.configuring, ~wserver'.configuring,
         up' = up \/ (up # <<>> /\ up' = Tail(up)), NEW packets, Steady(packets),
         down' = down \o packets
  PROVE  Phase'
<1>1. /\ IsSeq(down) /\ IsSeq(up) /\ IsSeq(packets) /\ NoneOf("start_configuration", down)
      /\ NoneOf("configuration_acknowledged", up)
  BY PhaseParts DEF Steady, DownOK
<1>2. NoneOf("start_configuration", down')
  BY <1>1, NonePushed DEF Steady
<1>3. NoneOf("configuration_acknowledged", up')
  BY <1>1, NonePopped
<1>4. ASSUME NEW i \in DOMAIN down', down'[i].kind = "login"
      PROVE  i = 1 /\ task.configuring /\ up' = <<>>
  <2>1. i \in DOMAIN down /\ down'[i] = down[i]
    BY <1>1, <1>4, InJoined DEF Steady, NoneOf
  <2> QED BY <1>4, <2>1 DEF Phase
<1>5. (task.configuring => task.decode = None)
  BY DEF Phase
<1> QED BY <1>2, <1>3, <1>4, <1>5 DEF Phase, NoneOf

\* The acknowledgement is the last packet of the old login, in either direction.
LEMMA Rejoins ==
  ASSUME Typed, Phase, Relogs
  PROVE  /\ task.configuring /\ wserver.configuring /\ down = <<>> /\ up' = <<>> /\ DOMAIN up' = {}
         /\ \E packets : down' = packets /\ IsLogin(packets, wserver')
<1>1. IsSeq(down) /\ IsSeq(up)
  BY PhaseParts
<1>2. up # <<>> /\ up[1].kind = "configuration_acknowledged" /\ 1 \in DOMAIN up /\ up' = Tail(up)
  BY <1>1, Popped DEF Relogs
<1>3. Len(up) = 1 /\ task.configuring /\ wserver.configuring /\ down = <<>>
  BY <1>2 DEF Phase
<1>4. up' = <<>> /\ DOMAIN up' = {}
  <2>1. IsSeq(up') /\ Len(up') = 0
    BY <1>1, <1>2, <1>3, Popped
  <2>2. up' = <<>>
    BY <2>1, SeqParts
  <2> QED BY <2>2, Short
<1>5. PICK packets : down' = down \o packets /\ IsLogin(packets, wserver')
  BY DEF Relogs
<1>6. down' = packets
  BY <1>3, <1>5, LoginDown, NothingBefore DEF DownOK
<1> QED BY <1>3, <1>4, <1>5, <1>6

LEMMA PhaseServer ==
  ASSUME Typed, Phase, TalkEffect
  PROVE  Phase'
<1>1. UNCHANGED task /\ IsSeq(down) /\ IsSeq(up)
  BY PhaseParts DEF TalkEffect, Still
<1>2. ASSUME NEW packets, Utters(packets) PROVE Phase'
  BY <1>1, <1>2, PhaseTalked DEF Utters, Plays
<1>3. CASE Places1
  <2>1. PICK p : p.kind = "position" /\ DownOK(<<p>>) /\ down' = down \o <<p>>
    BY <1>3 DEF Places1, IsNew
  <2>2. Steady(<<p>>)
    BY <2>1, Short DEF Steady, NoneOf
  <2> QED BY <1>1, <1>3, <2>1, <2>2, PhaseTalked DEF Places1, Plays
<1>4. CASE Returns
  <2>1. PICK packets : down' = down \o packets /\ IsRespawn(packets, wserver')
    BY <1>4 DEF Returns
  <2>2. Steady(packets)
    BY <2>1, RespawnSteady
  <2>3. ~wserver.configuring /\ ~wserver'.configuring
    BY <1>4 DEF Returns, IsBack
  <2> QED BY <1>1, <1>4, <2>1, <2>2, <2>3, PhaseTalked DEF Returns
<1>5. CASE Hears
  <2>1. up # <<>> /\ up' = Tail(up) /\ down' = down /\ wserver'.configuring = wserver.configuring
    BY <1>5 DEF Hears
  <2>2. NoneOf("login", down)
    BY <2>1, PhaseParts
  <2>3. ASSUME NEW i \in DOMAIN up', up'[i].kind = "configuration_acknowledged"
        PROVE  i = Len(up') /\ wserver.configuring /\ task.configuring /\ down = <<>>
    <3>1. i + 1 \in DOMAIN up /\ up'[i] = up[i + 1] /\ (i + 1 = Len(up) => i = Len(up'))
      BY <1>1, <2>1, InTail
    <3> QED BY <2>3, <3>1 DEF Phase
  <2>4. wserver'.configuring =>
          wserver'.awaiting = None /\ wserver'.asked = {} /\ wserver'.batches = 0
    <3>1. wserver.configuring =>
            wserver.awaiting = None /\ wserver.asked = {} /\ wserver.batches = 0
      BY DEF Phase
    <3> QED BY <1>5, <2>1, <3>1 DEF Hears
  <2> QED BY <1>1, <2>1, <2>2, <2>3, <2>4 DEF Phase, NoneOf
<1>6. CASE Reconfigures
  <2> DEFINE p == [kind |-> "start_configuration"]
  <2>1. down' = down \o <<p>> /\ up' = up /\ ~wserver.configuring /\ wserver'.configuring
        /\ wserver'.awaiting = None /\ wserver'.asked = {} /\ wserver'.batches = 0
    BY <1>6 DEF Reconfigures
  <2>2. p.kind = "start_configuration"
    OBVIOUS
  <2> HIDE DEF p
  <2>3. NoneOf("start_configuration", down) /\ NoneOf("configuration_acknowledged", up)
    BY <2>1, PhaseParts
  <2>4. ASSUME NEW i \in DOMAIN down'
        PROVE  /\ down'[i].kind = "start_configuration" => i = Len(down')
               /\ down'[i].kind = "login" => i = 1 /\ task.configuring /\ up' = <<>>
    <3>1. IsSeq(<<p>>) /\ DOMAIN <<p>> = {1} /\ Len(<<p>>) = 1 /\ <<p>>[1] = p
      BY Short
    <3>2. Len(down) \in Nat /\ Len(down') = Len(down) + 1 /\ DOMAIN down' = 1 .. Len(down) + 1
      BY <1>1, <2>1, <3>1, Joined
    <3>3. \/ i \in DOMAIN down /\ down'[i] = down[i]
          \/ i - Len(down) = 1 /\ down'[i] = p
      BY <1>1, <2>1, <3>1, InJoined
    <3>4. CASE i \in DOMAIN down /\ down'[i] = down[i]
      BY <2>1, <2>3, <3>4 DEF NoneOf, Phase
    <3> QED BY <2>2, <3>2, <3>3, <3>4
  <2>5. (task.configuring => task.decode = None)
    BY DEF Phase
  <2> QED BY <1>1, <2>1, <2>3, <2>4, <2>5 DEF Phase, NoneOf
<1>7. CASE Relogs
  <2>1. task.configuring /\ up' = <<>> /\ DOMAIN up' = {}
    BY <1>7, Rejoins
  <2>2. PICK packets : down' = packets /\ IsLogin(packets, wserver')
    BY <1>7, Rejoins
  <2>3. ~wserver'.configuring
    BY <1>7 DEF Relogs, IsNewLogin
  <2>4. \A i \in DOMAIN packets : /\ packets[i].kind # "start_configuration"
                                  /\ packets[i].kind = "login" => i = 1
    BY <2>2, LoginSteady
  <2>5. (task.configuring => task.decode = None)
    BY DEF Phase
  <2> QED BY <1>1, <2>1, <2>2, <2>3, <2>4, <2>5 DEF Phase
<1> QED BY <1>2, <1>3, <1>4, <1>5, <1>6, <1>7 DEF TalkEffect

LEMMA PhaseInventory ==
  ASSUME Typed, Phase, InventoryEffect
  PROVE  Phase'
<1>1. UNCHANGED <<task, wserver>> /\ IsSeq(down) /\ IsSeq(up)
  BY PhaseParts DEF InventoryEffect
<1>2. CASE UNCHANGED <<up, down>>
  BY <1>1, <1>2 DEF Phase
<1>3. CASE ~task.configuring /\ down' = down /\ \E out : SentOnly(out) /\ up' = up \o out
  <2>1. PICK out : SentOnly(out) /\ up' = up \o out
    BY <1>3
  <2>2. IsSeq(out) /\ NoneOf("configuration_acknowledged", out)
    BY <2>1, NoneSaid DEF Says, Told1, UpOK
  <2> QED BY <1>1, <1>3, <2>1, <2>2, PhaseAnswered
<1>4. CASE Reads(InventoryKinds) /\ up' = up /\ down' = Tail(down)
  <2>1. ~task.configuring /\ down # <<>>
    BY <1>4 DEF Reads, MayRead
  <2>2. up' = up \o <<>>
    BY <1>1, <1>4, NothingSaid
  <2>3. IsSeq(<<>>) /\ NoneOf("configuration_acknowledged", <<>>)
    BY Short DEF NoneOf
  <2> QED BY <1>1, <1>4, <2>1, <2>2, <2>3, PhaseAnswered
<1>5. ASSUME ~wserver.configuring, up' = up \/ (up # <<>> /\ up' = Tail(up)),
             NEW out, UpdatesOnly(out), down' = down \o out
      PROVE  Phase'
  BY <1>1, <1>5, NoneSaid, PhaseTalked
<1> QED BY <1>2, <1>3, <1>4, <1>5 DEF InventoryEffect

LEMMA PhaseStep ==
  ASSUME Typed, Phase, [Next]_vars
  PROVE  Phase'
<1>1. CASE InventoryStep
  <2>1. InventoryEffect
    BY <1>1, InventoryStepEffect DEF Typed, ServerOK
  <2> QED BY <2>1, PhaseInventory
<1>2. CASE WorldClient
  BY <1>2, WorldClientEffect, PhaseClient
<1>3. CASE WorldServer
  BY <1>3, WorldServerTalk, PhaseServer
<1>4. CASE UNCHANGED vars
  BY <1>4 DEF vars, Phase
<1> QED BY <1>1, <1>2, <1>3, <1>4 DEF Next

LEMMA PhaseInit ==
  ASSUME Init
  PROVE  Phase
<1>1. up = <<>> /\ down = <<>> /\ ~wserver.configuring /\ task.decode = None
  BY DEF Init, InventoryInit, Settled
<1> QED BY <1>1, Short DEF Phase

-----------------------------------------------------------------------------
\* Teleports: what the client computes after the last one is known by the packet it
\* comes with.

LEMMA TeleportIds ==
  ASSUME Typed
  PROVE  /\ IsSeq(up) /\ IsSeq(down) /\ wserver \in Servers
         /\ \A i \in DOMAIN up : up[i].kind = "confirm" => up[i].id \in Nat
         /\ \A i \in DOMAIN down : down[i].kind = "position" =>
              down[i].id \in Nat /\ down[i].serial \in Nat
         /\ wserver.teleport \in Nat /\ wserver.sent \in Nat /\ None \notin Nat
<1>1. UpOK(up) /\ DownOK(down) /\ wserver \in Servers
  BY DEF Typed, ServerOK
<1>2. \A i \in DOMAIN up : up[i].kind = "confirm" => up[i].id \in Nat
  <2> TAKE i \in DOMAIN up
  <2>1. up[i].kind \in SentKinds \/ up[i] \in Answers
    BY <1>1 DEF UpOK
  <2> DEFINE p == up[i]
  <2> HIDE DEF p
  <2>2. p.kind \in SentKinds \/ p \in Answers
    BY <2>1 DEF p
  <2>3. p.kind = "confirm" => p.id \in Nat
    BY <2>2 DEF Answers, SentKinds, CommandKinds
  <2> QED BY <2>3 DEF p
<1>3. \A i \in DOMAIN down : down[i].kind = "position" =>
        down[i].id \in Nat /\ down[i].serial \in Nat
  <2> TAKE i \in DOMAIN down
  <2>1. down[i].kind \in InventoryKinds \/ down[i] \in WorldPackets
    BY <1>1 DEF DownOK
  <2> DEFINE p == down[i]
  <2> HIDE DEF p
  <2>2. p.kind \in InventoryKinds \/ p \in WorldPackets
    BY <2>1 DEF p
  <2>3. p.kind = "position" => p.id \in Nat /\ p.serial \in Nat
    BY <2>2 DEF WorldPackets, InventoryKinds
  <2> QED BY <2>3 DEF p
<1>4. wserver.teleport \in Nat /\ wserver.sent \in Nat /\ None \notin Nat
  BY <1>1, ServerFields, SessionAssumption
<1> QED BY <1>1, <1>2, <1>3, <1>4 DEF UpOK, DownOK

\* What is left of the packets from the server when one is read.
LEMMA PositionsRead ==
  ASSUME Typed, Teleports, UNCHANGED wserver, down' = down \/ (down # <<>> /\ down' = Tail(down))
  PROVE  /\ NoneOf("position", down) => NoneOf("position", down')
         /\ \A i \in DOMAIN down' : down'[i].kind = "position" => down'[i].id <= wserver'.teleport
         /\ \A i \in DOMAIN down' : IsA(down'[i], "position", wserver'.awaiting) =>
              /\ down'[i].serial = wserver'.sent
              /\ \A j \in DOMAIN down' : j > i => down'[j].kind # "position"
<1>1. IsSeq(down)
  BY TeleportIds
<1>2. CASE down' = down
  BY <1>2 DEF Teleports
<1>3. CASE down # <<>> /\ down' = Tail(down)
  <2>1. NoneOf("position", down) => NoneOf("position", down')
    BY <1>1, <1>3, NonePopped
  <2>2. \A i \in DOMAIN down' : i \in Nat /\ i + 1 \in DOMAIN down /\ down'[i] = down[i + 1]
    BY <1>1, <1>3, InTail
  <2>3. \A i \in DOMAIN down' : down'[i].kind = "position" => down'[i].id <= wserver.teleport
    BY <2>2 DEF Teleports
  <2>4. ASSUME NEW i \in DOMAIN down', IsA(down'[i], "position", wserver.awaiting)
        PROVE  /\ down'[i].serial = wserver.sent
               /\ \A j \in DOMAIN down' : j > i => down'[j].kind # "position"
    <3>1. IsA(down[i + 1], "position", wserver.awaiting) /\ i + 1 \in DOMAIN down
      BY <2>2, <2>4
    <3>2. /\ down[i + 1].serial = wserver.sent
          /\ \A j \in DOMAIN down : j > i + 1 => down[j].kind # "position"
      BY <3>1 DEF Teleports
    <3>3. ASSUME NEW j \in DOMAIN down', j > i PROVE down'[j].kind # "position"
      <4>1. j + 1 \in DOMAIN down /\ j + 1 > i + 1 /\ down'[j] = down[j + 1]
        BY <2>2, <3>3
      <4> QED BY <3>2, <4>1
    <3> QED BY <2>2, <3>2, <3>3
  <2> QED BY <2>1, <2>3, <2>4
<1> QED BY <1>2, <1>3

\* The client reads and says anything but a confirmation; it moves from where it simulates.
LEMMA TeleportsAnswered ==
  ASSUME Typed, Teleports, UNCHANGED wserver, KeepsSim,
         down' = down \/ (down # <<>> /\ down' = Tail(down)),
         NEW out, up' = up \o out, IsSeq(out), NoneOf("confirm", out),
         \A i \in DOMAIN out : out[i].kind = "move" =>
            task.sim # None /\ out[i].after = task.sim.after
  PROVE  Teleports'
<1>1. IsSeq(up) /\ IsSeq(down)
  BY TeleportIds
<1>2. UpToDate => UpToDate'
  BY DEF KeepsSim, UpToDate
<1>3. \A i \in DOMAIN up' : \/ i \in DOMAIN up /\ up'[i] = up[i]
                            \/ i - Len(up) \in DOMAIN out /\ up'[i] = out[i - Len(up)]
  BY <1>1, InJoined
<1>4. UpToDate =>
        \A i \in DOMAIN up' : up'[i].kind = "move" /\ up'[i].after # wserver.sent =>
            i \in DOMAIN up /\ up'[i] = up[i]
  BY <1>3 DEF UpToDate
<1>5. \A i \in DOMAIN up' : up'[i].kind = "confirm" => i \in DOMAIN up /\ up'[i] = up[i]
  BY <1>3 DEF NoneOf
<1>6. \A i \in DOMAIN up' : up'[i].kind = "confirm" => up'[i].id <= wserver.teleport
  BY <1>5 DEF Teleports
<1>7. ~wserver.configuring /\ wserver.awaiting = None =>
        /\ NoneOf("position", down') /\ UpToDate'
        /\ \A i \in DOMAIN up' : up'[i].kind = "move" => up'[i].after = wserver.sent
  <2> SUFFICES ASSUME ~wserver.configuring, wserver.awaiting = None
               PROVE  /\ NoneOf("position", down') /\ UpToDate'
                      /\ \A i \in DOMAIN up' : up'[i].kind = "move" => up'[i].after = wserver.sent
    OBVIOUS
  <2>1. /\ NoneOf("position", down) /\ UpToDate
        /\ \A i \in DOMAIN up : up[i].kind = "move" => up[i].after = wserver.sent
    BY DEF Teleports
  <2> QED BY <2>1, <1>2, <1>4, PositionsRead
<1>8. ASSUME NEW c \in DOMAIN up', IsA(up'[c], "confirm", wserver.awaiting)
      PROVE  /\ NoneOf("position", down') /\ UpToDate'
             /\ \A i \in DOMAIN up' : i > c /\ up'[i].kind = "move" => up'[i].after = wserver.sent
  <2>1. c \in DOMAIN up /\ IsA(up[c], "confirm", wserver.awaiting)
    BY <1>5, <1>8 DEF IsA
  <2>2. /\ NoneOf("position", down) /\ UpToDate
        /\ \A i \in DOMAIN up : i > c /\ up[i].kind = "move" => up[i].after = wserver.sent
    BY <2>1 DEF Teleports
  <2> QED BY <2>2, <1>2, <1>4, PositionsRead
<1>9. wserver.awaiting \in {None, wserver.teleport}
  BY DEF Teleports
<1> QED BY <1>6, <1>7, <1>8, <1>9, PositionsRead DEF Teleports

\* absolute_position_update: confirmed and reconciled in one step.
LEMMA TeleportsConfirmed ==
  ASSUME Typed, Teleports, Confirms, UNCHANGED wserver
  PROVE  Teleports'
<1> DEFINE q == [kind |-> "confirm", id |-> Frame.id]
<1>1. IsSeq(up) /\ IsSeq(down)
  BY TeleportIds
<1>2. /\ down # <<>> /\ down' = Tail(down) /\ up' = up \o <<q>> /\ down[1] = Frame
      /\ 1 \in DOMAIN down /\ Frame.kind = "position" /\ Len(up) \in Nat
  BY <1>1, Popped, SeqParts DEF Confirms, Reading, Frame
<1>3. (task'.sim = None \/ task'.sim.after = Frame.serial) /\ q.kind = "confirm" /\ q.id = Frame.id
  BY DEF Confirms
<1> HIDE DEF q, Frame
<1>4. ~NoneOf("position", down)
  BY <1>2 DEF NoneOf
<1>5. \A i \in DOMAIN up' : \/ i \in DOMAIN up /\ up'[i] = up[i]
                            \/ i - Len(up) = 1 /\ up'[i] = q
  <2>1. IsSeq(<<q>>) /\ DOMAIN <<q>> = {1} /\ <<q>>[1] = q
    BY Short
  <2> QED BY <1>1, <1>2, <2>1, InJoined
<1>6. Frame.id <= wserver.teleport
  BY <1>2 DEF Teleports
<1>7. \A i \in DOMAIN up' : up'[i].kind = "confirm" => up'[i].id <= wserver.teleport
  BY <1>3, <1>5, <1>6 DEF Teleports
<1>8. wserver.configuring \/ wserver.awaiting # None
  BY <1>4 DEF Teleports
<1>9. ASSUME NEW c \in DOMAIN up', IsA(up'[c], "confirm", wserver.awaiting)
      PROVE  /\ NoneOf("position", down') /\ UpToDate'
             /\ \A i \in DOMAIN up' : i > c /\ up'[i].kind = "move" => up'[i].after = wserver.sent
  <2>1. ~(c \in DOMAIN up /\ up'[c] = up[c])
    BY <1>4, <1>9 DEF Teleports
  <2>2. c = Len(up) + 1 /\ up'[c] = q
    <3>1. c - Len(up) = 1 /\ up'[c] = q
      BY <1>5, <2>1
    <3>2. c \in Int
      <4>1. IsSeq(<<q>>) /\ Len(<<q>>) = 1
        BY Short
      <4>2. DOMAIN up' = 1 .. Len(up) + 1
        BY <1>1, <1>2, <4>1, Joined
      <4> QED BY <1>2, <4>2
    <3> QED BY <1>2, <3>1, <3>2
  <2>3. IsA(down[1], "position", wserver.awaiting)
    BY <1>2, <1>3, <1>9, <2>2 DEF IsA
  <2>4. /\ Frame.serial = wserver.sent
        /\ \A j \in DOMAIN down : j > 1 => down[j].kind # "position"
    BY <1>2, <2>3 DEF Teleports
  <2>5. NoneOf("position", down')
    <3> SUFFICES ASSUME NEW i \in DOMAIN down' PROVE down'[i].kind # "position"
      BY DEF NoneOf
    <3>1. i \in Nat /\ i >= 1 /\ i + 1 \in DOMAIN down /\ down'[i] = down[i + 1]
      BY <1>1, <1>2, InTail
    <3>2. i + 1 > 1
      BY <3>1
    <3> QED BY <2>4, <3>1, <3>2
  <2>6. UpToDate'
    BY <1>3, <2>4 DEF UpToDate
  <2>7. \A i \in DOMAIN up' : ~(i > c)
    <3>1. IsSeq(<<q>>) /\ Len(<<q>>) = 1
      BY Short
    <3>2. DOMAIN up' = 1 .. Len(up) + 1
      BY <1>1, <1>2, <3>1, Joined
    <3> QED BY <1>2, <2>2, <3>2
  <2> QED BY <2>5, <2>6, <2>7
<1>10. wserver.awaiting \in {None, wserver.teleport}
  BY DEF Teleports
<1>11. down' = down \/ (down # <<>> /\ down' = Tail(down))
  BY <1>2
<1> QED BY <1>7, <1>8, <1>9, <1>10, <1>11, PositionsRead DEF Teleports

LEMMA TeleportsClient ==
  ASSUME Typed, Teleports, ClientEffect
  PROVE  Teleports'
<1>1. UNCHANGED wserver
  BY DEF ClientEffect, Calm
<1>2. ASSUME KeepsSim, down' = down \/ (down # <<>> /\ down' = Tail(down)),
             NEW out, Says(out), up' = up \o out
      PROVE  Teleports'
  <2>1. IsSeq(out) /\ NoneOf("confirm", out) /\ NoneOf("move", out)
    BY <1>2 DEF Says, Told1, UpOK
  <2>2. \A i \in DOMAIN out : out[i].kind = "move" => task.sim # None /\ out[i].after = task.sim.after
    BY <2>1 DEF NoneOf
  <2> QED BY <1>1, <1>2, <2>1, <2>2, TeleportsAnswered
<1>3. CASE AsksNothing \/ TurnedDown
  <2>1. KeepsSim
    BY <1>3 DEF AsksNothing, TurnedDown, KeepsTask, KeepsSim
  <2> QED BY <1>2, <1>3, <2>1, SaysShort DEF AsksNothing, TurnedDown, Reading
<1>4. CASE Decoded
  BY <1>2, <1>4, SaysShort DEF Decoded, KeepsTask
<1>5. CASE Moves
  <2>1. PICK m : m.kind = "move" /\ m.after = task.sim.after /\ up' = up \o <<m>>
    BY <1>5 DEF Moves
  <2>2. IsSeq(<<m>>) /\ NoneOf("confirm", <<m>>)
        /\ \A i \in DOMAIN <<m>> : <<m>>[i].kind = "move" =>
              task.sim # None /\ <<m>>[i].after = task.sim.after
    BY <1>5, <2>1, Short DEF NoneOf, Moves
  <2> QED BY <1>1, <1>5, <2>1, <2>2, TeleportsAnswered DEF Moves, KeepsTask
<1>6. CASE Confirms
  BY <1>1, <1>6, TeleportsConfirmed
<1>7. CASE Echoes
  <2>1. Frame.kind = "keep_alive" /\ Reading(<<Frame>>) /\ UNCHANGED task
    BY <1>7 DEF Echoes
  <2>2. Plain(Frame)
    <3>1. Frame \in [kind : {"keep_alive"}, id : Nat]
      BY <2>1, FrameWorld DEF Reading, Typed
    <3> HIDE DEF Frame
    <3>2. Frame \in Answers
      BY <3>1 DEF Answers
    <3> QED BY <2>1, <3>2 DEF Plain
  <2> HIDE DEF Frame
  <2>3. KeepsSim
    BY <2>1 DEF KeepsSim
  <2> QED BY <1>2, <2>1, <2>2, <2>3, SaysShort DEF Reading
<1>8. CASE Acknowledges \/ AsksBack
  <2>1. PICK out : Says(out) /\ Reading(out)
    BY <1>8 DEF Acknowledges, AsksBack
  <2> QED BY <1>2, <1>8, <2>1 DEF Acknowledges, AsksBack, Reading, KeepsTask
<1>9. CASE Leaves
  <2> DEFINE p == [kind |-> "configuration_acknowledged"]
  <2>1. Reading(<<p>>) /\ KeepsSim /\ p.kind = "configuration_acknowledged"
    BY <1>9 DEF Leaves
  <2> HIDE DEF p
  <2>2. IsSeq(<<p>>) /\ NoneOf("confirm", <<p>>)
        /\ \A i \in DOMAIN <<p>> : <<p>>[i].kind = "move" =>
              task.sim # None /\ <<p>>[i].after = task.sim.after
    BY <2>1, Short DEF NoneOf
  <2> QED BY <1>1, <2>1, <2>2, TeleportsAnswered DEF Reading
<1>10. CASE Arrives
  BY <1>2, <1>10, SaysShort DEF Arrives, Reading, KeepsSim
<1> QED BY <1>3, <1>4, <1>5, <1>6, <1>7, <1>8, <1>9, <1>10 DEF ClientEffect

LEMMA UpLeft ==
  ASSUME Typed, up' = up \/ (up # <<>> /\ up' = Tail(up))
  PROVE  \E d \in {0, 1} : \A i \in DOMAIN up' :
           i \in Nat /\ i + d \in DOMAIN up /\ up'[i] = up[i + d]
<1>1. IsSeq(up)
  BY TeleportIds
<1>2. CASE up' = up
  <2>1. \A i \in DOMAIN up' : i \in Nat /\ i + 0 \in DOMAIN up /\ up'[i] = up[i + 0]
    BY <1>1, <1>2, SeqParts
  <2> QED BY <2>1
<1>3. CASE up # <<>> /\ up' = Tail(up)
  <2>1. \A i \in DOMAIN up' : i \in Nat /\ i + 1 \in DOMAIN up /\ up'[i] = up[i + 1]
    BY <1>1, <1>3, InTail
  <2> QED BY <2>1
<1> QED BY <1>2, <1>3

\* The server takes a packet or none and says anything but a position.
LEMMA TeleportsTalked ==
  ASSUME Typed, Teleports, UNCHANGED task, SameTeleport,
         wserver'.configuring <=> wserver.configuring,
         up' = up \/ (up # <<>> /\ up' = Tail(up)),
         NEW packets, IsSeq(packets), NoneOf("position", packets), down' = down \o packets
  PROVE  Teleports'
<1>1. PICK d \in {0, 1} : \A i \in DOMAIN up' :
        i \in Nat /\ i + d \in DOMAIN up /\ up'[i] = up[i + d]
  BY UpLeft
<1>2. IsSeq(down)
  BY TeleportIds
<1>3. \A i \in DOMAIN down' : down'[i].kind = "position" => i \in DOMAIN down /\ down'[i] = down[i]
  BY <1>2, InJoined DEF NoneOf
<1>4. NoneOf("position", down) => NoneOf("position", down')
  BY <1>3 DEF NoneOf
<1>5. wserver'.awaiting \in {None, wserver'.teleport}
  BY DEF Teleports, SameTeleport
<1>6. \A i \in DOMAIN down' : down'[i].kind = "position" => down'[i].id <= wserver'.teleport
  BY <1>3 DEF Teleports, SameTeleport
<1>7. \A i \in DOMAIN up' : up'[i].kind = "confirm" => up'[i].id <= wserver'.teleport
  BY <1>1 DEF Teleports, SameTeleport
<1>8. UpToDate' <=> UpToDate
  BY DEF UpToDate, SameTeleport
<1>9. ~wserver'.configuring /\ wserver'.awaiting = None =>
        /\ NoneOf("position", down') /\ UpToDate'
        /\ \A i \in DOMAIN up' : up'[i].kind = "move" => up'[i].after = wserver'.sent
  BY <1>1, <1>4, <1>8 DEF Teleports, SameTeleport
<1>10. ASSUME NEW c \in DOMAIN up', IsA(up'[c], "confirm", wserver'.awaiting)
       PROVE  /\ NoneOf("position", down') /\ UpToDate'
              /\ \A i \in DOMAIN up' : i > c /\ up'[i].kind = "move" => up'[i].after = wserver'.sent
  <2>1. c + d \in DOMAIN up /\ IsA(up[c + d], "confirm", wserver.awaiting)
    BY <1>1, <1>10 DEF SameTeleport
  <2>2. /\ NoneOf("position", down) /\ UpToDate
        /\ \A i \in DOMAIN up : i > c + d /\ up[i].kind = "move" => up[i].after = wserver.sent
    BY <2>1 DEF Teleports
  <2>3. ASSUME NEW i \in DOMAIN up', i > c, up'[i].kind = "move"
        PROVE  up'[i].after = wserver'.sent
    <3>1. i + d \in DOMAIN up /\ up'[i] = up[i + d] /\ i + d > c + d
      BY <1>1, <1>10, <2>3
    <3> QED BY <2>2, <2>3, <3>1 DEF SameTeleport
  <2> QED BY <1>4, <1>8, <2>2, <2>3
<1>11. ASSUME NEW i \in DOMAIN down', IsA(down'[i], "position", wserver'.awaiting)
       PROVE  /\ down'[i].serial = wserver'.sent
              /\ \A j \in DOMAIN down' : j > i => down'[j].kind # "position"
  <2>1. i \in DOMAIN down /\ down'[i] = down[i] /\ IsA(down[i], "position", wserver.awaiting)
    BY <1>3, <1>11 DEF IsA, SameTeleport
  <2>2. /\ down[i].serial = wserver.sent
        /\ \A j \in DOMAIN down : j > i => down[j].kind # "position"
    BY <2>1 DEF Teleports
  <2> QED BY <1>3, <2>1, <2>2 DEF SameTeleport
<1> QED BY <1>5, <1>6, <1>7, <1>9, <1>10, <1>11 DEF Teleports

\* Of the packets one, at place k, is the new position.
OneNew(packets, k) ==
    /\ k \in DOMAIN packets /\ IsNew(packets[k])
    /\ \A j \in DOMAIN packets : packets[j].kind = "position" => j = k

LEMMA TeleportsNew ==
  ASSUME Typed, Teleports, NewTeleport,
         up' = up \/ (up # <<>> /\ up' = Tail(up)),
         NEW packets, IsSeq(packets), down' = down \o packets, NEW k, OneNew(packets, k)
  PROVE  Teleports'
<1>1. PICK d \in {0, 1} : \A i \in DOMAIN up' :
        i \in Nat /\ i + d \in DOMAIN up /\ up'[i] = up[i + d]
  BY UpLeft
<1>2. /\ IsSeq(down) /\ wserver.teleport \in Nat /\ wserver.sent \in Nat /\ None \notin Nat
      /\ \A i \in DOMAIN up : up[i].kind = "confirm" => up[i].id \in Nat
      /\ \A i \in DOMAIN down : down[i].kind = "position" => down[i].id \in Nat
  BY TeleportIds
<1>3. wserver'.awaiting = wserver'.teleport /\ wserver'.awaiting # None
      /\ wserver'.teleport = wserver.teleport + 1 /\ wserver'.sent = wserver.sent + 1
  BY <1>2 DEF NewTeleport
<1>4. \A i \in DOMAIN up' : up'[i].kind = "confirm" => up'[i].id <= wserver.teleport
  BY <1>1 DEF Teleports
<1>5. \A i \in DOMAIN up' : up'[i].kind = "confirm" =>
        up'[i].id <= wserver'.teleport /\ up'[i].id # wserver'.awaiting
  BY <1>1, <1>2, <1>3, <1>4
<1>6. \A i \in DOMAIN down : down[i].kind = "position" =>
        down[i].id <= wserver'.teleport /\ down[i].id # wserver'.awaiting
  BY <1>2, <1>3 DEF Teleports
<1>7. ASSUME NEW i \in DOMAIN down', down'[i].kind = "position"
      PROVE  \/ i \in DOMAIN down /\ down'[i] = down[i]
             \/ i - Len(down) = k /\ IsNew(down'[i])
  <2>1. \/ i \in DOMAIN down /\ down'[i] = down[i]
        \/ i - Len(down) \in DOMAIN packets /\ down'[i] = packets[i - Len(down)]
    BY <1>2, InJoined
  <2> QED BY <1>7, <2>1 DEF OneNew
<1>8. \A i \in DOMAIN down' : down'[i].kind = "position" => down'[i].id <= wserver'.teleport
  BY <1>2, <1>3, <1>6, <1>7 DEF IsNew
<1>9. ASSUME NEW i \in DOMAIN down', IsA(down'[i], "position", wserver'.awaiting)
      PROVE  /\ down'[i].serial = wserver'.sent
             /\ \A j \in DOMAIN down' : j > i => down'[j].kind # "position"
  <2>1. i - Len(down) = k /\ IsNew(down'[i])
    BY <1>6, <1>7, <1>9 DEF IsA
  <2>2. Len(down) \in Nat /\ DOMAIN down = 1 .. Len(down) /\ DOMAIN down' = 1 .. Len(down) + Len(packets)
        /\ Len(packets) \in Nat /\ DOMAIN packets = 1 .. Len(packets)
    BY <1>2, Joined
  <2>3. k \in Nat /\ k >= 1 /\ i \in Nat
    BY <2>2 DEF OneNew
  <2>4. ASSUME NEW j \in DOMAIN down', j > i PROVE down'[j].kind # "position"
    <3>1. j \notin DOMAIN down /\ j - Len(down) # k
      BY <2>1, <2>2, <2>3, <2>4
    <3> QED BY <1>7, <3>1
  <2> QED BY <2>1, <2>4 DEF IsNew
<1> QED BY <1>3, <1>5, <1>8, <1>9 DEF Teleports, IsA

LEMMA RespawnNew ==
  ASSUME NEW packets, IsRespawn(packets, wserver')
  PROVE  IsSeq(packets) /\ OneNew(packets, 2)
<1>1. PICK r, p, rest :
        /\ packets = <<r, p>> \o rest
        /\ r \in WorldPackets /\ r.kind = "respawn" /\ r.stay = wserver'.stay
        /\ p \in WorldPackets /\ p.kind = "position" /\ p.id = wserver'.teleport
           /\ p.serial = wserver'.sent
        /\ DownOK(rest) /\ \A i \in DOMAIN rest : rest[i].kind = "rain"
  BY DEF IsRespawn
<1>2. /\ IsSeq(<<r, p>>) /\ DOMAIN <<r, p>> = {1, 2} /\ Len(<<r, p>>) = 2
      /\ <<r, p>>[1] = r /\ <<r, p>>[2] = p /\ IsSeq(rest)
  BY <1>1, Short DEF DownOK
<1>3. IsSeq(packets) /\ DOMAIN packets = 1 .. 2 + Len(rest) /\ Len(rest) \in Nat
      /\ packets[1] = r /\ packets[2] = p
  BY <1>1, <1>2, Joined
<1>4. \A i \in DOMAIN packets : \/ i \in {1, 2} /\ packets[i] = <<r, p>>[i]
                                \/ i - 2 \in DOMAIN rest /\ packets[i] = rest[i - 2]
  BY <1>1, <1>2, InJoined
<1>5. IsNew(p)
  BY <1>1 DEF IsNew
<1> QED BY <1>1, <1>2, <1>3, <1>4, <1>5 DEF OneNew

LEMMA LoginNew ==
  ASSUME NEW packets, IsLogin(packets, wserver')
  PROVE  IsSeq(packets) /\ OneNew(packets, 2)
<1>1. PICK login, position, rest :
        /\ packets = <<login, position>> \o rest /\ UpdatesOnly(rest)
        /\ login \in WorldPackets /\ login.kind = "login" /\ login.stay = wserver'.stay
        /\ position \in WorldPackets /\ position.kind = "position"
        /\ position.id = wserver'.teleport /\ position.serial = wserver'.sent
  BY DEF IsLogin
<1> DEFINE two == <<login, position>>
<1>2. /\ IsSeq(two) /\ DOMAIN two = {1, 2} /\ Len(two) = 2
      /\ two[1] = login /\ two[2] = position /\ IsSeq(rest)
  BY <1>1, Short DEF UpdatesOnly
<1>3. IsSeq(packets) /\ DOMAIN packets = 1 .. 2 + Len(rest) /\ Len(rest) \in Nat
      /\ packets[1] = login /\ packets[2] = position
  BY <1>1, <1>2, Joined
<1>4. \A i \in DOMAIN packets : \/ i \in {1, 2} /\ packets[i] = two[i]
                                \/ i - 2 \in DOMAIN rest /\ packets[i] = rest[i - 2]
  BY <1>1, <1>2, InJoined
<1>5. IsNew(position) /\ NoneOf("position", rest)
  BY <1>1, NoneSaid DEF IsNew
<1> HIDE DEF two
<1> QED BY <1>1, <1>2, <1>3, <1>4, <1>5 DEF OneNew, NoneOf

LEMMA TeleportsServer ==
  ASSUME Typed, Phase, Teleports, TalkEffect
  PROVE  Teleports'
<1>1. UNCHANGED task /\ IsSeq(down) /\ IsSeq(up) /\ wserver \in Servers
      /\ wserver.teleport \in Nat /\ None \notin Nat
  BY TeleportIds DEF TalkEffect, Still
<1>2. ASSUME NEW packets, Utters(packets) PROVE Teleports'
  BY <1>1, <1>2, TeleportsTalked DEF Utters, Plays, Steady, DownOK
<1>3. CASE Places1
  <2>1. PICK p : IsNew(p) /\ DownOK(<<p>>) /\ down' = down \o <<p>>
    BY <1>3 DEF Places1
  <2>2. IsSeq(<<p>>) /\ OneNew(<<p>>, 1)
    BY <2>1, Short DEF OneNew
  <2> QED BY <1>3, <2>1, <2>2, TeleportsNew DEF Places1
<1>4. CASE Returns
  <2>1. PICK packets : down' = down \o packets /\ IsRespawn(packets, wserver')
    BY <1>4 DEF Returns
  <2>2. NewTeleport
    BY <1>4 DEF Returns, IsBack, NewTeleport
  <2>3. up' = up \/ (up # <<>> /\ up' = Tail(up))
    BY <1>4 DEF Returns
  <2> QED BY <2>1, <2>2, <2>3, RespawnNew, TeleportsNew
<1>5. CASE Hears /\ wserver'.awaiting = wserver.awaiting
  <2>1. up # <<>> /\ up' = Tail(up) /\ down' = down
        /\ wserver'.configuring = wserver.configuring /\ SameTeleport
    BY <1>5 DEF Hears, SameTeleport
  <2>2. down' = down \o <<>> /\ IsSeq(<<>>) /\ NoneOf("position", <<>>)
    BY <1>1, <2>1, NothingSaid, Short DEF NoneOf
  <2> QED BY <1>1, <2>1, <2>2, TeleportsTalked
<1>6. CASE Hears /\ wserver'.awaiting = None /\ IsA(Head(up), "confirm", wserver.awaiting)
  <2>1. up # <<>> /\ up' = Tail(up) /\ down' = down /\ up[1] = Head(up) /\ 1 \in DOMAIN up
        /\ wserver'.teleport = wserver.teleport /\ wserver'.sent = wserver.sent
    BY <1>1, <1>6, Popped DEF Hears
  <2>2. /\ NoneOf("position", down) /\ UpToDate
        /\ \A i \in DOMAIN up : i > 1 /\ up[i].kind = "move" => up[i].after = wserver.sent
    BY <1>6, <2>1 DEF Teleports
  <2>3. \A i \in DOMAIN up' : i \in Nat /\ i >= 1 /\ i + 1 \in DOMAIN up /\ up'[i] = up[i + 1]
    BY <1>1, <2>1, InTail
  <2>4. \A i \in DOMAIN up' : up'[i].kind = "move" => up'[i].after = wserver.sent
    <3> TAKE i \in DOMAIN up'
    <3>1. i + 1 > 1 /\ i + 1 \in DOMAIN up /\ up'[i] = up[i + 1]
      BY <2>3
    <3> QED BY <2>2, <3>1
  <2>5. \A i \in DOMAIN up' : up'[i].kind = "confirm" =>
          up'[i].id \in Nat /\ up'[i].id <= wserver.teleport
    BY <2>3, TeleportIds DEF Teleports
  <2>6. UpToDate'
    BY <1>1, <2>1, <2>2 DEF UpToDate
  <2>7. \A i \in DOMAIN down' : down'[i].kind = "position" => down'[i].id <= wserver'.teleport
    BY <2>1 DEF Teleports
  <2>8. \A i \in DOMAIN up' : ~IsA(up'[i], "confirm", wserver'.awaiting)
    BY <1>1, <1>6, <2>5 DEF IsA
  <2>9. NoneOf("position", down')
    BY <2>1, <2>2
  <2>10. \A i \in DOMAIN down' : ~IsA(down'[i], "position", wserver'.awaiting)
    BY <2>9 DEF NoneOf, IsA
  <2> QED BY <1>6, <2>1, <2>4, <2>5, <2>6, <2>7, <2>8, <2>9, <2>10 DEF Teleports
<1>7. CASE Reconfigures
  <2> DEFINE p == [kind |-> "start_configuration"]
  <2>1. down' = down \o <<p>> /\ up' = up /\ p.kind = "start_configuration"
        /\ wserver'.teleport = wserver.teleport /\ wserver'.awaiting = None
        /\ wserver'.configuring
    BY <1>7 DEF Reconfigures
  <2> HIDE DEF p
  <2>2. IsSeq(<<p>>) /\ NoneOf("position", <<p>>)
    BY <2>1, Short DEF NoneOf
  <2>3. \A i \in DOMAIN down' : down'[i].kind = "position" => i \in DOMAIN down /\ down'[i] = down[i]
    BY <1>1, <2>1, <2>2, InJoined DEF NoneOf
  <2>4. \A i \in DOMAIN down' : down'[i].kind = "position" =>
          down'[i].id \in Nat /\ down'[i].id <= wserver'.teleport
    BY <2>1, <2>3, TeleportIds DEF Teleports
  <2>5. \A i \in DOMAIN up' : up'[i].kind = "confirm" =>
          up'[i].id \in Nat /\ up'[i].id <= wserver'.teleport
    BY <2>1, TeleportIds DEF Teleports
  <2>6. /\ \A i \in DOMAIN down' : ~IsA(down'[i], "position", wserver'.awaiting)
        /\ \A i \in DOMAIN up' : ~IsA(up'[i], "confirm", wserver'.awaiting)
    BY <1>1, <2>1, <2>4, <2>5 DEF IsA
  <2> QED BY <2>1, <2>4, <2>5, <2>6 DEF Teleports
<1>8. CASE Relogs
  <2>1. down = <<>> /\ up' = <<>> /\ DOMAIN up' = {}
    BY <1>8, Rejoins
  <2>2. PICK packets : down' = packets /\ IsLogin(packets, wserver')
    BY <1>8, Rejoins
  <2>3. OneNew(packets, 2) /\ IsSeq(packets)
    BY <2>2, LoginNew
  <2>4. wserver'.teleport = 1 /\ wserver'.awaiting = 1 /\ 1 # None
    BY <1>1, <1>8 DEF Relogs, IsNewLogin
  <2>5. \A i \in DOMAIN down' : down'[i].kind = "position" => i = 2 /\ IsNew(down'[i])
    BY <2>2, <2>3 DEF OneNew
  <2>6. \A i \in DOMAIN down' : down'[i].kind = "position" => down'[i].id <= wserver'.teleport
    BY <2>4, <2>5 DEF IsNew
  <2>7. \A i \in DOMAIN down' : IsA(down'[i], "position", wserver'.awaiting) =>
          /\ down'[i].serial = wserver'.sent
          /\ \A j \in DOMAIN down' : j > i => down'[j].kind # "position"
    BY <2>5 DEF IsNew, IsA
  <2> QED BY <2>1, <2>4, <2>6, <2>7 DEF Teleports
<1>9. CASE Hears
  BY <1>5, <1>6, <1>9 DEF Hears
<1> QED BY <1>2, <1>3, <1>4, <1>7, <1>8, <1>9 DEF TalkEffect

LEMMA TeleportsInventory ==
  ASSUME Typed, Teleports, InventoryEffect
  PROVE  Teleports'
<1>1. UNCHANGED <<task, wserver>> /\ IsSeq(down) /\ IsSeq(up) /\ KeepsSim /\ SameTeleport
  BY TeleportIds DEF InventoryEffect, KeepsSim, SameTeleport
<1>2. \E out : Says(out) /\ out = <<>>
  BY SaysShort
<1>3. ASSUME down' = down \/ (down # <<>> /\ down' = Tail(down)),
             NEW out, Says(out), up' = up \o out
      PROVE  Teleports'
  <2>1. IsSeq(out) /\ NoneOf("confirm", out) /\ NoneOf("move", out)
    BY <1>3 DEF Says, Told1, UpOK
  <2>2. \A i \in DOMAIN out : out[i].kind = "move" => task.sim # None /\ out[i].after = task.sim.after
    BY <2>1 DEF NoneOf
  <2> QED BY <1>1, <1>3, <2>1, <2>2, TeleportsAnswered
<1>4. CASE UNCHANGED <<up, down>>
  <2>1. up' = up \o <<>>
    BY <1>1, <1>4, NothingSaid
  <2> QED BY <1>3, <1>4, <2>1, SaysShort
<1>5. CASE ~task.configuring /\ down' = down /\ \E out : SentOnly(out) /\ up' = up \o out
  BY <1>3, <1>5, NoneSaid
<1>6. CASE Reads(InventoryKinds) /\ up' = up /\ down' = Tail(down)
  <2>1. up' = up \o <<>> /\ down # <<>>
    BY <1>1, <1>6, NothingSaid DEF Reads
  <2> QED BY <1>3, <1>6, <2>1, SaysShort
<1>7. ASSUME up' = up \/ (up # <<>> /\ up' = Tail(up)),
             NEW out, UpdatesOnly(out), down' = down \o out
      PROVE  Teleports'
  <2>1. IsSeq(out) /\ NoneOf("position", out)
    BY <1>7, NoneSaid DEF UpdatesOnly
  <2> QED BY <1>1, <1>7, <2>1, TeleportsTalked
<1> QED BY <1>4, <1>5, <1>6, <1>7 DEF InventoryEffect

LEMMA TeleportsStep ==
  ASSUME Typed, Phase, Teleports, [Next]_vars
  PROVE  Teleports'
<1>1. CASE InventoryStep
  <2>1. InventoryEffect
    BY <1>1, InventoryStepEffect DEF Typed, ServerOK
  <2> QED BY <2>1, TeleportsInventory
<1>2. CASE WorldClient
  BY <1>2, WorldClientEffect, TeleportsClient
<1>3. CASE WorldServer
  BY <1>3, WorldServerTalk, TeleportsServer
<1>4. CASE UNCHANGED vars
  BY <1>4 DEF vars, Teleports, UpToDate
<1> QED BY <1>1, <1>2, <1>3, <1>4 DEF Next

LEMMA TeleportsInit ==
  ASSUME Init
  PROVE  Teleports
<1>1. up = <<>> /\ down = <<>> /\ wserver.awaiting = None /\ wserver.sent = 1
      /\ (task.sim # None => task.sim.after = 1)
  BY DEF Init, InventoryInit, Settled
<1> QED BY <1>1, Short DEF Teleports, NoneOf, UpToDate

LEMMA Shorter ==
  ASSUME NEW s, IsSeq(s), s # <<>>
  PROVE  Tail(s) # s
<1> DEFINE n == Len(s)
<1>1. n \in Nat /\ Len(Tail(s)) = n - 1
  BY Popped
<1> HIDE DEF n
<1>2. n # n - 1
  BY <1>1
<1>3. ~(Tail(s) = s)
  <2> SUFFICES ASSUME Tail(s) = s PROVE FALSE
    OBVIOUS
  <2>1. Len(Tail(s)) = n
    BY Zenon DEF n
  <2> QED BY <1>1, <1>2, <2>1
<1> QED BY <1>3

\* What the server hears of a move it takes: it was made after the last teleport.
LEMMA MovesCurrent ==
  ASSUME Typed, Teleports, [Next]_vars
  PROVE  /\ up # <<>> /\ Head(up).kind = "move"
         /\ up' = Tail(up) /\ wserver'.x # wserver.x
         => Head(up).after = wserver.sent
<1> SUFFICES ASSUME up # <<>>, Head(up).kind = "move", up' = Tail(up), wserver'.x # wserver.x
             PROVE  Head(up).after = wserver.sent
  OBVIOUS
<1>1. IsSeq(up) /\ up' # up /\ 1 \in DOMAIN up /\ Head(up) = up[1]
  <2>1. IsSeq(up)
    BY TeleportIds
  <2>3. up' # up
    BY <2>1, Shorter
  <2> QED BY <2>1, <2>3, Popped
<1>2. ~InventoryStep
  BY DEF InventoryStep, sessionVars
<1>3. ~WorldClient
  <2>1. WorldClient => UNCHANGED wserver
    BY WorldClientEffect DEF ClientEffect, Calm
  <2> QED BY <2>1
<1>4. TalkEffect
  BY <1>1, <1>2, <1>3, WorldServerTalk DEF Next, vars
<1>5. Hears
  BY <1>1, <1>4 DEF TalkEffect, Utters, Places1, Returns, Reconfigures, Relogs
<1>6. ~wserver.configuring /\ wserver.awaiting = None
  BY <1>5 DEF Hears
<1>7. \A i \in DOMAIN up : up[i].kind = "move" => up[i].after = wserver.sent
  BY <1>6 DEF Teleports
<1> QED BY <1>1, <1>7

-----------------------------------------------------------------------------
\* Questions: what is asked stays on its way until its answer does.

LEMMA AskedPushed ==
  ASSUME NEW s, IsSeq(s), NEW t, IsSeq(t), NEW kind
  PROVE  /\ \A id : Asked(s, kind, id) \/ Asked(t, kind, id) => Asked(s \o t, kind, id)
         /\ Has(s, kind) \/ Has(t, kind) => Has(s \o t, kind)
<1>1. \A i \in DOMAIN s : i \in DOMAIN (s \o t) /\ (s \o t)[i] = s[i]
  <2> TAKE i \in DOMAIN s
  <2>1. /\ i \in 1 .. Len(s) /\ Len(s) \in Nat /\ Len(t) \in Nat
        /\ DOMAIN (s \o t) = 1 .. Len(s) + Len(t)
    BY Joined
  <2>2. (s \o t)[i] = s[i]
    BY <2>1, Joined
  <2> QED BY <2>1, <2>2
<1>2. \A i \in DOMAIN t : Len(s) + i \in DOMAIN (s \o t) /\ (s \o t)[Len(s) + i] = t[i]
  <2> TAKE i \in DOMAIN t
  <2>1. /\ i \in 1 .. Len(t) /\ Len(s) \in Nat /\ Len(t) \in Nat
        /\ DOMAIN (s \o t) = 1 .. Len(s) + Len(t)
    BY Joined
  <2>2. (s \o t)[Len(s) + i] = t[i]
    <3>1. \A j \in 1 .. Len(t) : (s \o t)[Len(s) + j] = t[j]
      BY Joined
    <3> QED BY <2>1, <3>1
  <2> QED BY <2>1, <2>2
<1>3. \A id : Asked(s, kind, id) \/ Asked(t, kind, id) => Asked(s \o t, kind, id)
  BY <1>1, <1>2 DEF Asked
<1>4. Has(s, kind) \/ Has(t, kind) => Has(s \o t, kind)
  BY <1>1, <1>2 DEF Has
<1> QED BY <1>3, <1>4

LEMMA AskedPopped ==
  ASSUME NEW s, IsSeq(s), s # <<>>, NEW kind
  PROVE  /\ \A id : Asked(s, kind, id) => IsA(Head(s), kind, id) \/ Asked(Tail(s), kind, id)
         /\ Has(s, kind) => Head(s).kind = kind \/ Has(Tail(s), kind)
<1>1. Len(s) \in Nat /\ DOMAIN s = 1 .. Len(s) /\ DOMAIN Tail(s) = 1 .. Len(s) - 1
      /\ Head(s) = s[1] /\ \A i \in 1 .. Len(s) - 1 : Tail(s)[i] = s[i + 1]
  BY Popped
<1>2. \A i \in DOMAIN s : i = 1 \/ (i - 1 \in DOMAIN Tail(s) /\ Tail(s)[i - 1] = s[i])
  <2> TAKE i \in DOMAIN s
  <2>1. CASE i # 1
    <3>1. i - 1 \in 1 .. Len(s) - 1 /\ (i - 1) + 1 = i
      BY <1>1, <2>1
    <3> QED BY <1>1, <3>1
  <2> QED BY <2>1
<1>3. \A id : Asked(s, kind, id) => IsA(Head(s), kind, id) \/ Asked(Tail(s), kind, id)
  BY <1>1, <1>2 DEF Asked
<1>4. Has(s, kind) => Head(s).kind = kind \/ Has(Tail(s), kind)
  BY <1>1, <1>2 DEF Has
<1> QED BY <1>3, <1>4

\* A frame that is read takes a question with it only if its answer is sent.
LEMMA QuestionsRead ==
  ASSUME Typed, Questions, UNCHANGED <<habit, wserver>>, Running' => Running,
         task.requested => task'.requested,
         NEW out, IsSeq(out), up' = up \o out,
         \/ down' = down
         \/ /\ down # <<>> /\ down' = Tail(down)
            /\ Frame.kind = "keep_alive" => Asked(out, "keep_alive", Frame.id)
            /\ Frame.kind = "position" => ~Running' \/ Asked(out, "confirm", Frame.id)
            /\ Frame.kind = "batch_finished" => Has(out, "batch_received")
            /\ Frame.kind = "health" => (WorldMode => task'.requested)
  PROVE  Questions'
<1>1. IsSeq(up) /\ IsSeq(down)
  BY TeleportIds
<1>2. /\ \A kind, id : Asked(up, kind, id) \/ Asked(out, kind, id) => Asked(up', kind, id)
      /\ \A kind : Has(up, kind) \/ Has(out, kind) => Has(up', kind)
  BY <1>1, AskedPushed
<1>3. /\ \A id : Asked(down, "keep_alive", id) =>
                  Asked(down', "keep_alive", id) \/ Asked(out, "keep_alive", id)
      /\ \A id : Asked(down, "position", id) =>
                  Asked(down', "position", id) \/ ~Running' \/ Asked(out, "confirm", id)
      /\ Has(down, "batch_finished") => Has(down', "batch_finished") \/ Has(out, "batch_received")
      /\ Has(down, "health") => Has(down', "health") \/ (WorldMode => task'.requested)
  <2>1. CASE down' = down
    BY <2>1
  <2>2. CASE /\ down # <<>> /\ down' = Tail(down)
             /\ Frame.kind = "keep_alive" => Asked(out, "keep_alive", Frame.id)
             /\ Frame.kind = "position" => ~Running' \/ Asked(out, "confirm", Frame.id)
             /\ Frame.kind = "batch_finished" => Has(out, "batch_received")
             /\ Frame.kind = "health" => (WorldMode => task'.requested)
    <3>1. /\ \A kind, id : Asked(down, kind, id) => IsA(Frame, kind, id) \/ Asked(down', kind, id)
          /\ \A kind : Has(down, kind) => Frame.kind = kind \/ Has(down', kind)
      BY <1>1, <2>2, AskedPopped DEF Frame
    <3> HIDE DEF Frame
    <3> QED BY <2>2, <3>1 DEF IsA
  <2> QED BY <2>1, <2>2
<1>4. \A id \in wserver'.asked :
        Asked(down', "keep_alive", id) \/ Asked(up', "keep_alive", id)
  BY <1>2, <1>3 DEF Questions
<1>5. Running' /\ wserver'.awaiting # None =>
        \/ Asked(down', "position", wserver'.awaiting)
        \/ Asked(up', "confirm", wserver'.awaiting)
  BY <1>2, <1>3 DEF Questions
<1>6. wserver'.batches # 0 => Has(down', "batch_finished") \/ Has(up', "batch_received")
  BY <1>2, <1>3 DEF Questions
<1>7. WorldMode' <=> WorldMode
  BY DEF WorldMode
<1>8. WorldMode' /\ ~wserver'.alive /\ ~task'.requested => Has(down', "health")
  BY <1>3, <1>7 DEF Questions
<1> QED BY <1>4, <1>5, <1>6, <1>8 DEF Questions

LEMMA QuestionsClient ==
  ASSUME Typed, Questions, ClientEffect
  PROVE  Questions'
<1>1. UNCHANGED <<habit, wserver>> /\ (Running' => Running)
  BY DEF ClientEffect, Calm
<1>2. CASE AsksNothing
  BY <1>1, <1>2, Short, QuestionsRead DEF AsksNothing, Reading, KeepsTask, Asking
<1>3. CASE Decoded
  BY <1>1, <1>3, Short, QuestionsRead DEF Decoded, KeepsTask
<1>4. CASE Moves
  BY <1>1, <1>4, Short, QuestionsRead DEF Moves, KeepsTask
<1>5. CASE TurnedDown
  <2>1. /\ down # <<>> /\ down' = Tail(down) /\ up' = up \o <<>> /\ Frame.kind = "position"
        /\ ~Running' /\ task' = task
    BY <1>5 DEF TurnedDown, Reading
  <2> HIDE DEF Frame
  <2> QED BY <1>1, <2>1, Short, QuestionsRead
<1>6. CASE Confirms
  <2> DEFINE q == [kind |-> "confirm", id |-> Frame.id]
  <2>1. /\ down # <<>> /\ down' = Tail(down) /\ up' = up \o <<q>> /\ Frame.kind = "position"
        /\ task'.requested = task.requested
    BY <1>6 DEF Confirms, Reading
  <2>2. IsA(q, "confirm", Frame.id)
    BY DEF IsA
  <2> HIDE DEF Frame, q
  <2>3. IsSeq(<<q>>) /\ Asked(<<q>>, "confirm", Frame.id)
    BY <2>2, Short DEF Asked
  <2> QED BY <1>1, <2>1, <2>3, QuestionsRead
<1>7. CASE Echoes
  <2>1. /\ down # <<>> /\ down' = Tail(down) /\ up' = up \o <<Frame>> /\ Frame.kind = "keep_alive"
        /\ task' = task
    BY <1>7 DEF Echoes, Reading
  <2> HIDE DEF Frame
  <2>2. IsSeq(<<Frame>>) /\ Asked(<<Frame>>, "keep_alive", Frame.id)
    BY <2>1, Short DEF Asked, IsA
  <2> QED BY <1>1, <2>1, <2>2, QuestionsRead
<1>8. CASE Acknowledges
  <2>1. PICK out : Says(out) /\ Has(out, "batch_received") /\ Reading(out)
    BY <1>8 DEF Acknowledges
  <2>2. IsSeq(out) /\ Frame.kind = "batch_finished" /\ task'.requested = task.requested
    BY <1>8, <2>1 DEF Acknowledges, Says, Told1, UpOK, KeepsTask
  <2> HIDE DEF Frame
  <2> QED BY <1>1, <2>1, <2>2, QuestionsRead DEF Reading
<1>9. CASE AsksBack
  <2>1. PICK out : Says(out) /\ Reading(out)
    BY <1>9 DEF AsksBack
  <2>2. IsSeq(out) /\ Frame.kind = "health" /\ (WorldMode => task'.requested)
        /\ (task.requested => task'.requested)
    BY <1>9, <2>1 DEF AsksBack, Says, Told1, UpOK
  <2> HIDE DEF Frame
  <2> QED BY <1>1, <2>1, <2>2, QuestionsRead DEF Reading
<1>10. CASE Leaves
  <2>1. \E out : IsSeq(out) /\ Reading(out)
    BY <1>10, Short DEF Leaves
  <2>2. Frame.kind = "start_configuration" /\ task'.requested = task.requested
    BY <1>10 DEF Leaves
  <2> HIDE DEF Frame
  <2> QED BY <1>1, <2>1, <2>2, QuestionsRead DEF Reading
<1>11. CASE Arrives
  <2>1. IsSeq(<<>>) /\ Reading(<<>>) /\ Frame.kind = "login" /\ task'.requested = task.requested
    BY <1>11, Short DEF Arrives
  <2> HIDE DEF Frame
  <2> QED BY <1>1, <2>1, QuestionsRead DEF Reading
<1> QED
  BY <1>2, <1>3, <1>4, <1>5, <1>6, <1>7, <1>8, <1>9, <1>10, <1>11 DEF ClientEffect

\* What the server asks it says, and it takes the answers to what it has asked.
LEMMA QuestionsTalked ==
  ASSUME Typed, Questions, UNCHANGED <<habit, task>>, Running' => Running,
         up' = up \/ (up # <<>> /\ up' = Tail(up)),
         NEW packets, IsSeq(packets), down' = down \o packets,
         \A id \in wserver'.asked :
            \/ id \in wserver.asked /\ (up' = up \/ ~IsA(Head(up), "keep_alive", id))
            \/ Asked(packets, "keep_alive", id),
         wserver'.awaiting # None =>
            \/ /\ wserver'.awaiting = wserver.awaiting
               /\ up' = up \/ ~IsA(Head(up), "confirm", wserver.awaiting)
            \/ Asked(packets, "position", wserver'.awaiting),
         wserver'.batches # 0 =>
            \/ wserver.batches # 0 /\ (up' = up \/ Head(up).kind # "batch_received")
            \/ Has(packets, "batch_finished"),
         ~wserver'.alive => ~wserver.alive \/ Has(packets, "health")
  PROVE  Questions'
<1>1. IsSeq(up) /\ IsSeq(down)
  BY TeleportIds
<1>2. /\ \A kind, id : Asked(down, kind, id) \/ Asked(packets, kind, id) => Asked(down', kind, id)
      /\ \A kind : Has(down, kind) \/ Has(packets, kind) => Has(down', kind)
  BY <1>1, AskedPushed
<1>3. /\ \A kind, id : Asked(up, kind, id) =>
            (up' # up /\ IsA(Head(up), kind, id)) \/ Asked(up', kind, id)
      /\ \A kind : Has(up, kind) => (up' # up /\ Head(up).kind = kind) \/ Has(up', kind)
  BY <1>1, AskedPopped
<1>4. \A id \in wserver'.asked :
        Asked(down', "keep_alive", id) \/ Asked(up', "keep_alive", id)
  BY <1>2, <1>3 DEF Questions
<1>5. Running' /\ wserver'.awaiting # None =>
        \/ Asked(down', "position", wserver'.awaiting)
        \/ Asked(up', "confirm", wserver'.awaiting)
  BY <1>2, <1>3 DEF Questions
<1>6. wserver'.batches # 0 => Has(down', "batch_finished") \/ Has(up', "batch_received")
  BY <1>2, <1>3 DEF Questions
<1>7. WorldMode' <=> WorldMode
  BY DEF WorldMode
<1>8. WorldMode' /\ ~wserver'.alive /\ ~task'.requested => Has(down', "health")
  BY <1>2, <1>7 DEF Questions
<1> QED BY <1>4, <1>5, <1>6, <1>8 DEF Questions

\* A new teleport is asked for where its packet is said.
LEMMA NewAsked ==
  ASSUME NEW packets, NEW k, OneNew(packets, k)
  PROVE  Asked(packets, "position", wserver'.teleport)
<1>1. k \in DOMAIN packets /\ IsA(packets[k], "position", wserver'.teleport)
  BY DEF OneNew, IsNew, IsA
<1> QED BY <1>1 DEF Asked

LEMMA QuestionsServer ==
  ASSUME Typed, Phase, Questions, TalkEffect
  PROVE  Questions'
<1>1. /\ UNCHANGED <<habit, task>> /\ (Running' => Running) /\ IsSeq(down) /\ IsSeq(up)
      /\ wserver.configuring =>
           wserver.awaiting = None /\ wserver.asked = {} /\ wserver.batches = 0
  BY TeleportIds DEF TalkEffect, Still, Running, Phase
<1>2. ASSUME NEW packets, Utters(packets) PROVE Questions'
  <2>1. /\ up' = up /\ down' = down \o packets /\ IsSeq(packets)
        /\ wserver'.awaiting = wserver.awaiting
        /\ \A id \in wserver'.asked : id \in wserver.asked \/ Asked(packets, "keep_alive", id)
        /\ wserver'.batches # 0 => wserver.batches # 0 \/ Has(packets, "batch_finished")
        /\ ~wserver'.alive => ~wserver.alive \/ Has(packets, "health")
    BY <1>2 DEF Utters, SameTeleport, Steady, DownOK
  <2> QED BY <1>1, <2>1, QuestionsTalked
<1>3. CASE Places1
  <2>1. PICK p : IsNew(p) /\ DownOK(<<p>>) /\ down' = down \o <<p>>
    BY <1>3 DEF Places1
  <2>2. IsSeq(<<p>>) /\ OneNew(<<p>>, 1)
    BY <2>1, Short DEF OneNew
  <2>3. /\ up' = up /\ wserver'.awaiting = wserver'.teleport /\ wserver'.asked = wserver.asked
        /\ wserver'.batches = wserver.batches /\ wserver'.alive = wserver.alive
    BY <1>3 DEF Places1, NewTeleport, SameAsked
  <2>4. Asked(<<p>>, "position", wserver'.awaiting)
    BY <2>2, <2>3, NewAsked
  <2> QED BY <1>1, <2>1, <2>2, <2>3, <2>4, QuestionsTalked
<1>4. CASE Returns
  <2>1. PICK packets : down' = down \o packets /\ IsRespawn(packets, wserver')
    BY <1>4 DEF Returns
  <2>2. IsSeq(packets) /\ OneNew(packets, 2)
    BY <2>1, RespawnNew
  <2>3. /\ wserver'.awaiting = wserver'.teleport /\ wserver'.asked = wserver.asked
        /\ wserver'.batches = wserver.batches /\ wserver'.alive
    BY <1>4 DEF Returns, IsBack
  <2>4. Asked(packets, "position", wserver'.awaiting)
    BY <2>2, <2>3, NewAsked
  <2>5. up' = up \/ (up # <<>> /\ up' = Tail(up) /\ Head(up).kind = "perform_respawn")
    BY <1>4 DEF Returns
  <2>6. \A id : ~(Head(up).kind = "perform_respawn" /\ IsA(Head(up), "keep_alive", id))
    BY DEF IsA
  <2> QED BY <1>1, <2>1, <2>2, <2>3, <2>4, <2>5, <2>6, QuestionsTalked
<1>5. CASE Hears
  <2>1. up # <<>> /\ up' = Tail(up) /\ down' = down \o <<>> /\ IsSeq(<<>>)
        /\ wserver'.alive = wserver.alive
    BY <1>1, <1>5, NothingSaid, Short DEF Hears
  <2>2. \A id \in wserver'.asked : id \in wserver.asked /\ ~IsA(Head(up), "keep_alive", id)
    <3>1. CASE wserver'.asked = wserver.asked
               /\ (wserver.configuring \/ Head(up).kind # "keep_alive")
      BY <1>1, <3>1 DEF IsA
    <3>2. CASE wserver'.asked = wserver.asked \ {Head(up).id}
      BY <3>2 DEF IsA
    <3> QED BY <1>5, <3>1, <3>2 DEF Hears
  <2>3. wserver'.awaiting # None =>
          wserver'.awaiting = wserver.awaiting /\ ~IsA(Head(up), "confirm", wserver.awaiting)
    BY <1>1, <1>5 DEF Hears
  <2>4. wserver'.batches # 0 => wserver.batches # 0 /\ Head(up).kind # "batch_received"
    BY <1>1, <1>5 DEF Hears
  <2> QED BY <1>1, <2>1, <2>2, <2>3, <2>4, QuestionsTalked
<1>6. CASE Reconfigures
  <2> DEFINE p == [kind |-> "start_configuration"]
  <2>1. /\ up' = up /\ down' = down \o <<p>> /\ wserver'.awaiting = None /\ wserver'.asked = {}
        /\ wserver'.batches = 0 /\ wserver'.alive = wserver.alive
    BY <1>6 DEF Reconfigures
  <2> HIDE DEF p
  <2> QED BY <1>1, <2>1, Short, QuestionsTalked
<1>7. CASE Relogs
  <2>1. PICK packets : down' = down \o packets /\ IsLogin(packets, wserver')
    BY <1>7 DEF Relogs
  <2>2. IsSeq(packets) /\ OneNew(packets, 2)
    BY <2>1, LoginNew
  <2>3. up # <<>> /\ up' = Tail(up) /\ wserver'.awaiting = wserver'.teleport
        /\ wserver'.asked = wserver.asked /\ wserver'.batches = wserver.batches /\ wserver'.alive
    BY <1>7 DEF Relogs, IsNewLogin
  <2>4. wserver.asked = {} /\ wserver.batches = 0
    BY <1>1, <1>7, Rejoins
  <2>5. Asked(packets, "position", wserver'.awaiting)
    BY <2>2, <2>3, NewAsked
  <2> QED BY <1>1, <2>1, <2>2, <2>3, <2>4, <2>5, QuestionsTalked
<1> QED BY <1>2, <1>3, <1>4, <1>5, <1>6, <1>7 DEF TalkEffect

LEMMA QuestionsInventory ==
  ASSUME Typed, Questions, InventoryEffect
  PROVE  Questions'
<1>1. UNCHANGED <<habit, task, wserver>> /\ (Running' => Running) /\ IsSeq(down) /\ IsSeq(up)
      /\ IsSeq(<<>>)
  BY TeleportIds, Short DEF InventoryEffect
<1>2. CASE UNCHANGED <<up, down>>
  <2>1. up' = up \o <<>>
    BY <1>1, <1>2, NothingSaid
  <2> QED BY <1>1, <1>2, <2>1, QuestionsRead
<1>3. CASE ~task.configuring /\ down' = down /\ \E out : SentOnly(out) /\ up' = up \o out
  <2>1. PICK out : SentOnly(out) /\ up' = up \o out
    BY <1>3
  <2>2. IsSeq(out)
    BY <2>1 DEF SentOnly
  <2> QED BY <1>1, <1>3, <2>1, <2>2, QuestionsRead
<1>4. CASE Reads(InventoryKinds) /\ up' = up /\ down' = Tail(down)
  <2>1. up' = up \o <<>>
    BY <1>1, <1>4, NothingSaid
  <2>2. down # <<>> /\ Frame.kind \in InventoryKinds
    BY <1>4 DEF Reads, Frame
  <2> HIDE DEF Frame
  <2>3. Frame.kind \notin {"keep_alive", "position", "batch_finished", "health"}
    BY <2>2 DEF InventoryKinds
  <2> QED BY <1>1, <1>4, <2>1, <2>2, <2>3, QuestionsRead
<1>5. ASSUME up' = up \/ (up # <<>> /\ up' = Tail(up) /\ Head(up).kind \in CommandKinds),
             NEW out, UpdatesOnly(out), down' = down \o out
      PROVE  Questions'
  <2>1. IsSeq(out)
    BY <1>5 DEF UpdatesOnly
  <2>2. Head(up).kind \in CommandKinds =>
          /\ \A id : ~IsA(Head(up), "keep_alive", id) /\ ~IsA(Head(up), "confirm", id)
          /\ Head(up).kind # "batch_received"
    BY DEF CommandKinds, IsA
  <2> QED BY <1>1, <1>5, <2>1, <2>2, QuestionsTalked
<1> QED BY <1>2, <1>3, <1>4, <1>5 DEF InventoryEffect

LEMMA QuestionsStep ==
  ASSUME Typed, Phase, Questions, [Next]_vars
  PROVE  Questions'
<1>1. CASE InventoryStep
  <2>1. InventoryEffect
    BY <1>1, InventoryStepEffect DEF Typed, ServerOK
  <2> QED BY <2>1, QuestionsInventory
<1>2. CASE WorldClient
  BY <1>2, WorldClientEffect, QuestionsClient
<1>3. CASE WorldServer
  BY <1>3, WorldServerTalk, QuestionsServer
<1>4. CASE UNCHANGED vars
  BY <1>4 DEF vars, Questions, Running, WorldMode
<1> QED BY <1>1, <1>2, <1>3, <1>4 DEF Next

LEMMA QuestionsInit ==
  ASSUME Init
  PROVE  Questions
<1>1. wserver.asked = {} /\ wserver.awaiting = None /\ wserver.batches = 0 /\ wserver.alive
  BY DEF Init, Settled
<1> QED BY <1>1 DEF Questions

\* On a quiet connection a question cannot be on its way.
LEMMA QuietAnswered ==
  ASSUME Questions
  PROVE  Answered
<1> SUFFICES ASSUME SessionQuiet
             PROVE  /\ wserver.asked = {} /\ wserver.awaiting = None /\ wserver.batches = 0
                    /\ wserver.alive \/ task.requested \/ ~WorldMode
  BY DEF Answered
<1>1. Running /\ DOMAIN up = {} /\ DOMAIN down = {}
  BY Short DEF SessionQuiet, Quiet
<1>2. /\ \A kind, id : ~Asked(up, kind, id) /\ ~Asked(down, kind, id)
      /\ \A kind : ~Has(up, kind) /\ ~Has(down, kind)
  BY <1>1 DEF Asked, Has
<1> QED BY <1>1, <1>2 DEF Questions

-----------------------------------------------------------------------------
\* Stays: a packet that leaves a channel or enters it keeps every place in its stay.

LEMMA StayPopped ==
  ASSUME NEW s, IsSeq(s), s # <<>>, NEW at, NEW new, NEW stay, NEW n \in Nat,
         1 <= n, n <= Len(s), StayIn(s, at, n + 1, stay),
         Enters(Head(s)) => new = Head(s).stay, ~Enters(Head(s)) => new = at
  PROVE  StayIn(Tail(s), new, n, stay)
<1>1. Len(s) \in Nat /\ Head(s) = s[1] /\ \A j \in 1 .. n - 1 : Tail(s)[j] = s[j + 1]
  BY Popped
<1>2. \A j \in 2 .. n : j - 1 \in 1 .. n - 1 /\ Tail(s)[j - 1] = s[j]
  BY <1>1
<1>3. ASSUME \A j \in 1 .. n - 1 : ~Enters(Tail(s)[j])
      PROVE  stay = new
  <2>1. \A j \in 2 .. n : ~Enters(s[j])
    BY <1>2, <1>3
  <2>2. CASE Enters(s[1])
    <3>1. 1 \in 1 .. (n + 1) - 1 /\ \A k \in 1 + 1 .. (n + 1) - 1 : ~Enters(s[k])
      BY <2>1
    <3> QED BY <1>1, <2>2, <3>1 DEF StayIn
  <2>3. CASE ~Enters(s[1])
    <3>1. \A j \in 1 .. (n + 1) - 1 : ~Enters(s[j])
      BY <2>1, <2>3
    <3> QED BY <1>1, <2>3, <3>1 DEF StayIn
  <2> QED BY <2>2, <2>3
<1>4. ASSUME NEW j \in 1 .. n - 1, Enters(Tail(s)[j]),
             \A k \in j + 1 .. n - 1 : ~Enters(Tail(s)[k])
      PROVE  stay = Tail(s)[j].stay
  <2>1. j + 1 \in 1 .. (n + 1) - 1 /\ Enters(s[j + 1]) /\ Tail(s)[j] = s[j + 1]
    BY <1>1, <1>4
  <2>2. \A k \in (j + 1) + 1 .. (n + 1) - 1 : ~Enters(s[k])
    <3> TAKE k \in (j + 1) + 1 .. (n + 1) - 1
    <3>1. k \in 2 .. n /\ k - 1 \in j + 1 .. n - 1
      OBVIOUS
    <3> QED BY <1>2, <1>4, <3>1
  <2> QED BY <2>1, <2>2 DEF StayIn
<1> QED BY <1>3, <1>4 DEF StayIn

LEMMA StayPushed ==
  ASSUME NEW s, IsSeq(s), NEW t, IsSeq(t), NEW at, NEW stay, NEW n \in Nat, n <= Len(s) + 1
  PROVE  StayIn(s, at, n, stay) => StayIn(s \o t, at, n, stay)
<1>1. Len(s) \in Nat /\ \A j \in 1 .. n - 1 : (s \o t)[j] = s[j]
  BY Joined
<1>2. \A j \in 1 .. n - 1 : \A k \in j + 1 .. n - 1 : k \in 1 .. n - 1
  OBVIOUS
<1> QED BY <1>1, <1>2 DEF StayIn

\* A stay lasts while nothing is read that enters another.
LEMMA StayLasts ==
  ASSUME NEW s, NEW at, NEW stay, NEW m \in Nat, NEW n \in Nat, 1 <= m, m <= n,
         StayIn(s, at, m, stay), \A j \in m .. n - 1 : ~Enters(s[j])
  PROVE  StayIn(s, at, n, stay)
<1>1. \A j \in 1 .. n - 1 : j \in 1 .. m - 1 \/ j \in m .. n - 1
  OBVIOUS
<1>2. (\A j \in 1 .. n - 1 : ~Enters(s[j])) => stay = at
  BY DEF StayIn
<1>3. ASSUME NEW j \in 1 .. n - 1, Enters(s[j]), \A k \in j + 1 .. n - 1 : ~Enters(s[k])
      PROVE  stay = s[j].stay
  <2>1. j \in 1 .. m - 1
    BY <1>1, <1>3
  <2>2. \A k \in j + 1 .. m - 1 : k \in j + 1 .. n - 1
    OBVIOUS
  <2> QED BY <1>3, <2>1, <2>2 DEF StayIn
<1> QED BY <1>2, <1>3 DEF StayIn

LEMMA StayEntered ==
  ASSUME NEW s, NEW at, NEW n \in Nat, NEW e \in 1 .. n - 1, Enters(s[e]),
         \A j \in e + 1 .. n - 1 : ~Enters(s[j])
  PROVE  StayIn(s, at, n, s[e].stay)
<1>1. ASSUME NEW j \in 1 .. n - 1, Enters(s[j]), \A k \in j + 1 .. n - 1 : ~Enters(s[k])
      PROVE  j = e
  <2>1. ~(e \in j + 1 .. n - 1)
    BY <1>1
  <2>2. ~(j \in e + 1 .. n - 1)
    BY <1>1
  <2> QED BY <2>1, <2>2
<1> QED BY <1>1 DEF StayIn

-----------------------------------------------------------------------------
\* What the client's steps do to its stay and its chunks.

Dropped == \A c \in Coordinates : world'.chunks[c] = None
OldOrDecoded ==
    \A c \in Coordinates : world'.chunks[c] # None =>
        /\ world'.stay = world.stay
        /\ \/ world.chunks[c] # None /\ world'.chunks[c].stay = world.chunks[c].stay
           \/ Running /\ task.decode # None /\ world'.chunks[c] = task.decode.chunk
Along ==
    \/ down' = down /\ world'.stay = world.stay
    \/ down # <<>> /\ down' = Tail(down) /\ ~Enters(Frame) /\ world'.stay = world.stay
    \/ /\ down # <<>> /\ down' = Tail(down) /\ Enters(Frame) /\ world'.stay = Frame.stay
       /\ task'.decode = None
Decoding ==
    task'.decode # None =>
        \/ task'.decode = task.decode /\ world'.stay = world.stay
        \/ /\ down # <<>> /\ down' = Tail(down) /\ Frame.kind = "chunk" /\ task'.decode = Frame
           /\ world'.stay = world.stay
StayEffect ==
    /\ UNCHANGED wserver /\ (Running' => Running)
    /\ \/ ~Running' /\ UNCHANGED <<world, task>>
       \/ Along /\ Decoding /\ OldOrDecoded /\ (task'.configuring => Dropped)

LEMMA StaysRead ==
  ASSUME Typed, Stays, StayEffect
  PROVE  Stays'
<1>1. IsSeq(down) /\ Len(down) \in Nat
  BY TeleportIds, SeqParts
<1>2. CASE ~Running' /\ UNCHANGED <<world, task>>
  BY <1>2 DEF Stays, ChunksCurrent
<1>3. CASE Along /\ Decoding /\ OldOrDecoded /\ (task'.configuring => Dropped)
  <2>1. ChunksCurrent'
    <3> SUFFICES ASSUME NEW c \in Coordinates, world'.chunks[c] # None
                 PROVE  world'.chunks[c].stay = world'.stay
      BY DEF ChunksCurrent
    <3>1. world'.stay = world.stay
      BY <1>3 DEF OldOrDecoded
    <3>2. CASE world.chunks[c] # None /\ world'.chunks[c].stay = world.chunks[c].stay
      BY <3>1, <3>2 DEF Stays, ChunksCurrent
    <3>3. CASE Running /\ task.decode # None /\ world'.chunks[c] = task.decode.chunk
      BY <3>1, <3>3 DEF Stays
    <3> QED BY <1>3, <3>2, <3>3 DEF OldOrDecoded
  <2>2. task'.configuring => \A c \in Coordinates : world'.chunks[c] = None
    BY <1>3 DEF Dropped
  <2>3. ASSUME Running'
        PROVE  /\ task'.decode # None => task'.decode.chunk.stay = world'.stay
               /\ StayIn(down', world'.stay, Len(down') + 1, wserver'.stay)
               /\ \A i \in DOMAIN down' : down'[i].kind = "chunk" =>
                    StayIn(down', world'.stay, i, down'[i].chunk.stay)
               /\ \A c \in Coordinates : wserver'.chunks[c] # None =>
                    wserver'.chunks[c].stay = wserver'.stay
    <3>1. /\ task.decode # None => task.decode.chunk.stay = world.stay
          /\ StayIn(down, world.stay, Len(down) + 1, wserver.stay)
          /\ \A i \in DOMAIN down : down[i].kind = "chunk" =>
               StayIn(down, world.stay, i, down[i].chunk.stay)
          /\ \A c \in Coordinates : wserver.chunks[c] # None =>
               wserver.chunks[c].stay = wserver.stay
          /\ wserver' = wserver
      BY <2>3 DEF Stays, StayEffect
    <3>2. task'.decode # None => task'.decode.chunk.stay = world'.stay
      <4>1. CASE task'.decode = task.decode /\ world'.stay = world.stay
        BY <3>1, <4>1
      <4>2. CASE /\ down # <<>> /\ Frame.kind = "chunk" /\ task'.decode = Frame
                 /\ world'.stay = world.stay
        <5>1. 1 \in DOMAIN down /\ Frame = down[1]
          BY <1>1, <4>2, Popped DEF Frame
        <5>2. StayIn(down, world.stay, 1, down[1].chunk.stay)
          BY <3>1, <4>2, <5>1
        <5>3. down[1].chunk.stay = world.stay
          BY <5>2 DEF StayIn
        <5> QED BY <4>2, <5>1, <5>3
      <4> QED BY <1>3, <4>1, <4>2 DEF Decoding
    <3>3. CASE down' = down /\ world'.stay = world.stay
      BY <3>1, <3>2, <3>3
    <3>4. CASE /\ down # <<>> /\ down' = Tail(down)
               /\ ~Enters(Frame) => world'.stay = world.stay
               /\ Enters(Frame) => world'.stay = Frame.stay
      <4>1. ASSUME NEW n \in Nat, 1 <= n, n <= Len(down), NEW stay,
                   StayIn(down, world.stay, n + 1, stay)
            PROVE  StayIn(down', world'.stay, n, stay)
        BY <1>1, <3>4, <4>1, StayPopped DEF Frame
      <4>2. Len(down) >= 1 /\ Len(down') = Len(down) - 1
        BY <1>1, <3>4, Popped
      <4>3. StayIn(down', world'.stay, Len(down') + 1, wserver'.stay)
        <5>1. Len(down') + 1 = Len(down) /\ Len(down) \in Nat /\ 1 <= Len(down)
              /\ Len(down) <= Len(down)
          BY <1>1, <4>2
        <5> QED BY <3>1, <4>1, <5>1
      <4>4. ASSUME NEW i \in DOMAIN down', down'[i].kind = "chunk"
            PROVE  StayIn(down', world'.stay, i, down'[i].chunk.stay)
        <5>1. i \in Nat /\ i >= 1 /\ i + 1 \in DOMAIN down /\ down'[i] = down[i + 1]
          BY <1>1, <3>4, InTail
        <5>2. 1 <= i /\ i <= Len(down)
          BY <1>1, <5>1, SeqParts
        <5> QED BY <3>1, <4>1, <4>4, <5>1, <5>2
      <4> QED BY <3>1, <3>2, <4>3, <4>4
    <3> QED BY <1>3, <3>3, <3>4 DEF Along
  <2> QED BY <2>1, <2>2, <2>3 DEF Stays
<1> QED BY <1>2, <1>3 DEF StayEffect

-----------------------------------------------------------------------------
\* What the server says has the stay it is said in.

\* Packets of the stay the server is in, or those that bring the player into a new one.
Lasting(packets) ==
    /\ wserver'.stay = wserver.stay
    /\ \A i \in DOMAIN packets :
        /\ ~Enters(packets[i])
        /\ packets[i].kind = "chunk" => packets[i].chunk.stay = wserver.stay
Entering(packets) ==
    /\ 1 \in DOMAIN packets /\ Enters(packets[1]) /\ packets[1].stay = wserver'.stay
    /\ \A i \in DOMAIN packets : packets[i].kind # "chunk" /\ (i # 1 => ~Enters(packets[i]))

LEMMA StaysTalked ==
  ASSUME Typed, Stays, UNCHANGED <<world, task>>, Running' => Running,
         NEW packets, IsSeq(packets), down' = down \o packets,
         Lasting(packets) \/ Entering(packets),
         Running => \A c \in Coordinates : wserver'.chunks[c] # None =>
                      wserver'.chunks[c].stay = wserver'.stay
  PROVE  Stays'
<1> DEFINE n == Len(down)
<1>1. IsSeq(down) /\ n \in Nat /\ DOMAIN down = 1 .. n
  BY TeleportIds, SeqParts
<1>2. Len(packets) \in Nat /\ DOMAIN packets = 1 .. Len(packets) /\ Len(down') = n + Len(packets)
      /\ DOMAIN down' = 1 .. n + Len(packets)
  BY <1>1, Joined
<1>3. /\ \A j \in 1 .. n : down'[j] = down[j]
      /\ \A j \in 1 .. Len(packets) : down'[n + j] = packets[j]
  BY <1>1, Joined
<1>4. ChunksCurrent'
  BY DEF Stays, ChunksCurrent
<1>5. task'.configuring => \A c \in Coordinates : world'.chunks[c] = None
  BY DEF Stays
<1> SUFFICES ASSUME Running
             PROVE  /\ task.decode # None => task.decode.chunk.stay = world.stay
                    /\ StayIn(down', world.stay, Len(down') + 1, wserver'.stay)
                    /\ \A i \in DOMAIN down' : down'[i].kind = "chunk" =>
                         StayIn(down', world.stay, i, down'[i].chunk.stay)
                    /\ \A c \in Coordinates : wserver'.chunks[c] # None =>
                         wserver'.chunks[c].stay = wserver'.stay
  BY <1>4, <1>5 DEF Stays
<1>6. /\ task.decode # None => task.decode.chunk.stay = world.stay
      /\ StayIn(down, world.stay, n + 1, wserver.stay)
      /\ \A i \in DOMAIN down : down[i].kind = "chunk" =>
           StayIn(down, world.stay, i, down[i].chunk.stay)
  BY DEF Stays
<1> HIDE DEF n
<1>7. ASSUME NEW i \in 1 .. n, down'[i].kind = "chunk"
      PROVE  StayIn(down', world.stay, i, down'[i].chunk.stay)
  <2>1. i \in Nat /\ i <= n + 1 /\ down'[i] = down[i] /\ i \in DOMAIN down
    BY <1>1, <1>3
  <2> QED BY <1>1, <1>6, <1>7, <2>1, StayPushed DEF n
<1>8. CASE Lasting(packets)
  <2>1. StayIn(down', world.stay, n + 1, wserver.stay)
    <3>1. n + 1 \in Nat /\ n + 1 <= n + 1
      BY <1>1
    <3> QED BY <1>1, <1>6, <3>1, StayPushed DEF n
  <2>2. \A j \in n + 1 .. n + Len(packets) :
          /\ ~Enters(down'[j])
          /\ down'[j].kind = "chunk" => down'[j].chunk.stay = wserver.stay
    <3> TAKE j \in n + 1 .. n + Len(packets)
    <3>1. j - n \in 1 .. Len(packets) /\ n + (j - n) = j
      BY <1>1, <1>2
    <3>2. down'[j] = packets[j - n] /\ j - n \in DOMAIN packets
      BY <1>2, <1>3, <3>1
    <3> QED BY <1>8, <3>2 DEF Lasting
  <2>3. ASSUME NEW m \in n + 1 .. n + Len(packets) + 1
        PROVE  StayIn(down', world.stay, m, wserver.stay)
    <3>1. m \in Nat /\ n + 1 \in Nat /\ 1 <= n + 1 /\ n + 1 <= m
      BY <1>1, <1>2
    <3>2. \A j \in n + 1 .. m - 1 : j \in n + 1 .. n + Len(packets)
      BY <1>1, <1>2
    <3> QED BY <2>1, <2>2, <3>1, <3>2, StayLasts
  <2>4. StayIn(down', world.stay, Len(down') + 1, wserver'.stay)
    <3>1. Len(down') + 1 \in n + 1 .. n + Len(packets) + 1
      BY <1>1, <1>2
    <3> QED BY <1>8, <2>3, <3>1 DEF Lasting
  <2>5. ASSUME NEW i \in DOMAIN down', down'[i].kind = "chunk"
        PROVE  StayIn(down', world.stay, i, down'[i].chunk.stay)
    <3>1. CASE i \in 1 .. n
      BY <1>7, <2>5, <3>1
    <3>2. CASE i \in n + 1 .. n + Len(packets)
      <4>1. i \in n + 1 .. n + Len(packets) + 1
        BY <1>1, <1>2, <3>2
      <4> QED BY <2>2, <2>3, <2>5, <3>2, <4>1
    <3> QED BY <1>1, <1>2, <3>1, <3>2
  <2> QED BY <1>6, <2>4, <2>5
<1>9. CASE Entering(packets)
  <2>1. Enters(down'[n + 1]) /\ down'[n + 1].stay = wserver'.stay /\ Len(packets) >= 1
    <3>1. 1 \in 1 .. Len(packets) /\ Len(packets) >= 1
      BY <1>2, <1>9 DEF Entering
    <3>2. down'[n + 1] = packets[1]
      BY <1>3, <3>1
    <3> QED BY <1>9, <3>1, <3>2 DEF Entering
  <2>2. \A j \in n + 1 .. n + Len(packets) :
          /\ down'[j].kind # "chunk"
          /\ j # n + 1 => ~Enters(down'[j])
    <3> TAKE j \in n + 1 .. n + Len(packets)
    <3>1. j - n \in 1 .. Len(packets) /\ n + (j - n) = j /\ (j # n + 1 => j - n # 1)
      BY <1>1, <1>2
    <3>2. down'[j] = packets[j - n] /\ j - n \in DOMAIN packets
      BY <1>2, <1>3, <3>1
    <3> QED BY <1>9, <3>1, <3>2 DEF Entering
  <2>3. StayIn(down', world.stay, Len(down') + 1, wserver'.stay)
    <3>1. /\ Len(down') + 1 \in Nat /\ n + 1 \in 1 .. (Len(down') + 1) - 1
          /\ \A j \in (n + 1) + 1 .. (Len(down') + 1) - 1 :
               j \in n + 1 .. n + Len(packets) /\ j # n + 1
      BY <1>1, <1>2, <2>1
    <3> QED BY <2>1, <2>2, <3>1, StayEntered
  <2>4. ASSUME NEW i \in DOMAIN down', down'[i].kind = "chunk"
        PROVE  StayIn(down', world.stay, i, down'[i].chunk.stay)
    <3>1. i \in 1 .. n \/ i \in n + 1 .. n + Len(packets)
      BY <1>1, <1>2
    <3> QED BY <1>7, <2>2, <2>4, <3>1
  <2> QED BY <1>6, <2>3, <2>4
<1> QED BY <1>8, <1>9

LEMMA RespawnEnters ==
  ASSUME NEW packets, IsRespawn(packets, wserver')
  PROVE  Entering(packets)
<1>1. PICK r, p, rest :
        /\ packets = <<r, p>> \o rest
        /\ r \in WorldPackets /\ r.kind = "respawn" /\ r.stay = wserver'.stay
        /\ p \in WorldPackets /\ p.kind = "position" /\ p.id = wserver'.teleport
           /\ p.serial = wserver'.sent
        /\ DownOK(rest) /\ \A i \in DOMAIN rest : rest[i].kind = "rain"
  BY DEF IsRespawn
<1>2. /\ IsSeq(<<r, p>>) /\ DOMAIN <<r, p>> = {1, 2} /\ Len(<<r, p>>) = 2
      /\ <<r, p>>[1] = r /\ <<r, p>>[2] = p /\ IsSeq(rest)
  BY <1>1, Short DEF DownOK
<1>3. 1 \in DOMAIN packets /\ packets[1] = r
  BY <1>1, <1>2, Joined
<1>4. ASSUME NEW i \in DOMAIN packets
      PROVE  packets[i].kind # "chunk" /\ (i # 1 => ~Enters(packets[i]))
  <2>1. \/ i \in {1, 2} /\ packets[i] = <<r, p>>[i]
        \/ i - 2 \in DOMAIN rest /\ packets[i] = rest[i - 2]
    BY <1>1, <1>2, InJoined
  <2> QED BY <1>1, <1>2, <2>1 DEF Enters
<1> QED BY <1>1, <1>3, <1>4 DEF Entering, Enters

LEMMA LoginEnters ==
  ASSUME NEW packets, IsLogin(packets, wserver')
  PROVE  Entering(packets)
<1>1. PICK login, position, rest :
        /\ packets = <<login, position>> \o rest /\ UpdatesOnly(rest)
        /\ login \in WorldPackets /\ login.kind = "login" /\ login.stay = wserver'.stay
        /\ position \in WorldPackets /\ position.kind = "position"
        /\ position.id = wserver'.teleport /\ position.serial = wserver'.sent
  BY DEF IsLogin
<1> DEFINE two == <<login, position>>
<1>2. /\ IsSeq(two) /\ DOMAIN two = {1, 2} /\ Len(two) = 2
      /\ two[1] = login /\ two[2] = position /\ IsSeq(rest)
  BY <1>1, Short DEF UpdatesOnly
<1>3. packets = two \o rest
  BY <1>1
<1> HIDE DEF two
<1>4. 1 \in DOMAIN packets /\ packets[1] = login
  <2>1. IsSeq(two) /\ IsSeq(rest)
    BY <1>2
  <2>2. DOMAIN (two \o rest) = 1 .. Len(two) + Len(rest) /\ Len(rest) \in Nat
    BY <2>1, Joined
  <2>3. \A i \in 1 .. Len(two) : (two \o rest)[i] = two[i]
    BY <2>1, Joined
  <2> QED BY <1>2, <1>3, <2>2, <2>3
<1>5. \A i \in DOMAIN rest : rest[i].kind \notin {"chunk", "login", "respawn"}
  BY <1>1 DEF UpdatesOnly, InventoryKinds
<1>6. ASSUME NEW i \in DOMAIN packets
      PROVE  packets[i].kind # "chunk" /\ (i # 1 => ~Enters(packets[i]))
  <2>1. \/ i \in {1, 2} /\ packets[i] = two[i]
        \/ i - 2 \in DOMAIN rest /\ packets[i] = rest[i - 2]
    <3>1. i \in DOMAIN (two \o rest)
      BY <1>3
    <3>2. \/ i \in DOMAIN two /\ (two \o rest)[i] = two[i]
          \/ i - Len(two) \in DOMAIN rest /\ (two \o rest)[i] = rest[i - Len(two)]
      BY <1>2, <3>1, InJoined
    <3> QED BY <1>2, <1>3, <3>2
  <2> QED BY <1>1, <1>2, <1>5, <2>1 DEF Enters
<1> QED BY <1>1, <1>4, <1>6 DEF Entering, Enters

LEMMA StaysServer ==
  ASSUME Typed, Phase, Stays, TalkEffect
  PROVE  Stays'
<1>1. UNCHANGED <<world, task>> /\ (Running' => Running) /\ IsSeq(down)
  BY TeleportIds DEF TalkEffect, Still, Running
<1>2. Running => \A c \in Coordinates : wserver.chunks[c] # None =>
                   wserver.chunks[c].stay = wserver.stay
  BY DEF Stays
<1>3. ASSUME NEW packets, Utters(packets) PROVE Stays'
  <2>1. /\ down' = down \o packets /\ IsSeq(packets) /\ wserver'.stay = wserver.stay
        /\ \A c \in Coordinates : wserver'.chunks[c] # None =>
             wserver'.chunks[c].stay = wserver.stay \/ OldChunk(c)
    BY <1>3 DEF Utters, Staying, Steady, DownOK
  <2>2. Lasting(packets)
    BY <1>3, <2>1 DEF Utters, Lasting, InStay, Steady, NoneOf, Enters
  <2>3. Running => \A c \in Coordinates : wserver'.chunks[c] # None =>
                     wserver'.chunks[c].stay = wserver'.stay
    BY <1>2, <2>1 DEF OldChunk
  <2> QED BY <1>1, <2>1, <2>2, <2>3, StaysTalked
<1>4. ASSUME SameStay, NEW packets, IsSeq(packets), down' = down \o packets,
             \A i \in DOMAIN packets : packets[i].kind \notin {"respawn", "login", "chunk"}
      PROVE  Stays'
  <2>1. Lasting(packets)
    BY <1>4 DEF Lasting, SameStay, Enters
  <2>2. Running => \A c \in Coordinates : wserver'.chunks[c] # None =>
                     wserver'.chunks[c].stay = wserver'.stay
    BY <1>2, <1>4 DEF SameStay
  <2> QED BY <1>1, <1>4, <2>1, <2>2, StaysTalked
<1>5. CASE Places1
  <2>1. PICK p : IsNew(p) /\ down' = down \o <<p>>
    BY <1>5 DEF Places1
  <2>2. /\ IsSeq(<<p>>)
        /\ \A i \in DOMAIN <<p>> : <<p>>[i].kind \notin {"respawn", "login", "chunk"}
    BY <2>1, Short DEF IsNew
  <2> QED BY <1>4, <1>5, <2>1, <2>2 DEF Places1
<1>6. CASE Hears
  <2>1. down' = down \o <<>> /\ IsSeq(<<>>) /\ DOMAIN <<>> = {}
    BY <1>1, <1>6, NothingSaid, Short DEF Hears
  <2> QED BY <1>4, <1>6, <2>1 DEF Hears
<1>7. CASE Reconfigures
  <2> DEFINE p == [kind |-> "start_configuration"]
  <2>1. down' = down \o <<p>> /\ SameStay /\ p.kind = "start_configuration"
    BY <1>7 DEF Reconfigures
  <2> HIDE DEF p
  <2>2. /\ IsSeq(<<p>>)
        /\ \A i \in DOMAIN <<p>> : <<p>>[i].kind \notin {"respawn", "login", "chunk"}
    BY <2>1, Short
  <2> QED BY <1>4, <2>1, <2>2
<1>8. ASSUME wserver'.chunks = [c \in Coordinates |-> None], NEW packets, IsSeq(packets),
             down' = down \o packets, Entering(packets)
      PROVE  Stays'
  <2>1. \A c \in Coordinates : wserver'.chunks[c] = None
    BY <1>8
  <2> QED BY <1>1, <1>8, <2>1, StaysTalked
<1>9. CASE Returns
  <2>1. PICK packets : down' = down \o packets /\ IsRespawn(packets, wserver')
    BY <1>9 DEF Returns
  <2>2. wserver'.chunks = [c \in Coordinates |-> None]
    BY <1>9 DEF Returns, IsBack
  <2> QED BY <1>8, <2>1, <2>2, RespawnEnters, RespawnNew
<1>10. CASE Relogs
  <2>1. PICK packets : down' = down \o packets /\ IsLogin(packets, wserver')
    BY <1>10 DEF Relogs
  <2>2. wserver'.chunks = [c \in Coordinates |-> None]
    BY <1>10 DEF Relogs, IsNewLogin
  <2> QED BY <1>8, <2>1, <2>2, LoginEnters, LoginNew
<1> QED BY <1>3, <1>5, <1>6, <1>7, <1>9, <1>10 DEF TalkEffect

LEMMA StaysInventory ==
  ASSUME Typed, Phase, Stays, InventoryEffect
  PROVE  Stays'
<1>1. UNCHANGED <<world, task, wserver>> /\ (Running' => Running) /\ IsSeq(down)
  BY TeleportIds DEF InventoryEffect
<1>2. CASE down' = down
  BY <1>1, <1>2 DEF Stays, ChunksCurrent
<1>3. CASE Reads(InventoryKinds) /\ up' = up /\ down' = Tail(down)
  <2>1. down # <<>> /\ Frame.kind \in InventoryKinds /\ ~task.configuring
    BY <1>3 DEF Reads, MayRead, Frame
  <2> HIDE DEF Frame
  <2>2. ~Enters(Frame)
    BY <2>1 DEF Enters, InventoryKinds
  <2>3. Along /\ Decoding /\ OldOrDecoded
    BY <1>1, <1>3, <2>1, <2>2 DEF Along, Decoding, OldOrDecoded
  <2> QED BY <1>1, <2>1, <2>3, StaysRead DEF StayEffect
<1>4. ASSUME NEW out, UpdatesOnly(out), down' = down \o out
      PROVE  Stays'
  <2>1. Lasting(out) /\ IsSeq(out)
    BY <1>1, <1>4 DEF Lasting, Enters, UpdatesOnly, InventoryKinds
  <2>2. Running => \A c \in Coordinates : wserver'.chunks[c] # None =>
                     wserver'.chunks[c].stay = wserver'.stay
    BY <1>1 DEF Stays
  <2> QED BY <1>1, <1>4, <2>1, <2>2, StaysTalked
<1> QED BY <1>2, <1>3, <1>4 DEF InventoryEffect

-----------------------------------------------------------------------------
\* The client's steps one by one.

LEMMA EndedStays ==
  ASSUME Calm, NEW reason \in {"entities", "chunks", "lifecycle", "baseline", "stale"},
         Ends(reason)
  PROVE  StayEffect
<1>1. [kind |-> reason, id |-> 0] # None
  BY SessionAssumption DEF Endings
<1>2. net' = [net EXCEPT !.ended = [kind |-> reason, id |-> 0]] /\ UNCHANGED <<world, task>>
  BY DEF Ends
<1>3. ~Running'
  BY <1>1, <1>2 DEF Calm, Running
<1> QED BY <1>2, <1>3 DEF StayEffect, Calm

\* A frame that is read in the world, and its chunks are left alone or dropped one by one.
LEMMA WithinStays ==
  ASSUME Calm, down # <<>>, down' = Tail(down), ~Enters(Frame),
         ~task'.configuring, task'.decode = None \/ (Frame.kind = "chunk" /\ task'.decode = Frame),
         world'.stay = world.stay,
         \A c \in Coordinates : world'.chunks[c] # None =>
            world.chunks[c] # None /\ world'.chunks[c].stay = world.chunks[c].stay
  PROVE  StayEffect
<1> HIDE DEF Frame
<1>1. Along /\ Decoding /\ OldOrDecoded
  BY DEF Along, Decoding, OldOrDecoded
<1> QED BY <1>1 DEF StayEffect, Calm

LEMMA ReadsStays ==
  ASSUME Typed, NEW kinds, Reads(kinds), Took,
         "respawn" \notin kinds, "login" \notin kinds
  PROVE  /\ Calm /\ down # <<>> /\ down' = Tail(down) /\ ~Enters(Frame) /\ Frame.kind \in kinds
         /\ ~task.configuring /\ task.decode = None
         /\ world \in Worlds /\ task \in Tasks
BY DEF Typed, Sound, ClientOK, Reads, Took, WithoutInventory, MayRead, Frame, Enters, Calm

LEMMA EntityStays ==
  ASSUME Typed, ReadEntity
  PROVE  StayEffect
<1>1. /\ Calm /\ down # <<>> /\ down' = Tail(down) /\ ~Enters(Frame)
      /\ Frame.kind \in EntityKinds /\ ~task.configuring /\ task.decode = None
      /\ world \in Worlds /\ task \in Tasks
  <2>1. /\ Reads(EntityKinds) /\ Took
        /\ "respawn" \notin EntityKinds /\ "login" \notin EntityKinds
    BY DEF ReadEntity, EntityKinds
  <2> QED BY <2>1, ReadsStays
<1> HIDE DEF Frame
<1>2. \/ Ends("entities")
      \/ task' = task /\ (world' = world \/ \E store : world' = [world EXCEPT !.store = store])
      \/ task' = Pushed(task, Frame) /\ world' = world
  <2>1. CASE ~WorldMode
    BY <2>1 DEF ReadEntity, Goes
  <2>2. CASE WorldMode /\ Frame.kind = "velocity" /\ Frame.id = First
    BY <2>2 DEF ReadEntity, Goes
  <2>3. CASE WorldMode /\ Frame.kind = "spawn" /\ Frame.id = First
    BY <2>3 DEF ReadEntity, Goes
  <2>4. CASE WorldMode /\ Frame.kind = "spawn" /\ Frame.id # First
    BY <2>4 DEF ReadEntity, Goes
  <2>5. CASE WorldMode /\ Frame.kind = "remove"
    BY <2>5 DEF ReadEntity, Goes
  <2>6. CASE /\ WorldMode /\ Frame.kind \notin {"spawn", "remove"}
             /\ ~(Frame.kind = "velocity" /\ Frame.id = First)
    BY <2>6 DEF ReadEntity, Goes
  <2> QED BY <2>1, <2>2, <2>3, <2>4, <2>5, <2>6
<1>3. CASE Ends("entities")
  BY <1>1, <1>3, EndedStays
<1>4. ASSUME world'.stay = world.stay /\ world'.chunks = world.chunks,
             task'.configuring = task.configuring /\ task'.decode = task.decode
      PROVE  StayEffect
  BY <1>1, <1>4, WithinStays
<1>5. CASE task' = task /\ (world' = world \/ \E store : world' = [world EXCEPT !.store = store])
  <2>1. world'.stay = world.stay /\ world'.chunks = world.chunks
    BY <1>1, <1>5 DEF Worlds
  <2> QED BY <1>4, <1>5, <2>1
<1>6. CASE task' = Pushed(task, Frame) /\ world' = world
  <2>1. task' = task \/ task' = [task EXCEPT !.sim.v = Frame.v]
    BY <1>6 DEF Pushed
  <2>2. task'.configuring = task.configuring /\ task'.decode = task.decode
    BY <1>1, <2>1 DEF Tasks
  <2> QED BY <1>4, <1>6, <2>2
<1> QED BY <1>2, <1>3, <1>5, <1>6

LEMMA ChunkStays ==
  ASSUME Typed, ReadChunk \/ ReadChunkUpdate
  PROVE  StayEffect
<1>1. CASE ReadChunk
  <2>1. /\ Calm /\ down # <<>> /\ down' = Tail(down) /\ ~Enters(Frame)
        /\ Frame.kind \in {"chunk"} /\ ~task.configuring /\ task.decode = None
        /\ world \in Worlds /\ task \in Tasks
    <3>1. Reads({"chunk"}) /\ Took
      BY <1>1 DEF ReadChunk
    <3> QED BY <3>1, ReadsStays
  <2> HIDE DEF Frame
  <2>2. world' = world /\ task' = [task EXCEPT !.decode = Frame]
    BY <1>1 DEF ReadChunk, Goes
  <2>3. task'.decode = Frame /\ ~task'.configuring
    BY <2>1, <2>2 DEF Tasks
  <2> QED BY <2>1, <2>2, <2>3, WithinStays
<1>2. CASE ReadChunkUpdate
  <2>1. /\ Calm /\ down # <<>> /\ down' = Tail(down) /\ ~Enters(Frame)
        /\ Frame.kind \in {"forget", "update"} /\ ~task.configuring /\ task.decode = None
        /\ world \in Worlds /\ task \in Tasks
    <3>1. Reads({"forget", "update"}) /\ Took
      BY <1>2 DEF ReadChunkUpdate
    <3> QED BY <3>1, ReadsStays
  <2> HIDE DEF Frame
  <2>2. CASE ~world.active
    <3>1. Ends("lifecycle")
      BY <1>2, <2>2 DEF ReadChunkUpdate
    <3> QED BY <2>1, <3>1, EndedStays
  <2>3. CASE world.active /\ Frame.kind = "forget"
    <3>1. world' = [world EXCEPT !.chunks[Frame.at] = None] /\ task' = task
      BY <1>2, <2>3 DEF ReadChunkUpdate, Goes
    <3>2. /\ world'.stay = world.stay
          /\ \A c \in Coordinates : world'.chunks[c] # None => world'.chunks[c] = world.chunks[c]
      BY <2>1, <3>1 DEF Worlds
    <3> QED BY <2>1, <3>1, <3>2, WithinStays
  <2>4. CASE world.active /\ Frame.kind = "update"
    <3> DEFINE at == Frame.at
    <3> DEFINE new == IF world.chunks[at] = None THEN None
                      ELSE [world.chunks[at] EXCEPT !.data[Frame.field] = Frame.value]
    <3>1. world' = [world EXCEPT !.chunks[at] = new] /\ task' = task
      BY <1>2, <2>4 DEF ReadChunkUpdate, Goes
    <3>2. at \in Coordinates
      <4>1. at \in Coordinates
        BY <2>1, <2>4, FrameWorld DEF Typed
      <4> QED BY <4>1
    <3>3. new # None => world.chunks[at] # None /\ new.stay = world.chunks[at].stay
      BY <2>1, <3>2 DEF Worlds, Chunks
    <3> HIDE DEF at, new
    <3>4. /\ world'.stay = world.stay
          /\ \A c \in Coordinates : world'.chunks[c] = IF c = at THEN new ELSE world.chunks[c]
      BY <2>1, <3>1 DEF Worlds
    <3>5. \A c \in Coordinates : world'.chunks[c] # None =>
            world.chunks[c] # None /\ world'.chunks[c].stay = world.chunks[c].stay
      BY <3>3, <3>4
    <3> QED BY <2>1, <3>1, <3>4, <3>5, WithinStays
  <2> QED BY <2>1, <2>2, <2>3, <2>4
<1> QED BY <1>1, <1>2

LEMMA SettingStays ==
  ASSUME Typed, ReadSetting \/ ReadRotation
  PROVE  StayEffect
<1>1. /\ Calm /\ down # <<>> /\ down' = Tail(down) /\ ~Enters(Frame)
      /\ ~task.configuring /\ task.decode = None /\ world \in Worlds
  <2>1. CASE ReadSetting
    <3>1. Reads({"rain", "mode"}) /\ Took
      BY <2>1 DEF ReadSetting
    <3> QED BY <3>1, ReadsStays
  <2>2. CASE ReadRotation
    <3>1. Reads({"rotation"}) /\ Took
      BY <2>2 DEF ReadRotation
    <3> QED BY <3>1, ReadsStays
  <2> QED BY <2>1, <2>2
<1> HIDE DEF Frame
<1>2. \/ \E reason \in {"lifecycle", "baseline"} : Ends(reason)
      \/ /\ task' = task
         /\ \/ world' = [world EXCEPT !.rain = Frame.rain]
            \/ world' = [world EXCEPT !.mode = Frame.mode]
            \/ world' = [world EXCEPT !.rotated = TRUE]
  <2>1. CASE ReadSetting
    BY <2>1 DEF ReadSetting, Goes
  <2>2. CASE ReadRotation
    <3>1. CASE Frame.turns /\ ~Turned
      BY <2>2, <3>1 DEF ReadRotation
    <3>2. CASE ~(Frame.turns /\ ~Turned) /\ ~world.active
      BY <2>2, <3>2 DEF ReadRotation
    <3>3. CASE ~(Frame.turns /\ ~Turned) /\ world.active
      BY <2>2, <3>3 DEF ReadRotation, Goes
    <3> QED BY <3>1, <3>2, <3>3
  <2> QED BY <2>1, <2>2
<1>3. CASE \E reason \in {"lifecycle", "baseline"} : Ends(reason)
  BY <1>1, <1>3, EndedStays
<1>4. CASE /\ task' = task
           /\ \/ world' = [world EXCEPT !.rain = Frame.rain]
              \/ world' = [world EXCEPT !.mode = Frame.mode]
              \/ world' = [world EXCEPT !.rotated = TRUE]
  <2>1. world'.stay = world.stay /\ world'.chunks = world.chunks
    BY <1>1, <1>4 DEF Worlds
  <2> QED BY <1>1, <1>4, <2>1, WithinStays
<1> QED BY <1>2, <1>3, <1>4

LEMMA AnsweredStays ==
  ASSUME Typed, ReadPosition \/ ReadKeepAlive \/ ReadBatchFinished \/ ReadHealth
  PROVE  StayEffect
<1>1. /\ Calm /\ down # <<>> /\ down' = Tail(down) /\ ~Enters(Frame)
      /\ ~task.configuring /\ task.decode = None /\ world \in Worlds /\ task \in Tasks
  <2>1. CASE ReadPosition
    <3>1. Reads({"position"}) /\ Took
      BY <2>1 DEF ReadPosition
    <3> QED BY <3>1, ReadsStays
  <2>2. CASE ReadKeepAlive
    <3>1. Reads({"keep_alive"}) /\ Took
      BY <2>2 DEF ReadKeepAlive
    <3> QED BY <3>1, ReadsStays
  <2>3. CASE ReadBatchFinished
    <3>1. Reads({"batch_finished"}) /\ Took
      BY <2>3 DEF ReadBatchFinished
    <3> QED BY <3>1, ReadsStays
  <2>4. CASE ReadHealth
    <3>1. Reads({"health"}) /\ Took
      BY <2>4 DEF ReadHealth
    <3> QED BY <3>1, ReadsStays
  <2> QED BY <2>1, <2>2, <2>3, <2>4
<1> HIDE DEF Frame
<1>2. ASSUME world'.stay = world.stay /\ world'.chunks = world.chunks,
             task'.configuring = task.configuring /\ task'.decode = task.decode
      PROVE  StayEffect
  BY <1>1, <1>2, WithinStays
<1>3. CASE ReadKeepAlive
  <2>1. world' = world /\ task' = task
    BY <1>3 DEF ReadKeepAlive, Goes
  <2> QED BY <1>2, <2>1
<1>4. CASE ReadBatchFinished
  <2>1. world' = world /\ task' = [task EXCEPT !.loaded = TRUE]
    BY <1>4 DEF ReadBatchFinished, Goes
  <2>2. task'.configuring = task.configuring /\ task'.decode = task.decode
    BY <1>1, <2>1 DEF Tasks
  <2> QED BY <1>2, <2>1, <2>2
<1>5. CASE ReadHealth
  <2>1. world' = world /\ (task' = task \/ task' = [task EXCEPT !.requested = TRUE])
    BY <1>5 DEF ReadHealth, Goes
  <2>2. task'.configuring = task.configuring /\ task'.decode = task.decode
    BY <1>1, <2>1 DEF Tasks
  <2> QED BY <1>2, <2>1, <2>2
<1>6. CASE ReadPosition /\ Refusal(Frame) # "none"
  <2>1. Ends(Refusal(Frame))
    BY <1>6 DEF ReadPosition
  <2>2. Refusal(Frame) \in {"baseline", "lifecycle", "stale", "none"}
    BY Zenon DEF Refusal
  <2>3. Refusal(Frame) \in {"entities", "chunks", "lifecycle", "baseline", "stale"}
    BY <1>6, <2>2
  <2> QED BY <1>1, <2>1, <2>3, EndedStays
<1>7. CASE ReadPosition /\ Refusal(Frame) = "none"
  <2> DEFINE x == Target(Frame)
  <2> DEFINE sim == Reconciled(task.sim, Frame, x)
  <2>1. /\ world' = [world EXCEPT !.x = x, !.rotated = TRUE, !.teleport = Frame.id]
        /\ task' = IF WorldMode THEN [task EXCEPT !.sim = sim] ELSE task
    BY <1>7 DEF ReadPosition, Goes
  <2> HIDE DEF x, sim
  <2>2. task'.configuring = task.configuring /\ task'.decode = task.decode
    BY <1>1, <2>1 DEF Tasks
  <2>3. world'.stay = world.stay /\ world'.chunks = world.chunks
    BY <1>1, <2>1 DEF Worlds
  <2> QED BY <1>2, <2>2, <2>3
<1> QED BY <1>3, <1>4, <1>5, <1>6, <1>7

LEMMA RespawnStays ==
  ASSUME Typed, ReadRespawn
  PROVE  StayEffect
<1>1. /\ Calm /\ down # <<>> /\ down' = Tail(down) /\ Frame.kind = "respawn"
      /\ ~task.configuring /\ task.decode = None /\ world \in Worlds /\ task \in Tasks
  BY DEF ReadRespawn, Typed, Sound, ClientOK, Reads, Took, WithoutInventory, MayRead, Frame, Calm
<1> HIDE DEF Frame
<1>2. CASE ~world.active
  <2>1. Ends("lifecycle")
    BY <1>2 DEF ReadRespawn
  <2> QED BY <1>1, <2>1, EndedStays
<1>3. CASE world.active
  <2>1. world' = Respawned(world, Frame) /\ task' = Reset(task, world.own)
    BY <1>3 DEF ReadRespawn, Goes
  <2>2. task'.decode = None /\ ~task'.configuring
    BY <1>1, <2>1 DEF Reset, Tasks
  <2>3. world'.stay = Frame.stay /\ \A c \in Coordinates : world'.chunks[c] = None
    BY <1>1, <2>1 DEF Respawned, Worlds
  <2>4. Along /\ Decoding /\ OldOrDecoded
    BY <1>1, <2>2, <2>3 DEF Along, Decoding, OldOrDecoded, Enters
  <2> QED BY <1>1, <2>2, <2>4 DEF StayEffect, Calm
<1> QED BY <1>2, <1>3

\* Leaving the world drops its chunks, so that there is none of an old stay to enter the
\* new one with.
LEMMA ConfigurationStays ==
  ASSUME Typed, Phase, Stays, ReadStartConfiguration \/ FinishConfiguration
  PROVE  StayEffect
<1>1. world \in Worlds /\ task \in Tasks
  BY DEF Typed, Sound, ClientOK
<1>2. CASE ReadStartConfiguration
  <2>1. /\ Calm /\ down # <<>> /\ down' = Tail(down) /\ ~Enters(Frame)
        /\ ~task.configuring /\ task.decode = None
    <3>1. Reads({"start_configuration"}) /\ Took
      BY <1>2 DEF ReadStartConfiguration
    <3> QED BY <3>1, ReadsStays
  <2> HIDE DEF Frame
  <2>2. world' = BeganConfiguration(world) /\ task' = [task EXCEPT !.configuring = TRUE]
    BY <1>2 DEF ReadStartConfiguration, Goes
  <2>3. task'.decode = None
    BY <1>1, <2>1, <2>2 DEF Tasks
  <2>4. world'.stay = world.stay /\ \A c \in Coordinates : world'.chunks[c] = None
    BY <1>1, <2>2 DEF BeganConfiguration, Worlds
  <2>5. Along /\ Decoding /\ OldOrDecoded /\ Dropped
    BY <2>1, <2>3, <2>4 DEF Along, Decoding, OldOrDecoded, Dropped
  <2> QED BY <2>1, <2>5 DEF StayEffect, Calm
<1>3. CASE FinishConfiguration
  <2>1. /\ Calm /\ down # <<>> /\ down' = Tail(down) /\ Frame.kind = "login" /\ task.configuring
    BY <1>3 DEF FinishConfiguration, Took, WithoutInventory, Calm
  <2> HIDE DEF Frame
  <2>2. /\ world' = EnteredWorld(world, Frame)
        /\ task' = Reset([task EXCEPT !.configuring = FALSE], Frame.own)
    BY <1>3 DEF FinishConfiguration, Goes
  <2>3. task.decode = None
    BY <2>1 DEF Phase
  <2>4. task'.decode = None /\ ~task'.configuring
    BY <1>1, <2>2, <2>3 DEF Tasks, Reset
  <2>5. world'.stay = Frame.stay /\ world'.chunks = world.chunks
    BY <1>1, <2>2 DEF EnteredWorld, Worlds
  <2>6. \A c \in Coordinates : world'.chunks[c] = None
    BY <2>1, <2>5 DEF Stays
  <2>7. Along /\ Decoding /\ OldOrDecoded
    BY <2>1, <2>4, <2>5, <2>6 DEF Along, Decoding, OldOrDecoded, Enters
  <2> QED BY <2>1, <2>4, <2>7 DEF StayEffect, Calm
<1> QED BY <1>2, <1>3

LEMMA DecodeStays ==
  ASSUME Typed, Phase, FinishDecode
  PROVE  StayEffect
<1>1. /\ Calm /\ down' = down /\ task.decode # None /\ world \in Worlds /\ task \in Tasks
      /\ ~task.configuring
  BY DEF FinishDecode, WithoutInventory, Calm, Typed, Sound, ClientOK, Phase
<1> DEFINE at == task.decode.at
<1> DEFINE new == task.decode.chunk
<1>2. \/ Ends("lifecycle") \/ Ends("chunks")
      \/ world' = [world EXCEPT !.chunks[at] = new] /\ task' = [task EXCEPT !.decode = None]
  BY DEF FinishDecode, Goes
<1>3. CASE Ends("lifecycle") \/ Ends("chunks")
  BY <1>1, <1>3, EndedStays
<1>4. CASE world' = [world EXCEPT !.chunks[at] = new] /\ task' = [task EXCEPT !.decode = None]
  <2> HIDE DEF at, new
  <2>1. task'.decode = None /\ ~task'.configuring
    BY <1>1, <1>4 DEF Tasks
  <2>2. /\ world'.stay = world.stay
        /\ \A c \in Coordinates : world'.chunks[c] = world.chunks[c] \/ world'.chunks[c] = new
    BY <1>1, <1>4 DEF Worlds
  <2>3. Along /\ Decoding
    BY <1>1, <2>1, <2>2 DEF Along, Decoding
  <2>4. OldOrDecoded
    BY <1>1, <2>2 DEF OldOrDecoded, Calm, new
  <2> QED BY <1>1, <2>1, <2>3, <2>4 DEF StayEffect, Calm
<1> QED BY <1>2, <1>3, <1>4

LEMMA MoveStays ==
  ASSUME Typed, Walk \/ ForcedPosition
  PROVE  StayEffect
<1>1. Calm /\ down' = down /\ world' = world /\ ~task.configuring /\ task \in Tasks
  BY DEF Walk, ForcedPosition, Goes, WithoutInventory, Calm, Typed, Sound, ClientOK
<1>2. \/ \E x : task' = [task EXCEPT !.sim.x = x, !.sim.told = TRUE]
      \/ task' = [task EXCEPT !.sim.told = TRUE]
  BY DEF Walk, ForcedPosition, Goes
<1>3. task'.configuring = task.configuring /\ task'.decode = task.decode
  BY <1>1, <1>2 DEF Tasks
<1>4. Along /\ Decoding /\ OldOrDecoded
  BY <1>1, <1>3 DEF Along, Decoding, OldOrDecoded
<1> QED BY <1>1, <1>3, <1>4 DEF StayEffect, Calm

LEMMA StaysStep ==
  ASSUME Typed, Phase, Stays, [Next]_vars
  PROVE  Stays'
<1>1. CASE InventoryStep
  <2>1. InventoryEffect
    BY <1>1, InventoryStepEffect DEF Typed, ServerOK
  <2> QED BY <2>1, StaysInventory
<1>2. CASE WorldClient
  <2>1. StayEffect
    BY <1>2, EntityStays, ChunkStays, SettingStays, AnsweredStays, RespawnStays,
       ConfigurationStays, DecodeStays, MoveStays DEF WorldClient
  <2> QED BY <2>1, StaysRead
<1>3. CASE WorldServer
  BY <1>3, WorldServerTalk, StaysServer
<1>4. CASE UNCHANGED vars
  BY <1>4 DEF vars, Stays, ChunksCurrent, Running
<1> QED BY <1>1, <1>2, <1>3, <1>4 DEF Next

LEMMA StaysInit ==
  ASSUME Init
  PROVE  Stays
<1>1. /\ down = <<>> /\ world.stay = 0 /\ wserver.stay = 0 /\ task.decode = None
      /\ \A c \in Coordinates : world.chunks[c] = None /\ wserver.chunks[c] = None
  BY DEF Init, InventoryInit, Settled
<1>2. StayIn(<<>>, 0, 0 + 1, 0)
  BY DEF StayIn
<1> QED BY <1>1, <1>2, Short DEF Stays, ChunksCurrent

-----------------------------------------------------------------------------
\* The talk of the two sides.

TalkInv == Typed /\ Phase /\ Teleports /\ Questions

LEMMA TalkInit == Init => TalkInv
BY TypedInit, PhaseInit, TeleportsInit, QuestionsInit DEF TalkInv

LEMMA TalkStep == TalkInv /\ [Next]_vars => TalkInv'
BY TypedStep, PhaseStep, TeleportsStep, QuestionsStep DEF TalkInv

\* The store, the task, the mailbox and every packet on its way keep their shapes
\* (chat_session.rs, run_play_session), a reconfiguration is asked for, acknowledged and
\* answered in this order with nothing after it, a move on its way was made after the last
\* confirmed teleport, and every question is on its way until its answer is.
THEOREM TalkInductive == Spec => []TalkInv
BY TalkInit, TalkStep, PTL DEF Spec

\* The server never moves the player to a position the client computed before it knew of
\* the last teleport: synchronize_player_position confirms and reconciles with no tick
\* between, and a respawn or a new login resets the simulation that would send moves.
THEOREM MovesNeverStale == Spec => NoStaleMoves
<1>1. TalkInv /\ [Next]_vars =>
        [/\ up # <<>> /\ Head(up).kind = "move"
         /\ up' = Tail(up) /\ wserver'.x # wserver.x
         => Head(up).after = wserver.sent]_vars
  BY MovesCurrent DEF TalkInv
<1> QED BY <1>1, TalkInductive, PTL DEF Spec, NoStaleMoves

\* Once all is quiet no keep-alive, teleport, chunk batch or (the first time, in World Mode)
\* death waits for an answer: each reader of chat_session.rs answers what it takes, unless
\* the session ends there, and a reconfiguration forgets what was asked before it.
THEOREM NothingUnanswered == Spec => []Answered
<1>1. TalkInv => Answered
  BY QuietAnswered DEF TalkInv
<1> QED BY <1>1, TalkInductive, PTL

-----------------------------------------------------------------------------
\* The world the session keeps.

WorldInv == Typed /\ Phase /\ Stays

\* With the types and the phases, every chunk of the world, of a worker, of the server and
\* of every packet on its way was sent for the stay its place is in: a respawn and a
\* reconfiguration drop what was loaded, and no frame is read while a chunk is decoded.
THEOREM StaysInductive == Spec => []WorldInv
<1>1. Init => WorldInv
  BY TypedInit, PhaseInit, StaysInit DEF WorldInv
<1>2. WorldInv /\ [Next]_vars => WorldInv'
  BY TypedStep, PhaseStep, StaysStep DEF WorldInv
<1> QED BY <1>1, <1>2, PTL DEF Spec

\* Every slot of the entity store is found by the id it holds, with its generation, or is
\* free, once (entity.rs spawn, remove and clear), and no chunk of another stay is in the
\* world, although a worker decodes it meanwhile (chat_session.rs, run_play_session).
THEOREM WorldStaysSound == Spec => []WorldSound
<1>1. WorldInv => WorldSound
  <2> SUFFICES ASSUME WorldInv PROVE WorldSound
    OBVIOUS
  <2>1. StoreExact
    BY StoreSoundIsExact DEF WorldInv, Typed, Sound
  <2> QED BY <2>1 DEF WorldInv, Stays, WorldSound
<1> QED BY <1>1, StaysInductive, PTL

=============================================================================
