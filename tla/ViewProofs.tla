------------------------------ MODULE ViewProofs ------------------------------
(***************************************************************************)
(* The two sides of a Play session see the same world once all is quiet,   *)
(* and none of the world's packets ends the session before the server      *)
(* crowds it: for every number of entity ids, chunks and positions, every  *)
(* habit of user and server and every length of a session.  Then what a    *)
(* click or a packet leaves of any copy of an inventory, whoever holds it. *)
(***************************************************************************)
EXTENDS PlaySessionProofs

-----------------------------------------------------------------------------
\* What the two sides see of the world, and what a packet changes of it.

\* The entities of a store, by protocol id.
Known1(store) == [i \in DOMAIN store.byId |-> [Lookup(store, i) EXCEPT !.id = None]]
NoChunks == [c \in Coordinates |-> None]
Nobody == [i \in {} |-> 0]

\* The client's view: what is being decoded is as good as loaded.  In World Mode only the
\* server knows where the player is until the simulation has told it.
WithDecoded(chunks, decode) ==
    IF decode = None THEN chunks
    ELSE [c \in Coordinates |-> IF c = decode.at THEN decode.chunk ELSE chunks[c]]
Placed(w) == WorldMode /\ w.x # None
View(w, t) ==
    [own |-> w.own, dim |-> w.dim, mode |-> w.mode, rain |-> w.rain, rotated |-> w.rotated,
     teleport |-> w.teleport,
     x |-> IF Placed(w) THEN 0 ELSE w.x,
     after |-> IF Placed(w) THEN t.sim.after ELSE 0,
     v |-> IF Placed(w) /\ w.own = First THEN t.sim.v ELSE NoPush,
     chunks |-> WithDecoded(w.chunks, t.decode),
     ents |-> Known1(w.store)]
ClientView == View(world, task)

Blank == [own |-> None, dim |-> None, mode |-> None, rain |-> FALSE, rotated |-> FALSE,
          teleport |-> None, x |-> None, after |-> 0, v |-> NoPush, chunks |-> NoChunks,
          ents |-> Nobody]
\* The server's: nothing, once it has asked for a reconfiguration.
Around(entities) ==
    IF WorldMode THEN [i \in DOMAIN entities \ {First} |-> entities[i]] ELSE Nobody
Shows(w) ==
    IF w.configuring THEN Blank
    ELSE [own |-> w.own, dim |-> w.dim, mode |-> w.mode, rain |-> w.rain, rotated |-> TRUE,
          teleport |-> w.teleport,
          x |-> IF WorldMode THEN 0 ELSE w.x,
          after |-> IF WorldMode THEN w.sent ELSE 0,
          v |-> IF WorldMode /\ w.own = First THEN w.v ELSE NoPush,
          chunks |-> w.chunks,
          ents |-> Around(w.entities)]
ServerView == Shows(wserver)

Unseen(p) == p.id = First \/ ~WorldMode

\* Who is known with one more, without some, and with one changed.
Joins(known, id, e) ==
    [i \in DOMAIN known \cup {id} |-> IF i = id THEN [e EXCEPT !.id = None] ELSE known[i]]
Without(known, gone) == [i \in DOMAIN known \ gone |-> known[i]]
Changes(known, p) ==
    [i \in DOMAIN known |-> IF i = p.id THEN Changed(known[i], p) ELSE known[i]]

AfterSpawn(v, p) ==
    IF Unseen(p) THEN v ELSE [v EXCEPT !.ents = Joins(v.ents, p.id, p.entity)]
AfterRemove(v, p) ==
    IF WorldMode THEN [v EXCEPT !.ents = Without(v.ents, Range(p.ids))] ELSE v
AfterUpdate(v, p) ==
    IF Unseen(p) \/ p.id \notin DOMAIN v.ents THEN v
    ELSE [v EXCEPT !.ents = Changes(v.ents, p)]
AfterPush(v, p) ==
    IF p.id = First
    THEN [v EXCEPT !.v = IF WorldMode /\ v.x # None /\ v.own = First THEN p.v ELSE v.v]
    ELSE AfterUpdate(v, p)
AfterChunk(v, p, new) ==
    [v EXCEPT !.chunks = [c \in Coordinates |-> IF c = p.at THEN new ELSE v.chunks[c]]]
AfterBlocks(v, p) ==
    AfterChunk(v, p, IF v.chunks[p.at] = None THEN None
                     ELSE [v.chunks[p.at] EXCEPT !.data[p.field] = p.value])
AfterRespawn(v, p) ==
    [own |-> v.own, dim |-> p.dim, mode |-> p.mode, rain |-> v.rain /\ p.dim = v.dim,
     rotated |-> v.rotated \/ ~p.keep, teleport |-> v.teleport, x |-> None, after |-> 0,
     v |-> NoPush, chunks |-> NoChunks, ents |-> Nobody]
AfterPosition(v, p) ==
    [own |-> v.own, dim |-> v.dim, mode |-> v.mode, rain |-> v.rain, rotated |-> TRUE,
     teleport |-> p.id,
     x |-> IF WorldMode THEN 0 ELSE IF p.relative THEN v.x + p.x ELSE p.x,
     after |-> IF WorldMode THEN p.serial ELSE 0, v |-> NoPush, chunks |-> v.chunks,
     ents |-> v.ents]

AfterLogin(v, p) ==
    [own |-> p.own, dim |-> p.dim, mode |-> p.mode, rain |-> v.rain, rotated |-> v.rotated,
     teleport |-> v.teleport, x |-> v.x, after |-> v.after, v |-> v.v, chunks |-> v.chunks,
     ents |-> v.ents]

After(v, p) ==
    CASE p.kind = "spawn" -> AfterSpawn(v, p)
      [] p.kind = "remove" -> AfterRemove(v, p)
      [] p.kind \in {"move", "sync", "data"} -> AfterUpdate(v, p)
      [] p.kind = "velocity" -> AfterPush(v, p)
      [] p.kind = "chunk" -> AfterChunk(v, p, p.chunk)
      [] p.kind = "forget" -> AfterChunk(v, p, None)
      [] p.kind = "update" -> AfterBlocks(v, p)
      [] p.kind = "rain" -> [v EXCEPT !.rain = p.rain]
      [] p.kind = "mode" -> [v EXCEPT !.mode = p.mode]
      [] p.kind = "respawn" -> AfterRespawn(v, p)
      [] p.kind = "position" -> AfterPosition(v, p)
      [] p.kind = "rotation" -> [v EXCEPT !.rotated = TRUE]
      [] p.kind = "start_configuration" -> Blank
      [] p.kind = "login" -> AfterLogin(v, p)
      [] OTHER -> v

\* Who sees this may be told that.
OfWorld == {"chunk", "forget", "update", "rain", "mode", "respawn", "position", "rotation"}
RoomForEntity(v, id) == Cardinality(DOMAIN v.ents \ {id}) < MaxEntities
RoomForChunk(v, at) == Cardinality({d \in Coordinates \ {at} : v.chunks[d] # None}) < MaxChunks
Lawful(v, p) ==
    /\ p.kind \in OfWorld => v.own # None
    /\ p.kind = "spawn" => Unseen(p) \/ Crowded \/ RoomForEntity(v, p.id)
    /\ p.kind = "chunk" => Crowded \/ RoomForChunk(v, p.at)
    /\ p.kind = "position" =>
        /\ p.relative => v.x # None
        /\ p.turns => v.rotated
        /\ v.teleport # None => p.id > v.teleport
    /\ p.kind = "rotation" /\ p.turns => v.rotated

\* Who sees v is told packets one by one, each lawful, and then sees w.
Leads(v, packets, w) ==
    \E seen : /\ seen[0] = v /\ seen[Len(packets)] = w
              /\ \A i \in 1 .. Len(packets) :
                  /\ seen[i] = After(seen[i - 1], packets[i])
                  /\ Lawful(seen[i - 1], packets[i])

\* What the client keeps beside its view.
KeptBy(w, t) ==
    /\ First \notin DOMAIN w.store.byId
    /\ w.x # None => w.rotated /\ w.own # None
    /\ IF t.configuring THEN w.x = None
       ELSE w.own # None /\ t.controller = w.own /\ (t.sim # None <=> Placed(w))
    /\ t.decode # None => Crowded \/ RoomForChunk(w, t.decode.at)
Kept == KeptBy(world, task)
\* And the server.
HeldBy(w) ==
    /\ w.own \notin DOMAIN w.entities
    /\ \A i \in DOMAIN w.entities : w.entities[i].id = None
Held == HeldBy(wserver) /\ (~WorldMode => NoneOf("move", up))

\* A simulation that has told its position told this server, or is about to.
Told2 == task.sim # None /\ ~task.configuring /\ task.sim.told
LastMove(i) ==
    /\ i \in DOMAIN up /\ up[i].kind = "move" /\ up[i].x = task.sim.x
    /\ \A j \in DOMAIN up : j > i => up[j].kind # "move" /\ ~IsA(up[j], "confirm", wserver.awaiting)
Poses ==
    Told2 /\ ~wserver.configuring /\ NoneOf("position", down) =>
        \/ NoneOf("move", up) /\ wserver.x = task.sim.x
        \/ \E i \in DOMAIN up : LastMove(i)

Views == /\ Kept /\ Held /\ OnlyCrowdsEnd
         /\ Running => Leads(ClientView, down, ServerView) /\ Poses

LEMMA LeadsNowhere ==
  ASSUME NEW v
  PROVE  Leads(v, <<>>, v)
<1> DEFINE seen == [i \in {0} |-> v]
<1>1. seen[0] = v /\ Len(<<>>) = 0 /\ 1 .. 0 = {}
  OBVIOUS
<1> QED BY <1>1 DEF Leads

LEMMA LeadsRead ==
  ASSUME NEW s, IsSeq(s), s # <<>>, NEW v, NEW w, Leads(v, s, w)
  PROVE  Lawful(v, Head(s)) /\ Leads(After(v, Head(s)), Tail(s), w)
<1>1. PICK f : /\ f[0] = v /\ f[Len(s)] = w
               /\ \A i \in 1 .. Len(s) : /\ f[i] = After(f[i - 1], s[i])
                                         /\ Lawful(f[i - 1], s[i])
  BY DEF Leads
<1> DEFINE n == Len(s)
<1>2. /\ n \in Nat /\ n >= 1 /\ Len(Tail(s)) = n - 1 /\ Head(s) = s[1]
      /\ \A i \in 1 .. n - 1 : Tail(s)[i] = s[i + 1]
  BY Popped
<1> DEFINE seen == [i \in 0 .. n - 1 |-> f[i + 1]]
<1>3. f[1] = After(v, s[1]) /\ Lawful(v, s[1])
  BY <1>1, <1>2, 1 \in 1 .. Len(s), 1 - 1 = 0
<1>4. seen[0] = After(v, Head(s)) /\ seen[n - 1] = w
  BY <1>1, <1>2, <1>3
<1>5. ASSUME NEW i \in 1 .. n - 1
      PROVE  seen[i] = After(seen[i - 1], Tail(s)[i]) /\ Lawful(seen[i - 1], Tail(s)[i])
  <2>1. i + 1 \in 1 .. n /\ (i + 1) - 1 = i /\ seen[i] = f[i + 1] /\ seen[i - 1] = f[i]
    BY <1>2
  <2>2. f[i + 1] = After(f[i], s[i + 1]) /\ Lawful(f[i], s[i + 1])
    BY <1>1, <2>1
  <2> QED BY <1>2, <2>1, <2>2
<1> HIDE DEF seen
<1> QED BY <1>2, <1>3, <1>4, <1>5 DEF Leads

LEMMA LeadsOn ==
  ASSUME NEW s, IsSeq(s), NEW t, IsSeq(t), NEW v, NEW w, NEW u, Leads(v, s, w), Leads(w, t, u)
  PROVE  Leads(v, s \o t, u)
<1>1. PICK f : /\ f[0] = v /\ f[Len(s)] = w
               /\ \A i \in 1 .. Len(s) : /\ f[i] = After(f[i - 1], s[i])
                                         /\ Lawful(f[i - 1], s[i])
  BY DEF Leads
<1>2. PICK g : /\ g[0] = w /\ g[Len(t)] = u
               /\ \A i \in 1 .. Len(t) : /\ g[i] = After(g[i - 1], t[i])
                                         /\ Lawful(g[i - 1], t[i])
  BY DEF Leads
<1> DEFINE n == Len(s)
           m == Len(t)
           seen == [i \in 0 .. n + m |-> IF i <= n THEN f[i] ELSE g[i - n]]
<1>3. /\ n \in Nat /\ m \in Nat /\ Len(s \o t) = n + m
      /\ \A i \in 1 .. n : (s \o t)[i] = s[i]
      /\ \A i \in 1 .. n + m : i \in 1 .. n \/ (i - n \in 1 .. m /\ (s \o t)[i] = t[i - n])
  BY Joined
<1>4. seen[0] = v /\ seen[n + m] = u
  <2>1. CASE m = 0
    BY <1>1, <1>2, <1>3, <2>1
  <2>2. CASE m # 0
    BY <1>1, <1>2, <1>3, <2>2
  <2> QED BY <2>1, <2>2
<1>5. \A i \in 0 .. m : seen[n + i] = g[i]
  <2> SUFFICES ASSUME NEW i \in 0 .. m PROVE seen[n + i] = g[i]
    OBVIOUS
  <2>1. CASE i = 0
    BY <1>1, <1>2, <1>3, <2>1
  <2>2. CASE i # 0
    BY <1>3, <2>2
  <2> QED BY <2>1, <2>2
<1>6. ASSUME NEW i \in 1 .. n + m
      PROVE  seen[i] = After(seen[i - 1], (s \o t)[i]) /\ Lawful(seen[i - 1], (s \o t)[i])
  <2>1. CASE i \in 1 .. n
    <3>1. seen[i] = f[i] /\ seen[i - 1] = f[i - 1]
      BY <1>3, <2>1
    <3> QED BY <1>1, <1>3, <2>1, <3>1
  <2>2. CASE i \notin 1 .. n
    <3> DEFINE j == i - n
    <3>1. j \in 1 .. m /\ (s \o t)[i] = t[j] /\ i = n + j /\ i - 1 = n + (j - 1)
          /\ j \in 0 .. m /\ j - 1 \in 0 .. m
      BY <1>3, <2>2
    <3>2. seen[n + j] = g[j] /\ seen[n + (j - 1)] = g[j - 1]
      BY <1>5, <3>1
    <3>3. g[j] = After(g[j - 1], t[j]) /\ Lawful(g[j - 1], t[j])
      BY <1>2, <3>1
    <3> QED BY <3>1, <3>2, <3>3
  <2> QED BY <2>1, <2>2
<1> HIDE DEF seen
<1> QED BY <1>3, <1>4, <1>6 DEF Leads

LEMMA LeadsOne ==
  ASSUME NEW w, NEW p, Lawful(w, p)
  PROVE  Leads(w, <<p>>, After(w, p))
<1> DEFINE seen == [i \in {0, 1} |-> IF i = 0 THEN w ELSE After(w, p)]
<1>1. seen[0] = w /\ seen[1] = After(w, p) /\ Len(<<p>>) = 1 /\ <<p>>[1] = p
  OBVIOUS
<1>2. \A i \in 1 .. 1 : i = 1 /\ i - 1 = 0
  OBVIOUS
<1> HIDE DEF seen
<1> QED BY <1>1, <1>2 DEF Leads

LEMMA LeadsIdle ==
  ASSUME NEW t, IsSeq(t), NEW w, \A i \in DOMAIN t : After(w, t[i]) = w /\ Lawful(w, t[i])
  PROVE  Leads(w, t, w)
<1> DEFINE seen == [i \in 0 .. Len(t) |-> w]
<1>1. Len(t) \in Nat /\ DOMAIN t = 1 .. Len(t)
  BY SeqParts
<1>2. \A i \in 0 .. Len(t) : seen[i] = w
  OBVIOUS
<1>3. seen[0] = w /\ seen[Len(t)] = w
  BY <1>1, <1>2
<1>4. \A i \in 1 .. Len(t) : i - 1 \in 0 .. Len(t) /\ i \in 0 .. Len(t)
  BY <1>1
<1> HIDE DEF seen
<1> QED BY <1>1, <1>2, <1>3, <1>4 DEF Leads

\* The packets of the world.
Telling == OfWorld \cup {"spawn", "remove", "move", "sync", "data", "velocity",
                         "start_configuration", "login"}
LEMMA Untelling ==
  ASSUME NEW p, p.kind \notin Telling, NEW v
  PROVE  After(v, p) = v /\ Lawful(v, p)
<1>1. p.kind \notin OfWorld \cup {"spawn", "chunk", "position", "rotation"}
  BY DEF Telling, OfWorld
<1> QED BY <1>1, Zenon DEF After, Lawful, Telling, OfWorld

LEMMA UpdatesIdle ==
  ASSUME NEW t, UpdatesOnly(t), NEW w
  PROVE  IsSeq(t) /\ Leads(w, t, w)
<1>1. IsSeq(t) /\ \A i \in DOMAIN t : t[i].kind \notin Telling
  BY DEF UpdatesOnly, InventoryKinds, Telling, OfWorld
<1> QED BY <1>1, Untelling, LeadsIdle

-----------------------------------------------------------------------------
\* What the entity store shows.

LEMMA LookupSound ==
  ASSUME NEW store, StoreSound(store), NEW i \in DOMAIN store.byId
  PROVE  /\ Lookup(store, i) = SlotOf(store, i).entity
         /\ Lookup(store, i) \in Entities /\ Lookup(store, i).id = i /\ Lookup(store, i) # None
<1>1. /\ SlotOf(store, i).generation = store.byId[i].generation
      /\ SlotOf(store, i).entity \in Entities /\ SlotOf(store, i).entity.id = i
  BY DEF StoreSound
<1>2. Lookup(store, i) = SlotOf(store, i).entity
  BY <1>1 DEF Lookup, Holds, SlotOf
<1> QED BY <1>1, <1>2, SessionAssumption

\* A store is left without those ids, as many slots, and what it shows of the rest.
Leaves1(new, store, gone) ==
    /\ StoreSound(new) /\ DOMAIN new.byId = DOMAIN store.byId \ gone
    /\ Len(new.slots) = Len(store.slots)
    /\ \A i \in DOMAIN new.byId : Lookup(new, i) = Lookup(store, i)

LEMMA RemovedLeaves ==
  ASSUME NEW store, StoreSound(store), NEW id
  PROVE  Leaves1(Removed(store, id), store, {id})
<1> DEFINE new == Removed(store, id)
<1>1. StoreSound(new)
  BY RemovedSound
<1>2. CASE ~Holds(store, id)
  BY <1>1, <1>2 DEF Removed, Leaves1, Holds
<1>3. CASE Holds(store, id)
  <2> DEFINE slot == store.byId[id].slot
             slots == [store.slots EXCEPT ![slot] = [generation |-> @.generation + 1, entity |-> None]]
             byId == [i \in DOMAIN store.byId \ {id} |-> store.byId[i]]
  <2>1. new.slots = slots /\ new.byId = byId
    BY <1>3 DEF Removed
  <2>2. DOMAIN new.byId = DOMAIN store.byId \ {id}
    BY <2>1
  <2>3. ASSUME NEW i \in DOMAIN new.byId PROVE Lookup(new, i) = Lookup(store, i)
    <3>1. i \in DOMAIN store.byId /\ i # id /\ new.byId[i] = store.byId[i]
      BY <2>1, <2>2
    <3>2. store.byId[i].slot # slot /\ store.byId[i].slot \in DOMAIN store.slots
      BY <1>3, <3>1, StoreFinite DEF Holds, StoreSound
    <3>3. slots[store.byId[i].slot] = store.slots[store.byId[i].slot]
      BY <3>2
    <3>4. SlotOf(new, i) = SlotOf(store, i)
      BY <2>1, <3>1, <3>3 DEF SlotOf
    <3> HIDE DEF new
    <3> QED BY <1>1, <3>1, <3>4, LookupSound
  <2>4. Len(new.slots) = Len(store.slots)
    <3>1. new.slots = slots /\ store.slots \in Seq(Slots1)
      BY <2>1 DEF StoreSound, Stores
    <3>2. new.slots \in Seq(Slots1)
      BY <1>1 DEF StoreSound, Stores
    <3>3. DOMAIN new.slots = DOMAIN store.slots
      BY <3>1
    <3> HIDE DEF new, slots
    <3> QED BY <3>1, <3>2, <3>3
  <2> QED BY <1>1, <2>2, <2>3, <2>4 DEF Leaves1
<1> QED BY <1>2, <1>3

LEMMA RemovalsLeave ==
  ASSUME NEW S, S \subseteq Int, IsFiniteSet(S), NEW store, StoreSound(store), NEW pick,
         NEW h, Removals(h, SUBSET S, store, pick)
  PROVE  Leaves1(h[S], store, {pick[k] : k \in S})
<1> DEFINE OK(s) == Leaves1(h[s], store, {pick[k] : k \in s})
<1> DEFINE Bad == {n \in Nat : \E s \in Within(n, S) : ~OK(s)}
<1>1. Bad = {}
  <2> SUFFICES ASSUME Bad # {} PROVE FALSE
    OBVIOUS
  <2>1. Min(Bad) \in Bad /\ \A m \in Bad : Min(Bad) <= m
    BY Smallest
  <2>2. PICK n \in Nat : n = Min(Bad)
    BY <2>1
  <2>3. PICK s \in Within(n, S) : ~OK(s)
    BY <2>1, <2>2
  <2>4. s \in SUBSET S
    BY DEF Within
  <2>5. h[s] = IF s = {} THEN store ELSE Removed(h[s \ {Max(s)}], pick[Max(s)])
    BY <2>4 DEF Removals
  <2>6. s # {} /\ n # 0
    <3>1. s # {}
      <4>1. Leaves1(store, store, {pick[k] : k \in {}})
        BY DEF Leaves1
      <4> QED BY <2>3, <2>5, <4>1
    <3>2. Within(0, S) = {{}}
      BY WithinSmaller
    <3> QED BY <3>1, <3>2
  <2>7. PICK m \in Nat : n = m + 1
    BY <2>6
  <2> DEFINE r == s \ {Max(s)}
  <2>8. Max(s) \in s /\ r \in Within(m, S)
    BY <2>6, <2>7, WithinSmaller
  <2>9. m \notin Bad
    <3> HIDE DEF Bad
    <3>1. ~(n <= m)
      BY <2>7
    <3> QED BY <2>1, <2>2, <3>1
  <2>10. OK(r)
    BY <2>8, <2>9
  <2>11. h[s] = Removed(h[r], pick[Max(s)])
    BY <2>5, <2>6
  <2>12. Leaves1(h[s], h[r], {pick[Max(s)]})
    <3>1. StoreSound(h[r])
      BY <2>10 DEF Leaves1
    <3> HIDE DEF r, OK
    <3> QED BY <2>11, <3>1, RemovedLeaves
  <2>13. {pick[k] : k \in s} = {pick[k] : k \in r} \cup {pick[Max(s)]}
    <3>1. s = r \cup {Max(s)}
      BY <2>8
    <3> HIDE DEF r
    <3> DEFINE top == Max(s)
    <3> HIDE DEF top
    <3> QED BY <3>1 DEF top
  <2> HIDE DEF r
  <2>14. Leaves1(h[s], store, {pick[k] : k \in s})
    BY <2>10, <2>12, <2>13 DEF Leaves1
  <2> QED BY <2>3, <2>14
<1>2. Cardinality(S) \in Nat /\ S \in Within(Cardinality(S), S)
  BY FS_CardinalityType, WithinSmaller
<1> HIDE DEF OK
<1>3. OK(S)
  BY <1>1, <1>2
<1> QED BY <1>3 DEF OK

LEMMA AllRemovedLeaves ==
  ASSUME NEW store, StoreSound(store), NEW ids, ids \in Seq(Ids)
  PROVE  Leaves1(FoldLeft(Removed, store, ids), store, Range(ids))
<1>1. Range(ids) = {ids[k] : k \in DOMAIN ids}
  BY DEF Range
<1> DEFINE S == DOMAIN ids
<1>2. PICK h : Removals(h, SUBSET S, store, ids) /\ FoldLeft(Removed, store, ids) = h[S]
  BY AllRemovedIs
<1>3. S \subseteq Int /\ IsFiniteSet(S)
  BY AllRemovedIs
<1> HIDE DEF S
<1>4. Leaves1(h[S], store, {ids[k] : k \in S})
  BY <1>2, <1>3, RemovalsLeave
<1> QED BY <1>1, <1>2, <1>4 DEF S

LEMMA ClearedLeaves ==
  ASSUME NEW store, StoreSound(store)
  PROVE  /\ StoreSound(Cleared(store)) /\ DOMAIN Cleared(store).byId = {}
         /\ Len(Cleared(store).slots) = Len(store.slots)
<1> DEFINE D == DOMAIN store.byId
           pick == [i \in D |-> i]
<1>1. {pick[k] : k \in D} = D
  OBVIOUS
<1>2. Leaves1(Cleared(store), store, {pick[k] : k \in D})
  <2>1. PICK h : Removals(h, SUBSET D, store, pick) /\ Cleared(store) = h[D]
    BY ClearedIs
  <2>2. D \subseteq Int /\ IsFiniteSet(D)
    BY ClearedIs
  <2> HIDE DEF pick, D
  <2>3. Leaves1(h[D], store, {pick[k] : k \in D})
    BY <2>1, <2>2, RemovalsLeave
  <2> QED BY <2>1, <2>3
<1> QED BY <1>1, <1>2 DEF Leaves1

LEMMA KnownLeft ==
  ASSUME NEW store, NEW new, NEW gone, Leaves1(new, store, gone)
  PROVE  Known1(new) = Without(Known1(store), gone)
<1>1. DOMAIN new.byId = DOMAIN store.byId \ gone
      /\ \A i \in DOMAIN new.byId : Lookup(new, i) = Lookup(store, i)
  BY DEF Leaves1
<1> QED BY <1>1 DEF Known1, Without

LEMMA KnownNone ==
  ASSUME NEW store, DOMAIN store.byId = {}
  PROVE  Known1(store) = Nobody
BY DEF Known1, Nobody

LEMMA KnownSpawned ==
  ASSUME NEW store, StoreSound(store), NEW id \in Ids, NEW entity \in Entities
  PROVE  Known1(Spawned(store, id, entity)) = Joins(Known1(store), id, entity)
<1> DEFINE old == Removed(store, id)
           new == Spawned(store, id, entity)
           D == DOMAIN store.byId
<1>1. /\ StoreSound(new) /\ DOMAIN new.byId = DOMAIN old.byId \cup {id}
      /\ SlotOf(new, id).entity = [entity EXCEPT !.id = id]
      /\ \A i \in DOMAIN old.byId : SlotOf(new, i) = SlotOf(old, i)
  BY SpawnedSound
<1>2. /\ StoreSound(old) /\ DOMAIN old.byId = D \ {id}
      /\ \A i \in DOMAIN old.byId : Lookup(old, i) = Lookup(store, i)
  BY RemovedLeaves DEF Leaves1
<1> HIDE DEF old, new
<1>3. \A i \in D : i # id => Lookup(new, i) = Lookup(store, i)
  <2> TAKE i \in D
  <2> HAVE i # id
  <2>1. i \in DOMAIN old.byId /\ i \in DOMAIN new.byId
    BY <1>1, <1>2
  <2>2. Lookup(new, i) = SlotOf(new, i).entity /\ Lookup(old, i) = SlotOf(old, i).entity
    BY <2>1, <1>1, <1>2, LookupSound
  <2> QED BY <2>1, <2>2, <1>1, <1>2
<1>4. Lookup(new, id) = [entity EXCEPT !.id = id]
  <2>1. id \in DOMAIN new.byId
    BY <1>1
  <2> QED BY <2>1, <1>1, LookupSound
<1>5. [[entity EXCEPT !.id = id] EXCEPT !.id = None] = [entity EXCEPT !.id = None]
  BY DEF Entities
<1>6. DOMAIN new.byId = D \cup {id}
  BY <1>1, <1>2
<1>7. DOMAIN Known1(store) = D /\ \A i \in D : Known1(store)[i] = [Lookup(store, i) EXCEPT !.id = None]
  BY DEF Known1
<1>8. Known1(new) = [i \in D \cup {id} |-> [Lookup(new, i) EXCEPT !.id = None]]
  BY <1>6 DEF Known1
<1> QED BY <1>3, <1>4, <1>5, <1>7, <1>8 DEF new, Joins

LEMMA ChangedKeeps ==
  ASSUME NEW e \in Entities, NEW p \in EntityUpdates
  PROVE  [Changed(e, p) EXCEPT !.id = None] = Changed([e EXCEPT !.id = None], p)
<1>1. CASE p \in [kind : {"move"}, id : Ids, delta : Int]
  <2>1. p.kind = "move"
    BY <1>1
  <2> QED BY <2>1 DEF Entities, Changed
<1>2. CASE p \in [kind : {"sync"}, id : Ids, x : Int]
  <2>1. p.kind = "sync"
    BY <1>2
  <2> QED BY <2>1 DEF Entities, Changed
<1>3. CASE p \in [kind : {"data"}, id : Ids, data : Int]
  <2>1. p.kind = "data"
    BY <1>3
  <2> QED BY <2>1 DEF Entities, Changed
<1>4. CASE p \in [kind : {"velocity"}, id : Ids, v : Int]
  <2>1. p.kind = "velocity"
    BY <1>4
  <2> QED BY <2>1 DEF Entities, Changed
<1> QED BY <1>1, <1>2, <1>3, <1>4 DEF EntityUpdates

LEMMA KnownUpdated ==
  ASSUME NEW store, StoreSound(store), NEW p \in EntityUpdates
  PROVE  Known1(Updated(store, p)) = Changes(Known1(store), p)
<1> DEFINE new == Updated(store, p)
           D == DOMAIN store.byId
<1>1. /\ StoreSound(new) /\ DOMAIN new.byId = D
      /\ p.id \in D => SlotOf(new, p.id).entity = Changed(SlotOf(store, p.id).entity, p)
      /\ \A i \in D : i # p.id => SlotOf(new, i) = SlotOf(store, i)
  BY UpdatedSound
<1> HIDE DEF new
<1>2. \A i \in D : /\ Lookup(new, i) = SlotOf(new, i).entity
                   /\ Lookup(store, i) = SlotOf(store, i).entity /\ Lookup(store, i) \in Entities
  BY <1>1, LookupSound
<1>3. DOMAIN Known1(store) = D /\ \A i \in D : Known1(store)[i] = [Lookup(store, i) EXCEPT !.id = None]
  BY DEF Known1
<1>4. Known1(new) = [i \in D |-> [Lookup(new, i) EXCEPT !.id = None]]
  BY <1>1 DEF Known1
<1>5. \A i \in D : [Lookup(new, i) EXCEPT !.id = None]
                     = IF i = p.id THEN Changed(Known1(store)[i], p) ELSE Known1(store)[i]
  <2> TAKE i \in D
  <2>1. CASE i = p.id
    <3>1. Lookup(new, i) = Changed(Lookup(store, i), p)
      BY <1>1, <1>2, <2>1
    <3>2. [Changed(Lookup(store, i), p) EXCEPT !.id = None]
            = Changed([Lookup(store, i) EXCEPT !.id = None], p)
      BY <1>2, ChangedKeeps
    <3> QED BY <2>1, <3>1, <3>2, <1>3
  <2>2. CASE i # p.id
    BY <1>1, <1>2, <1>3, <2>2
  <2> QED BY <2>1, <2>2
<1> QED BY <1>3, <1>4, <1>5 DEF new, Changes

\* There is room in the store for one more as long as it holds fewer than MaxEntities others.
LEMMA RoomFound ==
  ASSUME NEW store, StoreSound(store), NEW id,
         Cardinality(DOMAIN store.byId \ {id}) < MaxEntities
  PROVE  RoomLeft(Vacated(store, id))
<1> DEFINE old == Removed(store, id)
           D == DOMAIN old.byId
<1>1. StoreSound(old) /\ D = DOMAIN store.byId \ {id}
  BY RemovedLeaves DEF Leaves1
<1> HIDE DEF old
<1>2. SUFFICES ASSUME old.free = <<>> PROVE Len(old.slots) < MaxEntities
  BY DEF RoomLeft, Vacated, old
<1> DEFINE n == Len(old.slots)
           f == [i \in D |-> old.byId[i].slot]
<1>3. n \in Nat /\ DOMAIN old.slots = 1 .. n
  BY <1>1, StoreParts DEF StoreSound
<1>4. /\ \A i \in D : old.byId[i].slot \in 1 .. n
      /\ \A m \in 1 .. n : \E i \in D : old.byId[i].slot = m
  <2>1. DOMAIN old.free = {}
    BY <1>2
  <2>2. \A m \in DOMAIN old.slots : \/ \E i \in DOMAIN old.byId : old.byId[i].slot = m
                                    \/ \E k \in DOMAIN old.free : old.free[k] = m
    BY <1>1 DEF StoreSound
  <2>3. \A i \in D : old.byId[i].slot \in DOMAIN old.slots
    BY <1>1 DEF StoreSound
  <2> QED BY <2>1, <2>2, <2>3, <1>3
<1>5. IsFiniteSet(D) /\ \A i, j \in D : old.byId[i].slot = old.byId[j].slot => i = j
  BY <1>1, StoreFinite
<1>6. f \in Bijection(D, 1 .. n)
  <2> HIDE DEF D, n
  <2>1. f \in [D -> 1 .. n]
    BY <1>4
  <2>2. \A i, j \in D : f[i] = f[j] => i = j
    BY <1>5
  <2>3. \A m \in 1 .. n : \E i \in D : f[i] = m
    BY <1>4
  <2> HIDE DEF f
  <2> QED BY <2>1, <2>2, <2>3 DEF Bijection, Injection, Surjection, IsInjective
<1>7. Cardinality(D) = n
  <2> HIDE DEF D, n, f
  <2>1. ExistsBijection(D, 1 .. n)
    BY <1>6 DEF ExistsBijection
  <2>2. n \in Nat
    BY <1>3 DEF n
  <2>3. IsFiniteSet(1 .. n) /\ Cardinality(1 .. n) = n
    BY <2>2, FS_Interval
  <2> QED BY <2>1, <2>3, <1>5, FS_Bijection
<1>8. Cardinality(D) < MaxEntities
  BY <1>1
<1> QED BY <1>7, <1>8

-----------------------------------------------------------------------------
\* What the client does to its view is what the packet it reads says.

Advances == ClientView' = After(ClientView, Frame) /\ Kept' /\ UNCHANGED net
Overwhelmed == Crowded /\ \E kind \in {"entities", "chunks"} : Ends(kind)

LEMMA ViewMade ==
  ASSUME UNCHANGED habit, NEW w, NEW t, Goes(w, t)
  PROVE  ClientView' = View(w, t) /\ (KeptBy(w, t) => Kept') /\ UNCHANGED net
<1>1. world' = w /\ task' = t /\ habit' = habit /\ UNCHANGED net
  BY DEF Goes
<1>2. ClientView' = View(w, t)
  BY <1>1 DEF ClientView, View, Placed, WorldMode
<1>3. Kept' <=> KeptBy(w, t)
  BY <1>1 DEF Kept, KeptBy, Placed, WorldMode, Crowded, RoomForChunk
<1> QED BY <1>1, <1>2, <1>3

LEMMA ViewFields ==
  /\ ClientView.own = world.own /\ ClientView.dim = world.dim /\ ClientView.mode = world.mode
  /\ ClientView.rain = world.rain /\ ClientView.rotated = world.rotated
  /\ ClientView.teleport = world.teleport
  /\ WorldMode => (ClientView.x # None <=> world.x # None)
  /\ ~WorldMode => ClientView.x = world.x
  /\ ClientView.ents = Known1(world.store)
  /\ task.decode = None => ClientView.chunks = world.chunks
<1>1. 0 # None
  BY SessionAssumption
<1> QED BY <1>1 DEF ClientView, View, Placed, WithDecoded

LEMMA Watched ==
  ASSUME Kept, NEW store, First \notin DOMAIN store.byId, world \in Worlds
  PROVE  LET w == [world EXCEPT !.store = store]
         IN View(w, task) = [ClientView EXCEPT !.ents = Known1(store)] /\ KeptBy(w, task)
<1> DEFINE w == [world EXCEPT !.store = store]
<1>1. /\ w.own = world.own /\ w.dim = world.dim /\ w.mode = world.mode /\ w.rain = world.rain
      /\ w.rotated = world.rotated /\ w.teleport = world.teleport /\ w.x = world.x
      /\ w.chunks = world.chunks /\ w.store = store
  BY DEF Worlds
<1> HIDE DEF w
<1>2. Placed(w) <=> Placed(world)
  BY <1>1 DEF Placed
<1>3. View(w, task) = [ClientView EXCEPT !.ents = Known1(store)]
  BY <1>1, <1>2 DEF View, ClientView
<1>4. KeptBy(w, task)
  BY <1>1, <1>2 DEF Kept, KeptBy, RoomForChunk
<1> QED BY <1>3, <1>4 DEF w

LEMMA EntityUnseen ==
  ASSUME ~WorldMode, Frame.kind \in EntityKinds
  PROVE  After(ClientView, Frame) = ClientView
<1>1. Unseen(Frame)
  BY DEF Unseen
<1>2. AfterSpawn(ClientView, Frame) = ClientView /\ AfterUpdate(ClientView, Frame) = ClientView
      /\ AfterRemove(ClientView, Frame) = ClientView
  BY <1>1 DEF AfterSpawn, AfterUpdate, AfterRemove
<1>3. AfterPush(ClientView, Frame) = ClientView
  <2>1. [ClientView EXCEPT !.v = ClientView.v] = ClientView
    BY DEF ClientView, View
  <2> QED BY <2>1, <1>2 DEF AfterPush
<1>4. \/ Frame.kind = "spawn" \/ Frame.kind = "remove" \/ Frame.kind = "velocity"
      \/ Frame.kind \in {"move", "sync", "data"}
  BY DEF EntityKinds
<1>5. CASE Frame.kind = "spawn"
  BY <1>2, <1>5 DEF After
<1>6. CASE Frame.kind = "remove"
  BY <1>2, <1>6 DEF After
<1>7. CASE Frame.kind = "velocity"
  BY <1>3, <1>7 DEF After
<1>8. CASE Frame.kind \in {"move", "sync", "data"}
  BY <1>2, <1>8 DEF After
<1> QED BY <1>4, <1>5, <1>6, <1>7, <1>8

LEMMA Unmoved ==
  ASSUME UNCHANGED habit, Kept, Goes(world, task), After(ClientView, Frame) = ClientView
  PROVE  Advances
BY ViewMade DEF Advances, ClientView, Kept

LEMMA PushSeen ==
  ASSUME Kept, world \in Worlds, task \in Tasks, ~task.configuring, task.decode = None,
         NEW p, p.kind = "velocity", p.id = First, p.v \in Int, WorldMode
  PROVE  View(world, Pushed(task, p)) = After(ClientView, p) /\ KeptBy(world, Pushed(task, p))
<1>1. After(ClientView, p)
        = [ClientView EXCEPT !.v = IF ClientView.x # None /\ ClientView.own = First
                                   THEN p.v ELSE ClientView.v]
  BY DEF After, AfterPush
<1>2. /\ task.controller = world.own /\ (task.sim # None <=> Placed(world))
      /\ (ClientView.x # None <=> Placed(world)) /\ ClientView.own = world.own
  BY ViewFields DEF Kept, KeptBy, Placed
<1>3. CASE world.own = First /\ Placed(world)
  <2> DEFINE t == [task EXCEPT !.sim.v = p.v]
  <2>1. Pushed(task, p) = t
    BY <1>2, <1>3 DEF Pushed
  <2>2. task.sim \in Simulations
    BY <1>2, <1>3 DEF Tasks
  <2>3. /\ t.sim.v = p.v /\ t.sim.after = task.sim.after /\ t.decode = task.decode
        /\ t.controller = task.controller /\ t.configuring = task.configuring
        /\ t.sim \in Simulations
    BY <2>2 DEF Tasks, Simulations
  <2>4. t.sim # None
    BY <2>3, SessionAssumption
  <2> HIDE DEF t
  <2>5. View(world, t) = [ClientView EXCEPT !.v = p.v]
    BY <1>3, <2>3 DEF View, ClientView
  <2>6. KeptBy(world, t)
    BY <1>2, <1>3, <2>3, <2>4 DEF Kept, KeptBy
  <2> QED BY <1>1, <1>2, <1>3, <2>1, <2>5, <2>6
<1>4. CASE ~(world.own = First /\ Placed(world))
  <2>1. Pushed(task, p) = task
    BY <1>2, <1>4 DEF Pushed
  <2>2. [ClientView EXCEPT !.v = ClientView.v] = ClientView
    BY DEF ClientView, View
  <2>3. View(world, task) = ClientView /\ KeptBy(world, task)
    BY DEF ClientView, Kept
  <2>4. After(ClientView, p) = ClientView
    BY <1>1, <1>2, <1>4, <2>2
  <2> QED BY <2>1, <2>3, <2>4
<1> QED BY <1>3, <1>4

LEMMA StoreSeen ==
  ASSUME UNCHANGED habit, Kept, world \in Worlds, NEW store, First \notin DOMAIN store.byId,
         Goes([world EXCEPT !.store = store], task),
         After(ClientView, Frame) = [ClientView EXCEPT !.ents = Known1(store)]
  PROVE  Advances
<1> DEFINE w == [world EXCEPT !.store = store]
<1>1. View(w, task) = [ClientView EXCEPT !.ents = Known1(store)] /\ KeptBy(w, task)
  BY Watched
<1> HIDE DEF w
<1>2. Goes(w, task)
  BY DEF w
<1> QED BY <1>1, <1>2, ViewMade DEF Advances

LEMMA ReadEntitySeen ==
  ASSUME Typed, Kept, Lawful(ClientView, Frame), ReadEntity
  PROVE  Advances \/ Overwhelmed
<1>1. /\ UNCHANGED habit /\ down # <<>> /\ Frame.kind \in EntityKinds /\ ~task.configuring
      /\ task.decode = None
  BY DEF ReadEntity, Took, WithoutInventory, Reads, Frame, MayRead, Typed, Sound, ClientOK
<1>2. /\ world \in Worlds /\ task \in Tasks /\ StoreSound(world.store) /\ DownOK(down)
  BY DEF Typed, Sound, ClientOK
<1>3. /\ Frame.kind = "spawn" => Frame.id \in Ids /\ Frame.entity \in Entities
      /\ Frame.kind = "remove" => Frame.ids \in Seq(Ids)
      /\ Frame.kind \in {"move", "sync", "data", "velocity"} => Frame \in EntityUpdates
      /\ Frame.kind = "velocity" => Frame.v \in Int /\ Frame.id \in Ids
  BY <1>1, <1>2, FrameEntity
<1>4. ClientView.ents = Known1(world.store) /\ DOMAIN Known1(world.store) = DOMAIN world.store.byId
  BY ViewFields DEF Known1
<1>5. First \notin DOMAIN world.store.byId
  BY DEF Kept, KeptBy
<1>6. \/ ~WorldMode /\ Goes(world, task)
      \/ WorldMode /\ Frame.kind = "velocity" /\ Frame.id = First /\ Goes(world, Pushed(task, Frame))
      \/ WorldMode /\ Frame.kind = "spawn" /\ Frame.id = First /\ Goes(world, task)
      \/ /\ WorldMode /\ Frame.kind = "spawn" /\ Frame.id # First
         /\ Goes([world EXCEPT !.store = Spawned(world.store, Frame.id, Frame.entity)], task)
      \/ /\ WorldMode /\ Frame.kind = "spawn" /\ Frame.id # First
         /\ ~RoomLeft(Vacated(world.store, Frame.id)) /\ Ends("entities")
      \/ /\ WorldMode /\ Frame.kind = "remove"
         /\ Goes([world EXCEPT !.store = FoldLeft(Removed, world.store, Frame.ids)], task)
      \/ /\ WorldMode /\ Frame.kind \in {"move", "sync", "data", "velocity"}
         /\ ~(Frame.kind = "velocity" /\ Frame.id = First)
         /\ Goes([world EXCEPT !.store = Updated(world.store, Frame)], task)
  <2>1. CASE ~WorldMode
    BY <2>1 DEF ReadEntity, EntityKinds
  <2>2. CASE WorldMode
    <3>1. \/ Frame.kind = "velocity" /\ Frame.id = First
          \/ Frame.kind = "spawn" /\ Frame.id = First
          \/ Frame.kind = "spawn" /\ Frame.id # First
          \/ Frame.kind = "remove"
          \/ /\ Frame.kind \in {"move", "sync", "data", "velocity"}
             /\ ~(Frame.kind = "velocity" /\ Frame.id = First)
      BY <1>1 DEF EntityKinds
    <3> QED BY <1>2, <2>2, <3>1 DEF ReadEntity
  <2> QED BY <2>1, <2>2
<1>7. CASE ~WorldMode /\ Goes(world, task)
  BY <1>1, <1>7, EntityUnseen, Unmoved
<1>8. CASE WorldMode /\ Frame.kind = "velocity" /\ Frame.id = First /\ Goes(world, Pushed(task, Frame))
  <2>1. View(world, Pushed(task, Frame)) = After(ClientView, Frame)
        /\ KeptBy(world, Pushed(task, Frame))
    <3> DEFINE p == Frame
    <3> HIDE DEF p
    <3>1. p.kind = "velocity" /\ p.id = First /\ p.v \in Int
      BY <1>3, <1>8 DEF p
    <3> QED BY <1>1, <1>2, <1>8, <3>1, PushSeen DEF p
  <2> QED BY <1>1, <1>8, <2>1, ViewMade DEF Advances
<1>9. CASE WorldMode /\ Frame.kind = "spawn" /\ Frame.id = First /\ Goes(world, task)
  <2>1. After(ClientView, Frame) = ClientView
    BY <1>9 DEF After, AfterSpawn, Unseen
  <2> QED BY <1>1, <1>9, <2>1, Unmoved
<1>10. CASE /\ WorldMode /\ Frame.kind = "spawn" /\ Frame.id # First
            /\ Goes([world EXCEPT !.store = Spawned(world.store, Frame.id, Frame.entity)], task)
  <2> DEFINE store == Spawned(world.store, Frame.id, Frame.entity)
  <2>1. Known1(store) = Joins(Known1(world.store), Frame.id, Frame.entity)
    BY <1>2, <1>3, <1>10, KnownSpawned
  <2>2. After(ClientView, Frame) = [ClientView EXCEPT !.ents = Known1(store)]
    BY <2>1, <1>4, <1>10 DEF After, AfterSpawn, Unseen
  <2>3. First \notin DOMAIN store.byId
    <3>1. DOMAIN store.byId = DOMAIN Known1(store)
      BY DEF Known1
    <3> HIDE DEF store
    <3> QED BY <3>1, <2>1, <1>4, <1>5, <1>10 DEF Joins
  <2> HIDE DEF store
  <2>4. Goes([world EXCEPT !.store = store], task)
    BY <1>10 DEF store
  <2> QED BY <1>1, <1>2, <2>2, <2>3, <2>4, StoreSeen
<1>11. CASE /\ WorldMode /\ Frame.kind = "spawn" /\ Frame.id # First
            /\ ~RoomLeft(Vacated(world.store, Frame.id)) /\ Ends("entities")
  <2>1. ~RoomForEntity(ClientView, Frame.id)
    BY <1>2, <1>3, <1>4, <1>11, RoomFound DEF RoomForEntity
  <2>2. Crowded
    BY <1>11, <2>1 DEF Lawful, Unseen
  <2> QED BY <1>11, <2>2 DEF Overwhelmed
<1>12. CASE /\ WorldMode /\ Frame.kind = "remove"
            /\ Goes([world EXCEPT !.store = FoldLeft(Removed, world.store, Frame.ids)], task)
  <2> DEFINE store == FoldLeft(Removed, world.store, Frame.ids)
  <2>1. Leaves1(store, world.store, Range(Frame.ids))
    BY <1>2, <1>3, <1>12, AllRemovedLeaves
  <2> HIDE DEF store
  <2>2. Known1(store) = Without(Known1(world.store), Range(Frame.ids))
    BY <2>1, KnownLeft
  <2>3. After(ClientView, Frame) = [ClientView EXCEPT !.ents = Known1(store)]
    BY <2>2, <1>4, <1>12 DEF After, AfterRemove
  <2>4. First \notin DOMAIN store.byId
    BY <2>1, <1>5 DEF Leaves1
  <2>5. Goes([world EXCEPT !.store = store], task)
    BY <1>12 DEF store
  <2> QED BY <1>1, <1>2, <2>3, <2>4, <2>5, StoreSeen
<1>13. CASE /\ WorldMode /\ Frame.kind \in {"move", "sync", "data", "velocity"}
            /\ ~(Frame.kind = "velocity" /\ Frame.id = First)
            /\ Goes([world EXCEPT !.store = Updated(world.store, Frame)], task)
  <2> DEFINE store == Updated(world.store, Frame)
             new == Changes(Known1(world.store), Frame)
  <2>1. Known1(store) = new
    BY <1>2, <1>3, <1>13, KnownUpdated
  <2>2. After(ClientView, Frame) = AfterUpdate(ClientView, Frame)
    <3>1. CASE Frame.kind = "velocity"
      BY <1>13, <3>1 DEF After, AfterPush
    <3>2. CASE Frame.kind \in {"move", "sync", "data"}
      BY <3>2 DEF After
    <3> QED BY <1>13, <3>1, <3>2
  <2>3. AfterUpdate(ClientView, Frame) = [ClientView EXCEPT !.ents = new]
    <3>1. CASE Unseen(Frame) \/ Frame.id \notin DOMAIN ClientView.ents
      <4>1. Frame.id \notin DOMAIN Known1(world.store)
        BY <1>4, <1>5, <1>13, <3>1 DEF Unseen
      <4>2. new = Known1(world.store)
        <5>1. Known1(world.store) = [i \in DOMAIN Known1(world.store) |-> Known1(world.store)[i]]
          BY DEF Known1
        <5> QED BY <4>1, <5>1 DEF Changes
      <4>3. [ClientView EXCEPT !.ents = ClientView.ents] = ClientView
        BY DEF ClientView, View
      <4> HIDE DEF new
      <4> QED BY <3>1, <4>2, <4>3, <1>4 DEF AfterUpdate
    <3>2. CASE ~(Unseen(Frame) \/ Frame.id \notin DOMAIN ClientView.ents)
      BY <3>2, <1>4 DEF AfterUpdate
    <3> QED BY <3>1, <3>2
  <2>4. First \notin DOMAIN store.byId
    <3>1. DOMAIN store.byId = DOMAIN Known1(store)
      BY DEF Known1
    <3>2. DOMAIN new = DOMAIN Known1(world.store)
      BY DEF Changes
    <3> HIDE DEF store, new
    <3> QED BY <3>1, <3>2, <2>1, <1>4, <1>5
  <2> HIDE DEF store, new
  <2>5. Goes([world EXCEPT !.store = store], task)
    BY <1>13 DEF store
  <2>6. After(ClientView, Frame) = [ClientView EXCEPT !.ents = Known1(store)]
    BY <2>1, <2>2, <2>3
  <2> QED BY <1>1, <1>2, <2>4, <2>5, <2>6, StoreSeen
<1> QED BY <1>6, <1>7, <1>8, <1>9, <1>10, <1>11, <1>12, <1>13


LEMMA ChunksSeen ==
  ASSUME Kept, world \in Worlds, task.decode = None, NEW p, p.at \in Coordinates, NEW new
  PROVE  LET w == [world EXCEPT !.chunks[p.at] = new]
         IN View(w, task) = AfterChunk(ClientView, p, new) /\ KeptBy(w, task)
<1> DEFINE w == [world EXCEPT !.chunks[p.at] = new]
           chunks == [c \in Coordinates |-> IF c = p.at THEN new ELSE world.chunks[c]]
<1>1. /\ w.own = world.own /\ w.dim = world.dim /\ w.mode = world.mode /\ w.rain = world.rain
      /\ w.rotated = world.rotated /\ w.teleport = world.teleport /\ w.x = world.x
      /\ w.store = world.store
  BY DEF Worlds
<1>2. w.chunks = chunks
  <2>1. world.chunks \in [Coordinates -> Chunks \cup {None}]
    BY DEF Worlds
  <2>2. w.chunks = [world.chunks EXCEPT ![p.at] = new]
    BY DEF Worlds
  <2> QED BY <2>1, <2>2
<1>3. ClientView.chunks = world.chunks
  BY ViewFields
<1>4. AfterChunk(ClientView, p, new) = [ClientView EXCEPT !.chunks = chunks]
  BY <1>3 DEF AfterChunk
<1> HIDE DEF w, chunks
<1>5. Placed(w) <=> Placed(world)
  BY <1>1 DEF Placed
<1>6. View(w, task) = [ClientView EXCEPT !.chunks = chunks]
  BY <1>1, <1>2, <1>5 DEF View, ClientView, WithDecoded
<1>7. KeptBy(w, task)
  BY <1>1, <1>5 DEF Kept, KeptBy
<1> QED BY <1>4, <1>6, <1>7 DEF w

LEMMA ReadChunkSeen ==
  ASSUME Typed, Kept, Lawful(ClientView, Frame), ReadChunk
  PROVE  Advances
<1> DEFINE t == [task EXCEPT !.decode = Frame]
<1>1. /\ UNCHANGED habit /\ Frame.kind = "chunk" /\ ~task.configuring /\ task.decode = None
      /\ Goes(world, t) /\ down # <<>>
  BY DEF ReadChunk, Took, WithoutInventory, Reads, Frame, MayRead, Typed, Sound, ClientOK
<1>2. Frame \in Decodes /\ Frame # None
  BY <1>1, FrameWorld, SessionAssumption DEF Typed
<1>3. /\ t.decode = Frame /\ t.sim = task.sim /\ t.controller = task.controller
      /\ t.configuring = task.configuring
  BY DEF Typed, Sound, ClientOK, Tasks
<1>4. ClientView.chunks = world.chunks
  BY <1>1, ViewFields
<1> HIDE DEF t
<1>5. After(ClientView, Frame) = [ClientView EXCEPT !.chunks = WithDecoded(world.chunks, Frame)]
  BY <1>1, <1>2, <1>4 DEF After, AfterChunk, WithDecoded
<1>6. View(world, t) = [ClientView EXCEPT !.chunks = WithDecoded(world.chunks, Frame)]
  BY <1>3 DEF View, ClientView
<1>7. Crowded \/ RoomForChunk(world, Frame.at)
  BY <1>1, <1>4 DEF Lawful, RoomForChunk
<1>8. KeptBy(world, t)
  BY <1>1, <1>3, <1>7 DEF Kept, KeptBy
<1> QED BY <1>1, <1>5, <1>6, <1>8, ViewMade DEF Advances

\* The view stays as it is.
SameView == ClientView' = ClientView /\ Kept' /\ UNCHANGED net

LEMMA FinishDecodeSeen ==
  ASSUME Typed, Phase, Kept, FinishDecode
  PROVE  SameView \/ Overwhelmed
<1> DEFINE c == task.decode.at
           others == {d \in Coordinates \ {c} : world.chunks[d] # None}
           w == [world EXCEPT !.chunks[c] = task.decode.chunk]
           t == [task EXCEPT !.decode = None]
<1>1. /\ UNCHANGED habit /\ task.decode # None
      /\ CASE ~world.active -> Ends("lifecycle")
           [] world.active /\ Cardinality(others) >= MaxChunks -> Ends("chunks")
           [] OTHER -> Goes(w, t)
  BY DEF FinishDecode, WithoutInventory
<1>2. task.decode \in Decodes /\ ~task.configuring
  BY <1>1 DEF Typed, Sound, ClientOK, Tasks, Phase
<1>3. world.active
  BY <1>2 DEF Typed, Sound, ClientOK, Kept, KeptBy
<1>4. Cardinality(others) \in Nat
  BY SessionAssumption, FS_Subset, FS_CardinalityType
<1>5. Crowded \/ Cardinality(others) < MaxChunks
  BY <1>1 DEF Kept, KeptBy, RoomForChunk
<1>6. CASE Cardinality(others) >= MaxChunks
  <2>1. Ends("chunks")
    BY <1>1, <1>3, <1>6
  <2>2. Crowded
    BY <1>4, <1>5, <1>6, SessionAssumption
  <2> QED BY <2>1, <2>2 DEF Overwhelmed
<1>7. CASE ~(Cardinality(others) >= MaxChunks)
  <2>1. Goes(w, t)
    BY <1>1, <1>3, <1>7
  <2>2. /\ w.own = world.own /\ w.dim = world.dim /\ w.mode = world.mode /\ w.rain = world.rain
        /\ w.rotated = world.rotated /\ w.teleport = world.teleport /\ w.x = world.x
        /\ w.store = world.store
    BY DEF Typed, Sound, ClientOK, Worlds
  <2>3. w.chunks = WithDecoded(world.chunks, task.decode)
    <3>1. world.chunks \in [Coordinates -> Chunks \cup {None}]
      BY DEF Typed, Sound, ClientOK, Worlds
    <3>2. w.chunks = [world.chunks EXCEPT ![c] = task.decode.chunk]
      BY DEF Typed, Sound, ClientOK, Worlds
    <3> QED BY <3>1, <3>2, <1>1, <1>2 DEF WithDecoded
  <2>4. /\ t.decode = None /\ t.sim = task.sim /\ t.controller = task.controller
        /\ t.configuring = task.configuring
    BY DEF Typed, Sound, ClientOK, Tasks
  <2> HIDE DEF w, t, others
  <2>5. Placed(w) <=> Placed(world)
    BY <2>2 DEF Placed
  <2>6. WithDecoded(w.chunks, t.decode) = WithDecoded(world.chunks, task.decode)
    <3>1. WithDecoded(w.chunks, t.decode) = w.chunks
      BY <2>4 DEF WithDecoded
    <3> QED BY <3>1, <2>3
  <2>7. View(w, t) = ClientView
    BY <2>2, <2>4, <2>5, <2>6 DEF View, ClientView
  <2>8. KeptBy(w, t)
    BY <1>2, <2>2, <2>4, <2>5 DEF Kept, KeptBy
  <2> QED BY <1>1, <2>1, <2>7, <2>8, ViewMade DEF SameView
<1> QED BY <1>6, <1>7

LEMMA ReadChunkUpdateSeen ==
  ASSUME Typed, Kept, Lawful(ClientView, Frame), ReadChunkUpdate
  PROVE  Advances
<1> DEFINE w(new) == [world EXCEPT !.chunks[Frame.at] = new]
           old == world.chunks[Frame.at]
           changed == IF old = None THEN None ELSE [old EXCEPT !.data[Frame.field] = Frame.value]
<1>1. /\ UNCHANGED habit /\ Frame.kind \in {"forget", "update"} /\ ~task.configuring
      /\ task.decode = None /\ down # <<>>
  BY DEF ReadChunkUpdate, Took, WithoutInventory, Reads, Frame, MayRead, Typed, Sound, ClientOK
<1>2. world.active /\ world \in Worlds
  BY <1>1 DEF Typed, Sound, ClientOK, Kept, KeptBy
<1>3. Frame.at \in Coordinates
  BY <1>1, FrameWorld DEF Typed
<1>4. ClientView.chunks = world.chunks
  BY <1>1, ViewFields
<1>5. CASE Frame.kind = "forget"
  <2>1. Goes(w(None), task)
    BY <1>2, <1>5 DEF ReadChunkUpdate
  <2>2. After(ClientView, Frame) = AfterChunk(ClientView, Frame, None)
    BY <1>5 DEF After
  <2>3. View(w(None), task) = AfterChunk(ClientView, Frame, None) /\ KeptBy(w(None), task)
    BY <1>1, <1>2, <1>3, ChunksSeen
  <2> QED BY <1>1, <2>1, <2>2, <2>3, ViewMade DEF Advances
<1>6. CASE Frame.kind = "update"
  <2>1. Goes(w(changed), task)
    BY <1>2, <1>6 DEF ReadChunkUpdate, Worlds
  <2>2. After(ClientView, Frame) = AfterChunk(ClientView, Frame, changed)
    BY <1>4, <1>6 DEF After, AfterBlocks
  <2>3. View(w(changed), task) = AfterChunk(ClientView, Frame, changed)
        /\ KeptBy(w(changed), task)
    BY <1>1, <1>2, <1>3, ChunksSeen
  <2> QED BY <1>1, <2>1, <2>2, <2>3, ViewMade DEF Advances
<1> QED BY <1>1, <1>5, <1>6

LEMMA ReadSettingSeen ==
  ASSUME Typed, Kept, Lawful(ClientView, Frame), ReadSetting
  PROVE  Advances
<1>1. /\ UNCHANGED habit /\ Frame.kind \in {"rain", "mode"} /\ ~task.configuring
      /\ task.decode = None
  BY DEF ReadSetting, Took, WithoutInventory, Reads, Frame, MayRead, Typed, Sound, ClientOK
<1>2. world.active /\ world \in Worlds
  BY <1>1 DEF Typed, Sound, ClientOK, Kept, KeptBy
<1>3. CASE Frame.kind = "rain"
  <2> DEFINE w == [world EXCEPT !.rain = Frame.rain]
  <2>1. Goes(w, task)
    BY <1>2, <1>3 DEF ReadSetting
  <2>2. /\ w.own = world.own /\ w.dim = world.dim /\ w.mode = world.mode /\ w.rain = Frame.rain
        /\ w.rotated = world.rotated /\ w.teleport = world.teleport /\ w.x = world.x
        /\ w.chunks = world.chunks /\ w.store = world.store
    BY <1>2 DEF Worlds
  <2> HIDE DEF w
  <2>3. Placed(w) <=> Placed(world)
    BY <2>2 DEF Placed
  <2>4. View(w, task) = [ClientView EXCEPT !.rain = Frame.rain]
    BY <2>2, <2>3 DEF View, ClientView
  <2>5. After(ClientView, Frame) = [ClientView EXCEPT !.rain = Frame.rain]
    BY <1>3 DEF After
  <2>6. KeptBy(w, task)
    BY <2>2, <2>3 DEF Kept, KeptBy, RoomForChunk
  <2> QED BY <1>1, <2>1, <2>4, <2>5, <2>6, ViewMade DEF Advances
<1>4. CASE Frame.kind = "mode"
  <2> DEFINE w == [world EXCEPT !.mode = Frame.mode]
  <2>1. Goes(w, task)
    BY <1>2, <1>4 DEF ReadSetting
  <2>2. /\ w.own = world.own /\ w.dim = world.dim /\ w.mode = Frame.mode /\ w.rain = world.rain
        /\ w.rotated = world.rotated /\ w.teleport = world.teleport /\ w.x = world.x
        /\ w.chunks = world.chunks /\ w.store = world.store
    BY <1>2 DEF Worlds
  <2> HIDE DEF w
  <2>3. Placed(w) <=> Placed(world)
    BY <2>2 DEF Placed
  <2>4. View(w, task) = [ClientView EXCEPT !.mode = Frame.mode]
    BY <2>2, <2>3 DEF View, ClientView
  <2>5. After(ClientView, Frame) = [ClientView EXCEPT !.mode = Frame.mode]
    BY <1>4 DEF After
  <2>6. KeptBy(w, task)
    BY <2>2, <2>3 DEF Kept, KeptBy, RoomForChunk
  <2> QED BY <1>1, <2>1, <2>4, <2>5, <2>6, ViewMade DEF Advances
<1> QED BY <1>1, <1>3, <1>4

LEMMA ReadRespawnSeen ==
  ASSUME Typed, Kept, Lawful(ClientView, Frame), ReadRespawn
  PROVE  Advances
<1> DEFINE w == Respawned(world, Frame)
           t == Reset(task, world.own)
<1>1. /\ UNCHANGED habit /\ Frame.kind = "respawn" /\ ~task.configuring
      /\ task.decode = None
  BY DEF ReadRespawn, Took, WithoutInventory, Reads, Frame, MayRead, Typed, Sound, ClientOK
<1>2. world.active /\ world \in Worlds /\ world.own # None
  BY <1>1 DEF Typed, Sound, ClientOK, Kept, KeptBy
<1>3. Goes(w, t)
  BY <1>2 DEF ReadRespawn
<1>4. /\ w.own = world.own /\ w.dim = Frame.dim /\ w.mode = Frame.mode
      /\ w.rain = (world.rain /\ Frame.dim = world.dim)
      /\ w.rotated = (world.rotated \/ ~Frame.keep) /\ w.teleport = world.teleport /\ w.x = None
      /\ w.chunks = NoChunks /\ w.store = Cleared(world.store)
  BY <1>2 DEF Worlds, Respawned, NoChunks
<1>5. /\ t.decode = None /\ t.sim = None /\ t.controller = world.own /\ t.configuring = task.configuring
  BY <1>1 DEF Typed, Sound, ClientOK, Tasks, Reset
<1>6. DOMAIN w.store.byId = {} /\ Known1(w.store) = Nobody
  BY <1>4, ClearedLeaves, KnownNone DEF Typed, Sound
<1> HIDE DEF w, t
<1>7. ~Placed(w)
  BY <1>4 DEF Placed
<1>8. WithDecoded(w.chunks, t.decode) = NoChunks
  BY <1>4, <1>5 DEF WithDecoded
<1>9. After(ClientView, Frame) = AfterRespawn(ClientView, Frame)
  BY <1>1 DEF After
<1>10. /\ ClientView.own = world.own /\ ClientView.rain = world.rain /\ ClientView.dim = world.dim
       /\ ClientView.rotated = world.rotated /\ ClientView.teleport = world.teleport
  BY ViewFields
<1>11. View(w, t) = AfterRespawn(ClientView, Frame)
  BY <1>4, <1>6, <1>7, <1>8, <1>10 DEF View, AfterRespawn
<1>12. KeptBy(w, t)
  BY <1>1, <1>2, <1>4, <1>5, <1>6, <1>7 DEF KeptBy
<1> QED BY <1>1, <1>3, <1>9, <1>11, <1>12, ViewMade DEF Advances

LEMMA PositionTaken ==
  ASSUME Typed, Kept, Lawful(ClientView, Frame), Reads({"position"})
  PROVE  Refusal(Frame) = "none" /\ Target(Frame) \in Int
         /\ (~WorldMode /\ Frame.relative => Base = ClientView.x)
<1>1. /\ Frame.kind = "position" /\ ~task.configuring /\ down # <<>>
  BY DEF Reads, Frame, MayRead, Typed, Sound, ClientOK
<1>2. world.own # None /\ (task.sim # None <=> Placed(world)) /\ world.active
      /\ world \in Worlds /\ task \in Tasks
  BY <1>1 DEF Typed, Sound, ClientOK, Kept, KeptBy
<1>3. /\ Frame.relative => ClientView.x # None
      /\ Frame.turns => ClientView.rotated
      /\ ClientView.teleport # None => Frame.id > ClientView.teleport
  BY <1>1 DEF Lawful
<1>4. Frame.x \in Int /\ Frame.id \in Nat
  BY <1>1, FrameWorld DEF Typed
<1>5. Frame.relative => Base \in Int /\ (~WorldMode => Base = ClientView.x)
  <2> SUFFICES ASSUME Frame.relative PROVE Base \in Int /\ (~WorldMode => Base = ClientView.x)
    OBVIOUS
  <2>1. CASE WorldMode
    <3>1. task.sim # None
      BY <1>2, <1>3, <2>1, ViewFields DEF Placed
    <3>2. task.sim.x \in Int
      BY <1>2, <3>1 DEF Tasks, Simulations
    <3> QED BY <2>1, <3>1, <3>2 DEF Base
  <2>2. CASE ~WorldMode
    <3>1. task.sim = None
      BY <1>2, <2>2 DEF Placed
    <3>2. ClientView.x = world.x
      BY <2>2, ViewFields
    <3>3. world.x \in Int
      BY <1>2, <1>3, <3>2 DEF Worlds
    <3> QED BY <3>1, <3>2, <3>3 DEF Base
  <2> QED BY <2>1, <2>2
<1>6. ~(Frame.relative /\ Base = None)
  BY <1>5, SessionAssumption
<1>7. ~(Frame.turns /\ ~Turned)
  BY <1>3, ViewFields DEF Turned
<1>8. ~(world.teleport # None /\ Frame.id <= world.teleport)
  <2>1. world.teleport # None => world.teleport \in Nat /\ Frame.id > world.teleport
    BY <1>2, <1>3, ViewFields DEF Worlds
  <2> QED BY <2>1, <1>4
<1>9. Refusal(Frame) = "none"
  BY <1>2, <1>6, <1>7, <1>8 DEF Refusal
<1>10. Target(Frame) \in Int
  BY <1>4, <1>5 DEF Target
<1> QED BY <1>5, <1>9, <1>10

LEMMA ReadPositionSeen ==
  ASSUME Typed, Kept, Lawful(ClientView, Frame), ReadPosition
  PROVE  Advances
<1> DEFINE x == Target(Frame)
           w == [world EXCEPT !.x = x, !.rotated = TRUE, !.teleport = Frame.id]
           s == Reconciled(task.sim, Frame, x)
           t == IF WorldMode THEN [task EXCEPT !.sim = s] ELSE task
<1>1. /\ UNCHANGED habit /\ Frame.kind = "position" /\ ~task.configuring
      /\ task.decode = None /\ down # <<>> /\ Reads({"position"})
  BY DEF ReadPosition, Took, WithoutInventory, Reads, Frame, MayRead, Typed, Sound, ClientOK
<1>2. world.own # None /\ world \in Worlds /\ task \in Tasks /\ (task.sim # None => WorldMode)
      /\ task.controller = world.own /\ First \notin DOMAIN world.store.byId
  BY <1>1 DEF Typed, Sound, ClientOK, Kept, KeptBy
<1>3. Refusal(Frame) = "none" /\ x \in Int /\ (~WorldMode /\ Frame.relative => Base = ClientView.x)
  BY <1>1, PositionTaken
<1>4. Goes(w, t)
  BY <1>3 DEF ReadPosition
<1>5. x # None
  BY <1>3, SessionAssumption
<1>6. s.v = NoPush /\ s.after = Frame.serial /\ s.x = x /\ s \in Simulations
  BY <1>1, <1>3, FrameWorld DEF Typed, Reconciled, Simulations, NoPush
<1>7. s # None
  BY <1>6, SessionAssumption
<1>8. /\ w.own = world.own /\ w.dim = world.dim /\ w.mode = world.mode /\ w.rain = world.rain
      /\ w.rotated = TRUE /\ w.teleport = Frame.id /\ w.x = x
      /\ w.chunks = world.chunks /\ w.store = world.store
  BY <1>2 DEF Worlds
<1>9. /\ t.decode = None /\ t.sim = (IF WorldMode THEN s ELSE None) /\ t.controller = world.own
      /\ ~t.configuring
  BY <1>1, <1>2 DEF Tasks
<1>10. ~WorldMode => x = IF Frame.relative THEN ClientView.x + Frame.x ELSE Frame.x
  BY <1>3 DEF Target
<1> HIDE DEF w, t, s, x
<1>11. Placed(w) <=> WorldMode
  BY <1>5, <1>8 DEF Placed
<1>12. After(ClientView, Frame) = AfterPosition(ClientView, Frame)
  BY <1>1 DEF After
<1>13. /\ ClientView.own = world.own /\ ClientView.rain = world.rain /\ ClientView.dim = world.dim
       /\ ClientView.mode = world.mode /\ ClientView.ents = Known1(world.store)
       /\ ClientView.chunks = world.chunks
  BY <1>1, ViewFields
<1>14. View(w, t) = [own |-> world.own, dim |-> world.dim, mode |-> world.mode,
     rain |-> world.rain, rotated |-> TRUE, teleport |-> Frame.id,
     x |-> IF WorldMode THEN 0 ELSE x, after |-> IF WorldMode THEN Frame.serial ELSE 0,
     v |-> NoPush, chunks |-> world.chunks, ents |-> Known1(world.store)]
  BY <1>6, <1>8, <1>9, <1>11 DEF View, WithDecoded
<1>15. AfterPosition(ClientView, Frame) = [own |-> world.own, dim |-> world.dim,
     mode |-> world.mode, rain |-> world.rain, rotated |-> TRUE, teleport |-> Frame.id,
     x |-> IF WorldMode THEN 0 ELSE x, after |-> IF WorldMode THEN Frame.serial ELSE 0,
     v |-> NoPush, chunks |-> world.chunks, ents |-> Known1(world.store)]
  BY <1>10, <1>13 DEF AfterPosition
<1>16. KeptBy(w, t)
  BY <1>2, <1>7, <1>8, <1>9, <1>11 DEF KeptBy
<1> QED BY <1>1, <1>4, <1>12, <1>14, <1>15, <1>16, ViewMade DEF Advances

LEMMA ReadRotationSeen ==
  ASSUME Typed, Kept, Lawful(ClientView, Frame), ReadRotation
  PROVE  Advances
<1> DEFINE yes == TRUE
           w == [world EXCEPT !.rotated = yes]
<1>1. /\ UNCHANGED habit /\ Frame.kind = "rotation" /\ ~task.configuring
      /\ task.decode = None
  BY DEF ReadRotation, Took, WithoutInventory, Reads, Frame, MayRead, Typed, Sound, ClientOK
<1>2. world.active /\ world \in Worlds
  BY <1>1 DEF Typed, Sound, ClientOK, Kept, KeptBy
<1>3. ~(Frame.turns /\ ~Turned)
  BY <1>1, ViewFields DEF Lawful, Turned
<1>4. Goes(w, task)
  BY <1>2, <1>3 DEF ReadRotation
<1>5. /\ w.own = world.own /\ w.dim = world.dim /\ w.mode = world.mode /\ w.rain = world.rain
      /\ w.rotated = yes /\ w.teleport = world.teleport /\ w.x = world.x
      /\ w.chunks = world.chunks /\ w.store = world.store
  BY <1>2 DEF Worlds
<1> HIDE DEF w, yes
<1>6. Placed(w) <=> Placed(world)
  BY <1>5 DEF Placed
<1>7. View(w, task) = [ClientView EXCEPT !.rotated = yes]
  BY <1>5, <1>6 DEF View, ClientView
<1>8. After(ClientView, Frame) = [ClientView EXCEPT !.rotated = yes]
  BY <1>1 DEF After, yes
<1>9. KeptBy(w, task)
  BY <1>5, <1>6 DEF Kept, KeptBy, RoomForChunk, yes
<1> QED BY <1>1, <1>4, <1>7, <1>8, <1>9, ViewMade DEF Advances

LEMMA SameSeen ==
  ASSUME UNCHANGED habit, Kept, NEW t, Goes(world, t), t.decode = task.decode,
         t.controller = task.controller, t.configuring = task.configuring,
         \/ t.sim = task.sim
         \/ /\ task.sim # None /\ t.sim # None /\ t.sim.after = task.sim.after
            /\ t.sim.v = task.sim.v
  PROVE  SameView
<1>1. View(world, t) = ClientView
  BY DEF View, ClientView
<1>2. KeptBy(world, t)
  BY DEF Kept, KeptBy
<1> QED BY <1>1, <1>2, ViewMade DEF SameView

LEMMA ReadPlainSeen ==
  ASSUME Typed, Kept, ReadKeepAlive \/ ReadBatchFinished \/ ReadHealth
  PROVE  Advances
<1>1. /\ UNCHANGED habit /\ Frame.kind \in {"keep_alive", "batch_finished", "health"}
  BY DEF ReadKeepAlive, ReadBatchFinished, ReadHealth, Took, WithoutInventory, Reads, Frame
<1>2. task \in Tasks
  BY DEF Typed, Sound, ClientOK
<1>3. After(ClientView, Frame) = ClientView
  BY <1>1, Untelling DEF Telling, OfWorld
<1>4. SameView
  <2>1. CASE Goes(world, task)
    BY <1>1, <2>1, SameSeen
  <2>2. CASE Goes(world, [task EXCEPT !.loaded = TRUE])
    <3> DEFINE t == [task EXCEPT !.loaded = TRUE]
    <3>1. /\ t.decode = task.decode /\ t.controller = task.controller
          /\ t.configuring = task.configuring /\ t.sim = task.sim
      BY <1>2 DEF Tasks
    <3>2. Goes(world, t)
      BY <2>2
    <3> HIDE DEF t
    <3> QED BY <1>1, <3>1, <3>2, SameSeen
  <2>3. CASE Goes(world, [task EXCEPT !.requested = TRUE])
    <3> DEFINE t == [task EXCEPT !.requested = TRUE]
    <3>1. /\ t.decode = task.decode /\ t.controller = task.controller
          /\ t.configuring = task.configuring /\ t.sim = task.sim
      BY <1>2 DEF Tasks
    <3>2. Goes(world, t)
      BY <2>3
    <3> HIDE DEF t
    <3> QED BY <1>1, <3>1, <3>2, SameSeen
  <2> QED BY <2>1, <2>2, <2>3 DEF ReadKeepAlive, ReadBatchFinished, ReadHealth
<1> QED BY <1>3, <1>4 DEF Advances, SameView

LEMMA ReadStartConfigurationSeen ==
  ASSUME Typed, Kept, ReadStartConfiguration
  PROVE  Advances
<1> DEFINE w == BeganConfiguration(world)
           t == [task EXCEPT !.configuring = TRUE]
<1>1. /\ UNCHANGED habit /\ Frame.kind = "start_configuration" /\ Goes(w, t)
      /\ task.decode = None
  BY DEF ReadStartConfiguration, Took, WithoutInventory, Reads, Frame, MayRead
<1>2. world \in Worlds /\ task \in Tasks
  BY DEF Typed, Sound, ClientOK
<1>3. /\ w.own = None /\ w.dim = None /\ w.mode = None /\ w.rain = FALSE
      /\ w.rotated = FALSE /\ w.teleport = None /\ w.x = None
      /\ w.chunks = NoChunks /\ w.store = Cleared(world.store)
  BY <1>2 DEF Worlds, BeganConfiguration, NoChunks
<1>4. t.decode = None /\ t.configuring
  BY <1>1, <1>2 DEF Tasks
<1>5. DOMAIN w.store.byId = {} /\ Known1(w.store) = Nobody
  BY <1>3, ClearedLeaves, KnownNone DEF Typed, Sound
<1> HIDE DEF w, t
<1>6. ~Placed(w)
  BY <1>3 DEF Placed
<1>7. WithDecoded(w.chunks, t.decode) = NoChunks
  BY <1>3, <1>4 DEF WithDecoded
<1>8. View(w, t) = Blank
  BY <1>3, <1>5, <1>6, <1>7 DEF View, Blank
<1>9. After(ClientView, Frame) = Blank
  BY <1>1 DEF After
<1>10. KeptBy(w, t)
  BY <1>3, <1>4, <1>5 DEF KeptBy
<1> QED BY <1>1, <1>8, <1>9, <1>10, ViewMade DEF Advances

LEMMA FinishConfigurationSeen ==
  ASSUME Typed, Phase, Kept, FinishConfiguration
  PROVE  Advances
<1> DEFINE w == EnteredWorld(world, Frame)
           t == Reset([task EXCEPT !.configuring = FALSE], Frame.own)
<1>1. /\ UNCHANGED habit /\ Frame.kind = "login" /\ Goes(w, t) /\ task.configuring /\ down # <<>>
      /\ task.decode = None
  BY DEF FinishConfiguration, Took, WithoutInventory, Frame, Phase
<1>2. world \in Worlds /\ task \in Tasks /\ world.x = None /\ First \notin DOMAIN world.store.byId
  BY <1>1 DEF Typed, Sound, ClientOK, Kept, KeptBy
<1>3. Frame.own \in Ids /\ Frame.own # None
  BY <1>1, FrameWorld, SessionAssumption DEF Typed
<1>4. /\ w.own = Frame.own /\ w.dim = Frame.dim /\ w.mode = Frame.mode /\ w.rain = world.rain
      /\ w.rotated = world.rotated /\ w.teleport = world.teleport /\ w.x = None
      /\ w.chunks = world.chunks /\ w.store = world.store
  BY <1>2 DEF Worlds, EnteredWorld
<1>5. t.decode = None /\ ~t.configuring /\ t.sim = None /\ t.controller = Frame.own
  BY <1>1, <1>2 DEF Tasks, Reset
<1> HIDE DEF w, t
<1>6. ~Placed(w) /\ ~Placed(world)
  BY <1>2, <1>4 DEF Placed
<1>7. /\ ClientView.rain = world.rain /\ ClientView.rotated = world.rotated
      /\ ClientView.teleport = world.teleport /\ ClientView.x = None /\ ClientView.after = 0
      /\ ClientView.v = NoPush /\ ClientView.chunks = world.chunks
      /\ ClientView.ents = Known1(world.store)
  BY <1>1, <1>2, <1>6 DEF View, ClientView, WithDecoded
<1>8. View(w, t) = AfterLogin(ClientView, Frame)
  BY <1>4, <1>5, <1>6, <1>7 DEF View, WithDecoded, AfterLogin
<1>10. After(ClientView, Frame) = AfterLogin(ClientView, Frame)
  BY <1>1 DEF After
<1>9. KeptBy(w, t)
  BY <1>2, <1>3, <1>4, <1>5, <1>6 DEF KeptBy
<1> QED BY <1>1, <1>8, <1>9, <1>10, ViewMade DEF Advances

LEMMA MoveSeen ==
  ASSUME Typed, Kept, Walk \/ ForcedPosition
  PROVE  SameView
<1>1. UNCHANGED habit /\ task.sim # None
      /\ \E x \in Int : Goes(world, [task EXCEPT !.sim.x = x, !.sim.told = TRUE])
  <2>1. CASE Walk
    <3>1. PICK x \in {task.sim.x - 1, task.sim.x + 1} \cap Places :
            /\ Goes(world, [task EXCEPT !.sim.x = x, !.sim.told = TRUE])
            /\ Answer(<<[kind |-> "move", x |-> x, after |-> task.sim.after]>>)
      BY <2>1 DEF Walk
    <3>2. x \in Int
      BY <3>1 DEF Places
    <3> QED BY <2>1, <3>1, <3>2 DEF Walk, WithoutInventory
  <2>2. CASE ForcedPosition
    <3>1. [task EXCEPT !.sim.told = TRUE] = [task EXCEPT !.sim.x = task.sim.x, !.sim.told = TRUE]
      BY <2>2 DEF ForcedPosition, Typed, Sound, ClientOK, Tasks, Simulations
    <3>2. task.sim.x \in Int
      BY <2>2 DEF ForcedPosition, Typed, Sound, ClientOK, Tasks, Simulations
    <3> QED BY <2>2, <3>1, <3>2 DEF ForcedPosition, WithoutInventory
  <2> QED BY <2>1, <2>2
<1>2. task \in Tasks /\ task.sim \in Simulations
  BY <1>1 DEF Typed, Sound, ClientOK, Tasks
<1>3. PICK x \in Int : Goes(world, [task EXCEPT !.sim.x = x, !.sim.told = TRUE])
  BY <1>1
<1> DEFINE t == [task EXCEPT !.sim.x = x, !.sim.told = TRUE]
<1>4. /\ t.decode = task.decode /\ t.controller = task.controller
      /\ t.configuring = task.configuring
  BY <1>2 DEF Tasks
<1>5. t.sim = [task.sim EXCEPT !.x = x, !.told = TRUE]
  BY <1>2 DEF Tasks
<1>6. t.sim.after = task.sim.after /\ t.sim.v = task.sim.v
  BY <1>2, <1>5 DEF Simulations
<1>7. t.sim # None
  BY <1>2, <1>5, SessionAssumption DEF Simulations
<1>8. Goes(world, t)
  BY <1>3
<1> HIDE DEF t
<1> QED BY <1>1, <1>4, <1>6, <1>7, <1>8, SameSeen

LEMMA ClientViewKept ==
  ASSUME UNCHANGED <<habit, world, task>>
  PROVE  ClientView' = ClientView /\ (Kept => Kept')
<1>1. ClientView' = ClientView
  BY DEF ClientView, View, Placed, WorldMode
<1>2. Kept => Kept'
  BY DEF Kept, KeptBy, Placed, WorldMode, Crowded, RoomForChunk
<1> QED BY <1>1, <1>2

LEMMA ServerViewKept ==
  ASSUME UNCHANGED <<habit, wserver>>
  PROVE  ServerView' = ServerView
BY DEF ServerView, Shows, Around, WorldMode

\* A frame that is read takes the client one packet further.
LEMMA FrameSeen ==
  ASSUME Typed, down # <<>>, Leads(ClientView, down, ServerView)
  PROVE  Lawful(ClientView, Frame) /\ Leads(After(ClientView, Frame), Tail(down), ServerView)
BY LeadsRead DEF Typed, DownOK, Frame

ClientSees ==
    \/ Advances /\ down # <<>> /\ down' = Tail(down)
    \/ SameView /\ down' = down
    \/ Overwhelmed

LEMMA WorldClientSees ==
  ASSUME Typed, Phase, Kept, Running, Leads(ClientView, down, ServerView), WorldClient
  PROVE  UNCHANGED <<habit, wserver>> /\ ClientSees
<1>1. CASE ReadEntity
  <2>1. down # <<>> /\ down' = Tail(down) /\ UNCHANGED <<habit, wserver>>
    BY <1>1 DEF ReadEntity, Took, WithoutInventory, Reads
  <2> QED BY <1>1, <2>1, FrameSeen, ReadEntitySeen DEF ClientSees
<1>2. CASE ReadChunk
  <2>1. down # <<>> /\ down' = Tail(down) /\ UNCHANGED <<habit, wserver>>
    BY <1>2 DEF ReadChunk, Took, WithoutInventory, Reads
  <2> QED BY <1>2, <2>1, FrameSeen, ReadChunkSeen DEF ClientSees
<1>3. CASE FinishDecode
  <2>1. down' = down /\ UNCHANGED <<habit, wserver>>
    BY <1>3 DEF FinishDecode, WithoutInventory
  <2> QED BY <1>3, <2>1, FinishDecodeSeen DEF ClientSees
<1>4. CASE ReadChunkUpdate
  <2>1. down # <<>> /\ down' = Tail(down) /\ UNCHANGED <<habit, wserver>>
    BY <1>4 DEF ReadChunkUpdate, Took, WithoutInventory, Reads
  <2> QED BY <1>4, <2>1, FrameSeen, ReadChunkUpdateSeen DEF ClientSees
<1>5. CASE ReadSetting
  <2>1. down # <<>> /\ down' = Tail(down) /\ UNCHANGED <<habit, wserver>>
    BY <1>5 DEF ReadSetting, Took, WithoutInventory, Reads
  <2> QED BY <1>5, <2>1, FrameSeen, ReadSettingSeen DEF ClientSees
<1>6. CASE ReadRespawn
  <2>1. down # <<>> /\ down' = Tail(down) /\ UNCHANGED <<habit, wserver>>
    BY <1>6 DEF ReadRespawn, Took, WithoutInventory, Reads
  <2> QED BY <1>6, <2>1, FrameSeen, ReadRespawnSeen DEF ClientSees
<1>7. CASE ReadPosition
  <2>1. down # <<>> /\ down' = Tail(down) /\ UNCHANGED <<habit, wserver>>
    BY <1>7 DEF ReadPosition, Took, WithoutInventory, Reads
  <2> QED BY <1>7, <2>1, FrameSeen, ReadPositionSeen DEF ClientSees
<1>8. CASE ReadRotation
  <2>1. down # <<>> /\ down' = Tail(down) /\ UNCHANGED <<habit, wserver>>
    BY <1>8 DEF ReadRotation, Took, WithoutInventory, Reads
  <2> QED BY <1>8, <2>1, FrameSeen, ReadRotationSeen DEF ClientSees
<1>9. CASE ReadKeepAlive \/ ReadBatchFinished \/ ReadHealth
  <2>1. down # <<>> /\ down' = Tail(down) /\ UNCHANGED <<habit, wserver>>
    BY <1>9 DEF ReadKeepAlive, ReadBatchFinished, ReadHealth, Took, WithoutInventory, Reads
  <2> QED BY <1>9, <2>1, ReadPlainSeen DEF ClientSees
<1>10. CASE ReadStartConfiguration
  <2>1. down # <<>> /\ down' = Tail(down) /\ UNCHANGED <<habit, wserver>>
    BY <1>10 DEF ReadStartConfiguration, Took, WithoutInventory, Reads
  <2> QED BY <1>10, <2>1, ReadStartConfigurationSeen DEF ClientSees
<1>11. CASE FinishConfiguration
  <2>1. down # <<>> /\ down' = Tail(down) /\ UNCHANGED <<habit, wserver>>
    BY <1>11 DEF FinishConfiguration, Took, WithoutInventory
  <2> QED BY <1>11, <2>1, FinishConfigurationSeen DEF ClientSees
<1>12. CASE Walk \/ ForcedPosition
  <2>1. down' = down /\ UNCHANGED <<habit, wserver>>
    BY <1>12 DEF Walk, ForcedPosition, WithoutInventory
  <2> QED BY <1>12, <2>1, MoveSeen DEF ClientSees
<1> QED
  BY <1>1, <1>2, <1>3, <1>4, <1>5, <1>6, <1>7, <1>8, <1>9, <1>10, <1>11, <1>12 DEF WorldClient

LEMMA ClientLeads ==
  ASSUME Typed, Phase, Kept, Running, Leads(ClientView, down, ServerView), WorldClient
  PROVE  /\ UNCHANGED <<habit, wserver>> /\ Kept'
         /\ \/ Running' /\ Leads(ClientView', down', ServerView')
            \/ Overwhelmed
<1>1. UNCHANGED <<habit, wserver>> /\ ClientSees
  BY WorldClientSees
<1>2. ServerView' = ServerView
  BY <1>1, ServerViewKept
<1>3. CASE Advances /\ down # <<>> /\ down' = Tail(down)
  <2>1. Leads(After(ClientView, Frame), Tail(down), ServerView)
    BY <1>3, FrameSeen
  <2>2. Running'
    BY <1>3 DEF Advances, Running
  <2>3. ClientView' = After(ClientView, Frame) /\ Kept'
    BY <1>3 DEF Advances
  <2> QED BY <1>1, <1>2, <1>3, <2>1, <2>2, <2>3
<1>4. CASE SameView /\ down' = down
  <2>1. Running'
    BY <1>4 DEF SameView, Running
  <2> QED BY <1>1, <1>2, <1>4, <2>1 DEF SameView
<1>5. CASE Overwhelmed
  <2>1. UNCHANGED <<world, task>>
    BY <1>5 DEF Overwhelmed, Ends
  <2> QED BY <1>1, <1>5, <2>1, ClientViewKept
<1> QED BY <1>1, <1>3, <1>4, <1>5 DEF ClientSees

-----------------------------------------------------------------------------
\* What the server does to its world is what the packets it sends say.

SamePose ==
    /\ up' = up /\ wserver'.x = wserver.x /\ wserver'.awaiting = wserver.awaiting
    /\ wserver'.configuring = wserver.configuring
Listens ==
    /\ up # <<>> /\ up' = Tail(up) /\ wserver'.configuring = wserver.configuring
    /\ wserver'.awaiting \in {None, wserver.awaiting}
    /\ IF Head(up).kind = "move" /\ wserver.awaiting = None /\ ~wserver.configuring
       THEN wserver'.x = Head(up).x
       ELSE wserver'.x = wserver.x
ServerTells ==
    /\ UNCHANGED <<habit, net, world, task>> /\ HeldBy(wserver')
    /\ up' = up \/ (up # <<>> /\ up' = Tail(up))
    /\ \E packets :
        /\ IsSeq(packets) /\ down' = down \o packets
        /\ Leads(ServerView, packets, ServerView')
        /\ wserver'.configuring \/ ~NoneOf("position", packets) \/ SamePose \/ Listens

LEMMA Showing ==
  ASSUME UNCHANGED habit, NEW w, wserver' = w
  PROVE  ServerView' = Shows(w)
BY DEF ServerView, Shows, Around, WorldMode

LEMMA OneTold ==
  ASSUME NEW w, HeldBy(w), w.x = wserver.x, w.awaiting = wserver.awaiting,
         w.configuring = wserver.configuring, NEW p, Does(w, <<p>>),
         Lawful(ServerView, p), Shows(w) = After(ServerView, p)
  PROVE  ServerTells
<1>1. UNCHANGED <<habit, net, world, task>> /\ up' = up /\ wserver' = w /\ down' = down \o <<p>>
  BY DEF Does
<1>2. Leads(ServerView, <<p>>, ServerView')
  BY <1>1, Showing, LeadsOne
<1>3. IsSeq(<<p>>)
  BY Short
<1>4. HeldBy(wserver')
  BY <1>1
<1>5. SamePose
  BY <1>1 DEF SamePose
<1> QED BY <1>1, <1>2, <1>3, <1>4, <1>5 DEF ServerTells

LEMMA ShownParts ==
  ASSUME ~wserver.configuring
  PROVE  /\ ServerView.own = wserver.own /\ ServerView.dim = wserver.dim
         /\ ServerView.mode = wserver.mode /\ ServerView.rain = wserver.rain
         /\ ServerView.rotated = TRUE /\ ServerView.teleport = wserver.teleport
         /\ ServerView.x = (IF WorldMode THEN 0 ELSE wserver.x)
         /\ ServerView.v = (IF WorldMode /\ wserver.own = First THEN wserver.v ELSE NoPush)
         /\ ServerView.chunks = wserver.chunks /\ ServerView.ents = Around(wserver.entities)
BY DEF ServerView, Shows

\* Entities.
Put(entities, id, e) ==
    [i \in DOMAIN entities \cup {id} |-> IF i = id THEN e ELSE entities[i]]

LEMMA EntitiesShown ==
  ASSUME wserver \in Servers, ~wserver.configuring, NEW E
  PROVE  LET w == [wserver EXCEPT !.entities = E]
         IN /\ Shows(w) = [ServerView EXCEPT !.ents = Around(E)]
            /\ w.x = wserver.x /\ w.awaiting = wserver.awaiting
            /\ w.configuring = wserver.configuring /\ w.own = wserver.own /\ w.entities = E
<1> DEFINE w == [wserver EXCEPT !.entities = E]
<1>1. /\ w.own = wserver.own /\ w.dim = wserver.dim /\ w.mode = wserver.mode
      /\ w.rain = wserver.rain /\ w.teleport = wserver.teleport /\ w.x = wserver.x
      /\ w.sent = wserver.sent /\ w.v = wserver.v /\ w.chunks = wserver.chunks
      /\ w.entities = E /\ w.awaiting = wserver.awaiting /\ w.configuring = wserver.configuring
  BY DEF Servers
<1> HIDE DEF w
<1>2. Shows(w) = [ServerView EXCEPT !.ents = Around(E)]
  <2> DEFINE yes == TRUE
             x == IF WorldMode THEN 0 ELSE w.x
             after == IF WorldMode THEN w.sent ELSE 0
             v == IF WorldMode /\ w.own = First THEN w.v ELSE NoPush
  <2>1. ServerView = [own |-> w.own, dim |-> w.dim, mode |-> w.mode, rain |-> w.rain,
          rotated |-> yes, teleport |-> w.teleport, x |-> x, after |-> after, v |-> v,
          chunks |-> w.chunks, ents |-> Around(wserver.entities)]
    BY <1>1 DEF Shows, ServerView
  <2>2. Shows(w) = [own |-> w.own, dim |-> w.dim, mode |-> w.mode, rain |-> w.rain,
          rotated |-> yes, teleport |-> w.teleport, x |-> x, after |-> after, v |-> v,
          chunks |-> w.chunks, ents |-> Around(E)]
    BY <1>1 DEF Shows
  <2> HIDE DEF yes, x, after, v
  <2> QED BY <2>1, <2>2
<1> QED BY <1>1, <1>2 DEF w

LEMMA PutAround ==
  ASSUME NEW old, NEW id, NEW e \in Entities, e.id = None
  PROVE  Around(Put(old, id, e))
           = IF id = First \/ ~WorldMode THEN Around(old) ELSE Joins(Around(old), id, e)
<1>1. [e EXCEPT !.id = None] = e
  BY DEF Entities
<1>2. CASE ~WorldMode
  BY <1>2 DEF Around
<1>3. CASE WorldMode /\ id = First
  BY <1>3 DEF Around, Put
<1>4. CASE WorldMode /\ id # First
  BY <1>1, <1>4 DEF Around, Put, Joins
<1> QED BY <1>2, <1>3, <1>4

LEMMA ChangeAround ==
  ASSUME NEW old, NEW p, p.id \in DOMAIN old
  PROVE  Around(Put(old, p.id, Changed(old[p.id], p)))
           = IF Unseen(p) THEN Around(old) ELSE Changes(Around(old), p)
<1> DEFINE e == Changed(old[p.id], p)
<1>1. CASE ~WorldMode
  BY <1>1 DEF Around, Unseen
<1>2. CASE WorldMode /\ p.id = First
  <2> HIDE DEF e
  <2>1. Around(Put(old, p.id, e)) = Around(old)
    BY <1>2 DEF Around, Put
  <2> QED BY <1>2, <2>1 DEF Unseen, e
<1>3. CASE WorldMode /\ p.id # First
  <2>1. DOMAIN Put(old, p.id, e) = DOMAIN old
    BY DEF Put
  <2>2. \A i \in DOMAIN old : Put(old, p.id, e)[i] = IF i = p.id THEN e ELSE old[i]
    BY DEF Put
  <2>3. Around(Put(old, p.id, e)) = [i \in DOMAIN old \ {First} |-> Put(old, p.id, e)[i]]
    BY <1>3, <2>1 DEF Around
  <2>4. Around(old) = [i \in DOMAIN old \ {First} |-> old[i]]
    BY <1>3 DEF Around
  <2>5. Changes(Around(old), p)
          = [i \in DOMAIN old \ {First} |-> IF i = p.id THEN Changed(old[i], p) ELSE old[i]]
    BY <2>4 DEF Changes
  <2>6. \A i \in DOMAIN old \ {First} : Put(old, p.id, e)[i]
           = IF i = p.id THEN Changed(old[i], p) ELSE old[i]
    BY <2>2
  <2> HIDE DEF e
  <2>7. Around(Put(old, p.id, e)) = Changes(Around(old), p)
    BY <2>3, <2>5, <2>6
  <2> QED BY <1>3, <2>7 DEF Unseen, e
<1> QED BY <1>1, <1>2, <1>3

LEMMA PutTold ==
  ASSUME wserver \in Servers, Held, ~wserver.configuring, NEW id, id # wserver.own, NEW e,
         e.id = None, NEW p, Tell(p, id, e), Lawful(ServerView, p),
         After(ServerView, p) = [ServerView EXCEPT !.ents = Around(Put(wserver.entities, id, e))]
  PROVE  ServerTells
<1> DEFINE E == Put(wserver.entities, id, e)
           w == [wserver EXCEPT !.entities = E]
<1>1. Does(w, <<p>>)
  BY DEF Tell, Put, Remote
<1>2. DOMAIN E = Remote \cup {id} /\ \A i \in DOMAIN E : E[i].id = None
  BY DEF Put, Remote, Held, HeldBy
<1> HIDE DEF E
<1>3. /\ Shows(w) = [ServerView EXCEPT !.ents = Around(E)]
      /\ w.x = wserver.x /\ w.awaiting = wserver.awaiting
      /\ w.configuring = wserver.configuring /\ w.own = wserver.own /\ w.entities = E
  BY EntitiesShown
<1> HIDE DEF w
<1>4. HeldBy(w)
  BY <1>2, <1>3 DEF Held, HeldBy, Remote
<1>5. Shows(w) = After(ServerView, p)
  BY <1>3 DEF E
<1> QED BY <1>1, <1>3, <1>4, <1>5, OneTold

LEMMA SpawnsTold ==
  ASSUME Typed, Held, ServerSpawns
  PROVE  ServerTells
<1>1. wserver \in Servers /\ ~wserver.configuring /\ IsFiniteSet(Remote)
  BY DEF Typed, ServerOK, ServerSpawns, Playing, Remote
<1>2. PICK id \in Ids \ {wserver.own} :
        Tell([kind |-> "spawn", id |-> id, entity |-> NewEntity], id, NewEntity)
  BY DEF ServerSpawns
<1> DEFINE p == [kind |-> "spawn", id |-> id, entity |-> NewEntity]
<1>3. NewEntity \in Entities /\ NewEntity.id = None
  BY DEF NewEntity, Entities, NoPush
<1>4. p.kind = "spawn" /\ p.id = id /\ p.entity = NewEntity
  OBVIOUS
<1>5. Tell(p, id, NewEntity)
  BY <1>2
<1> HIDE DEF p
<1>6. ServerView.ents = Around(wserver.entities)
  BY <1>1, ShownParts
<1>7. After(ServerView, p)
        = [ServerView EXCEPT !.ents = Around(Put(wserver.entities, id, NewEntity))]
  <2>1. CASE Unseen(p)
    <3>1. Around(Put(wserver.entities, id, NewEntity)) = ServerView.ents
      BY <1>3, <1>4, <1>6, <2>1, PutAround DEF Unseen
    <3>2. [ServerView EXCEPT !.ents = ServerView.ents] = ServerView
      BY <1>1 DEF ServerView, Shows
    <3> QED BY <1>4, <2>1, <3>1, <3>2 DEF After, AfterSpawn
  <2>2. CASE ~Unseen(p)
    <3>1. Around(Put(wserver.entities, id, NewEntity)) = Joins(ServerView.ents, id, NewEntity)
      BY <1>3, <1>4, <1>6, <2>2, PutAround DEF Unseen
    <3> QED BY <1>4, <2>2, <3>1 DEF After, AfterSpawn
  <2> QED BY <2>1, <2>2
<1>8. Lawful(ServerView, p)
  <2>1. Unseen(p) \/ Crowded \/ RoomForEntity(ServerView, p.id)
    <3> SUFFICES ASSUME ~Unseen(p), ~Crowded PROVE RoomForEntity(ServerView, p.id)
      OBVIOUS
    <3> DEFINE others == DOMAIN ServerView.ents \ {p.id}
    <3>1. others \subseteq Remote
      BY <1>6 DEF Around, Unseen, Remote
    <3>2. Cardinality(others) <= Cardinality(Remote) /\ Cardinality(others) \in Nat
          /\ Cardinality(Remote) \in Nat
      BY <1>1, <3>1, FS_Subset, FS_CardinalityType
    <3>3. Cardinality(Remote) < MaxEntities
      BY DEF ServerSpawns, Crowded
    <3> QED BY <3>2, <3>3, SessionAssumption DEF RoomForEntity
  <2> QED BY <1>4, <2>1 DEF Lawful, OfWorld
<1> QED BY <1>1, <1>2, <1>3, <1>5, <1>7, <1>8, PutTold

LEMMA ChangeTold ==
  ASSUME wserver \in Servers, Held, ~wserver.configuring, NEW id, id \in Remote, NEW p,
         p \in EntityUpdates, p.id = id, NEW e, e = Changed(wserver.entities[id], p),
         Tell(p, id, e)
  PROVE  ServerTells
<1> DEFINE old == wserver.entities
<1>1. old[id] \in Entities /\ old[id].id = None /\ id # wserver.own
  BY DEF Servers, EntityMaps, Remote, Held, HeldBy
<1>2. e.id = None
  <2>1. CASE p \in [kind : {"move"}, id : Ids, delta : Int]
    BY <1>1, <2>1 DEF Entities, Changed
  <2>2. CASE p \in [kind : {"sync"}, id : Ids, x : Int]
    BY <1>1, <2>2 DEF Entities, Changed
  <2>3. CASE p \in [kind : {"data"}, id : Ids, data : Int]
    BY <1>1, <2>3 DEF Entities, Changed
  <2>4. CASE p \in [kind : {"velocity"}, id : Ids, v : Int]
    BY <1>1, <2>4 DEF Entities, Changed
  <2> QED BY <2>1, <2>2, <2>3, <2>4 DEF EntityUpdates
<1>3. Around(Put(old, id, e)) = IF Unseen(p) THEN Around(old) ELSE Changes(Around(old), p)
  BY ChangeAround DEF Remote
<1> HIDE DEF old
<1>4. ServerView.ents = Around(old) /\ ServerView.own = wserver.own
  BY ShownParts DEF old
<1>5. p.kind \in {"move", "sync", "data", "velocity"}
  BY DEF EntityUpdates
<1>6. [ServerView EXCEPT !.ents = ServerView.ents] = ServerView
      /\ [ServerView EXCEPT !.v = ServerView.v] = ServerView
  BY <1>1 DEF ServerView, Shows
<1>7. AfterUpdate(ServerView, p) = [ServerView EXCEPT !.ents = Around(Put(old, id, e))]
  <2>1. CASE Unseen(p)
    BY <1>3, <1>4, <1>6, <2>1 DEF AfterUpdate
  <2>2. CASE ~Unseen(p)
    <3>1. p.id \in DOMAIN ServerView.ents
      BY <1>4, <2>2 DEF Around, Unseen, Remote, old
    <3> QED BY <1>3, <1>4, <2>2, <3>1 DEF AfterUpdate
  <2> QED BY <2>1, <2>2
<1>8. After(ServerView, p) = AfterUpdate(ServerView, p)
  <2>1. CASE p.kind \in {"move", "sync", "data"}
    BY <2>1 DEF After
  <2>2. CASE p.kind = "velocity" /\ p.id = First
    <3>1. ServerView.own # First
      BY <1>1, <1>4, <2>2
    <3>2. AfterPush(ServerView, p) = ServerView
      BY <1>6, <2>2, <3>1 DEF AfterPush
    <3>3. AfterUpdate(ServerView, p) = ServerView
      BY <2>2 DEF AfterUpdate, Unseen
    <3> QED BY <2>2, <3>2, <3>3 DEF After
  <2>3. CASE p.kind = "velocity" /\ p.id # First
    BY <2>3 DEF After, AfterPush
  <2> QED BY <1>5, <2>1, <2>2, <2>3
<1>9. Lawful(ServerView, p)
  BY <1>5 DEF Lawful, OfWorld
<1> QED BY <1>1, <1>2, <1>7, <1>8, <1>9, PutTold DEF old

LEMMA MovesTold ==
  ASSUME Typed, Held, ServerMovesEntity
  PROVE  ServerTells
<1>1. wserver \in Servers /\ ~wserver.configuring
  BY DEF Typed, ServerOK, ServerMovesEntity, Playing
<1>2. PICK id \in Remote :
        LET e == wserver.entities[id]
        IN \/ \E delta \in {1, -1} :
                /\ e.x + delta \in Places
                /\ Tell([kind |-> "move", id |-> id, delta |-> delta], id,
                        [e EXCEPT !.x = @ + delta])
           \/ Tell([kind |-> "sync", id |-> id, x |-> Line], id, [e EXCEPT !.x = Line])
           \/ Tell([kind |-> "data", id |-> id, data |-> 1], id, [e EXCEPT !.data = 1])
           \/ Tell([kind |-> "velocity", id |-> id, v |-> 1], id, [e EXCEPT !.v = 1])
  BY DEF ServerMovesEntity
<1> DEFINE e == wserver.entities[id]
<1>3. id \in Ids
  BY <1>1 DEF Servers, EntityMaps, Remote
<1> DEFINE Told3(p) == p \in EntityUpdates /\ p.id = id /\ Tell(p, id, Changed(e, p))
<1>4. ASSUME NEW p, Told3(p) PROVE ServerTells
  <2> DEFINE new == Changed(e, p)
  <2>1. p \in EntityUpdates /\ p.id = id /\ Tell(p, id, new) /\ new = Changed(wserver.entities[id], p)
    BY <1>4
  <2> HIDE DEF new
  <2> QED BY <1>1, <2>1, ChangeTold
<1>5. CASE \E delta \in {1, -1} : Tell([kind |-> "move", id |-> id, delta |-> delta], id,
                                        [e EXCEPT !.x = @ + delta])
  <2>1. PICK delta \in {1, -1} : Tell([kind |-> "move", id |-> id, delta |-> delta], id,
                                        [e EXCEPT !.x = @ + delta])
    BY <1>5
  <2> DEFINE p == [kind |-> "move", id |-> id, delta |-> delta]
  <2>2. p.kind = "move" /\ p.id = id /\ p.delta = delta
    OBVIOUS
  <2>3. p \in [kind : {"move"}, id : Ids, delta : Int]
    BY <1>3
  <2>4. Tell(p, id, [e EXCEPT !.x = @ + delta])
    BY <2>1
  <2> HIDE DEF p, e
  <2>5. Changed(e, p) = [e EXCEPT !.x = @ + delta]
    BY <2>2 DEF Changed
  <2> QED BY <1>4, <2>2, <2>3, <2>4, <2>5 DEF EntityUpdates
<1>6. CASE Tell([kind |-> "sync", id |-> id, x |-> Line], id, [e EXCEPT !.x = Line])
  <2> DEFINE p == [kind |-> "sync", id |-> id, x |-> Line]
  <2>2. p.kind = "sync" /\ p.id = id /\ p.x = Line
    OBVIOUS
  <2>3. p \in [kind : {"sync"}, id : Ids, x : Int]
    BY <1>3, SessionAssumption
  <2>4. Tell(p, id, [e EXCEPT !.x = Line])
    BY <1>6
  <2> HIDE DEF p, e
  <2>5. Changed(e, p) = [e EXCEPT !.x = Line]
    BY <2>2 DEF Changed
  <2> QED BY <1>4, <2>2, <2>3, <2>4, <2>5 DEF EntityUpdates
<1>7. CASE Tell([kind |-> "data", id |-> id, data |-> 1], id, [e EXCEPT !.data = 1])
  <2> DEFINE p == [kind |-> "data", id |-> id, data |-> 1]
  <2>2. p.kind = "data" /\ p.id = id /\ p.data = 1
    OBVIOUS
  <2>3. p \in [kind : {"data"}, id : Ids, data : Int]
    BY <1>3
  <2>4. Tell(p, id, [e EXCEPT !.data = 1])
    BY <1>7
  <2> HIDE DEF p, e
  <2>5. Changed(e, p) = [e EXCEPT !.data = 1]
    BY <2>2 DEF Changed
  <2> QED BY <1>4, <2>2, <2>3, <2>4, <2>5 DEF EntityUpdates
<1>8. CASE Tell([kind |-> "velocity", id |-> id, v |-> 1], id, [e EXCEPT !.v = 1])
  <2> DEFINE p == [kind |-> "velocity", id |-> id, v |-> 1]
  <2>2. p.kind = "velocity" /\ p.id = id /\ p.v = 1
    OBVIOUS
  <2>3. p \in [kind : {"velocity"}, id : Ids, v : Int]
    BY <1>3
  <2>4. Tell(p, id, [e EXCEPT !.v = 1])
    BY <1>8
  <2> HIDE DEF p, e
  <2>5. Changed(e, p) = [e EXCEPT !.v = 1]
    BY <2>2 DEF Changed
  <2> QED BY <1>4, <2>2, <2>3, <2>4, <2>5 DEF EntityUpdates
<1> QED BY <1>2, <1>5, <1>6, <1>7, <1>8

LEMMA RemovesTold ==
  ASSUME Typed, Held, ServerRemoves
  PROVE  ServerTells
<1>1. wserver \in Servers /\ ~wserver.configuring
  BY DEF Typed, ServerOK, ServerRemoves, Playing
<1>2. PICK gone \in SUBSET Remote \ {{}} : \E ids \in SetToSeqs(gone) :
        Does([wserver EXCEPT !.entities = [i \in Remote \ gone |-> @[i]]],
             <<[kind |-> "remove", ids |-> ids]>>)
  BY DEF ServerRemoves
<1>3. PICK ids \in SetToSeqs(gone) :
        Does([wserver EXCEPT !.entities = [i \in Remote \ gone |-> wserver.entities[i]]],
             <<[kind |-> "remove", ids |-> ids]>>)
  BY <1>2
<1> DEFINE E == [i \in Remote \ gone |-> wserver.entities[i]]
           w == [wserver EXCEPT !.entities = E]
           p == [kind |-> "remove", ids |-> ids]
<1>4. Range(ids) = gone
  <2> DEFINE D == 1 .. Cardinality(gone)
  <2>1. IsFiniteSet(gone) /\ Cardinality(gone) \in Nat
    BY FS_Subset, FS_CardinalityType DEF Typed, ServerOK, Remote
  <2>2. IsFiniteSet(D) /\ Cardinality(D) = Cardinality(gone)
    BY <2>1, FS_Interval
  <2>3. ids \in Injection(D, gone)
    BY <1>3 DEF SetToSeqs, Injection, IsInjective
  <2> HIDE DEF D
  <2>4. ids \in Surjection(D, gone)
    BY <2>1, <2>2, <2>3, FS_Injection
  <2> QED BY <2>4 DEF Surjection, Range
<1>5. Does(w, <<p>>)
  BY <1>3
<1>6. p.kind = "remove" /\ p.ids = ids
  OBVIOUS
<1>7. DOMAIN E = Remote \ gone /\ \A i \in DOMAIN E : E[i] = wserver.entities[i]
  OBVIOUS
<1>8. Around(E) = IF WorldMode THEN Without(Around(wserver.entities), gone)
                  ELSE Around(wserver.entities)
  BY <1>7 DEF Around, Without, Remote
<1> HIDE DEF E, p
<1>9. /\ Shows(w) = [ServerView EXCEPT !.ents = Around(E)]
      /\ w.x = wserver.x /\ w.awaiting = wserver.awaiting
      /\ w.configuring = wserver.configuring /\ w.own = wserver.own /\ w.entities = E
  BY <1>1, EntitiesShown
<1> HIDE DEF w
<1>10. HeldBy(w)
  BY <1>7, <1>9 DEF Held, HeldBy, Remote
<1>11. ServerView.ents = Around(wserver.entities)
  BY <1>1, ShownParts
<1>12. Shows(w) = After(ServerView, p)
  <2>1. CASE WorldMode
    BY <1>4, <1>6, <1>8, <1>9, <1>11, <2>1 DEF After, AfterRemove
  <2>2. CASE ~WorldMode
    <3>1. [ServerView EXCEPT !.ents = ServerView.ents] = ServerView
      BY <1>1 DEF ServerView, Shows
    <3> QED BY <1>6, <1>8, <1>9, <1>11, <2>2, <3>1 DEF After, AfterRemove
  <2> QED BY <2>1, <2>2
<1>13. Lawful(ServerView, p)
  BY <1>6 DEF Lawful, OfWorld
<1> QED BY <1>5, <1>9, <1>10, <1>12, <1>13, OneTold

\* The player, the chunks and the weather.
SamePlace(w) ==
    /\ ~wserver.configuring /\ w.configuring = wserver.configuring
    /\ w.own = wserver.own /\ w.dim = wserver.dim /\ w.teleport = wserver.teleport
    /\ w.x = wserver.x /\ w.sent = wserver.sent /\ w.awaiting = wserver.awaiting
    /\ w.entities = wserver.entities
PushOf(w) == IF WorldMode /\ w.own = First THEN w.v ELSE NoPush

LEMMA OneShown ==
  ASSUME NEW w, SamePlace(w)
  PROVE  /\ w.mode = wserver.mode /\ w.rain = wserver.rain /\ w.chunks = wserver.chunks =>
              Shows(w) = [ServerView EXCEPT !.v = PushOf(w)]
         /\ w.mode = wserver.mode /\ w.rain = wserver.rain /\ w.v = wserver.v =>
              Shows(w) = [ServerView EXCEPT !.chunks = w.chunks]
         /\ w.mode = wserver.mode /\ w.chunks = wserver.chunks /\ w.v = wserver.v =>
              Shows(w) = [ServerView EXCEPT !.rain = w.rain]
         /\ w.rain = wserver.rain /\ w.chunks = wserver.chunks /\ w.v = wserver.v =>
              Shows(w) = [ServerView EXCEPT !.mode = w.mode]
         /\ w.mode = wserver.mode /\ w.rain = wserver.rain /\ w.chunks = wserver.chunks
            /\ w.v = wserver.v => Shows(w) = ServerView
<1> DEFINE yes == TRUE
           x == IF WorldMode THEN 0 ELSE w.x
           after == IF WorldMode THEN w.sent ELSE 0
           v == PushOf(wserver)
           v2 == PushOf(w)
           ents == Around(w.entities)
<1>1. ServerView = [own |-> w.own, dim |-> w.dim, mode |-> wserver.mode, rain |-> wserver.rain,
          rotated |-> yes, teleport |-> w.teleport, x |-> x, after |-> after, v |-> v,
          chunks |-> wserver.chunks, ents |-> ents]
  BY DEF Shows, ServerView, SamePlace, PushOf
<1>2. Shows(w) = [own |-> w.own, dim |-> w.dim, mode |-> w.mode, rain |-> w.rain,
          rotated |-> yes, teleport |-> w.teleport, x |-> x, after |-> after, v |-> v2,
          chunks |-> w.chunks, ents |-> ents]
  BY DEF Shows, SamePlace, PushOf
<1>3. w.v = wserver.v => v2 = v
  BY DEF PushOf, SamePlace
<1> HIDE DEF yes, x, after, v, v2, ents
<1>4. w.mode = wserver.mode /\ w.rain = wserver.rain /\ w.chunks = wserver.chunks =>
        Shows(w) = [ServerView EXCEPT !.v = v2]
  BY <1>1, <1>2
<1>5. w.mode = wserver.mode /\ w.rain = wserver.rain /\ w.v = wserver.v =>
        Shows(w) = [ServerView EXCEPT !.chunks = w.chunks]
  BY <1>1, <1>2, <1>3
<1>6. w.mode = wserver.mode /\ w.chunks = wserver.chunks /\ w.v = wserver.v =>
        Shows(w) = [ServerView EXCEPT !.rain = w.rain]
  BY <1>1, <1>2, <1>3
<1>7. w.rain = wserver.rain /\ w.chunks = wserver.chunks /\ w.v = wserver.v =>
        Shows(w) = [ServerView EXCEPT !.mode = w.mode]
  BY <1>1, <1>2, <1>3
<1>8. w.mode = wserver.mode /\ w.rain = wserver.rain /\ w.chunks = wserver.chunks
      /\ w.v = wserver.v => Shows(w) = ServerView
  BY <1>1, <1>2, <1>3
<1> QED BY <1>4, <1>5, <1>6, <1>7, <1>8 DEF v2

LEMMA PlaceTold ==
  ASSUME Held, NEW w, SamePlace(w), NEW packets, IsSeq(packets), Does(w, packets),
         Leads(ServerView, packets, Shows(w))
  PROVE  ServerTells
<1>1. UNCHANGED <<habit, net, world, task>> /\ up' = up /\ wserver' = w
      /\ down' = down \o packets
  BY DEF Does
<1>2. ServerView' = Shows(w)
  BY <1>1, Showing
<1>3. HeldBy(wserver') /\ SamePose
  BY <1>1 DEF SamePose, SamePlace, Held, HeldBy
<1> QED BY <1>1, <1>2, <1>3 DEF ServerTells

LEMMA PlaceToldOne ==
  ASSUME Held, NEW w, SamePlace(w), NEW p, Does(w, <<p>>), Lawful(ServerView, p),
         Shows(w) = After(ServerView, p)
  PROVE  ServerTells
<1>1. IsSeq(<<p>>) /\ Leads(ServerView, <<p>>, Shows(w))
  BY Short, LeadsOne
<1> QED BY <1>1, PlaceTold

LEMMA PushesTold ==
  ASSUME Typed, Held, ServerPushes
  PROVE  ServerTells
<1> DEFINE w == [wserver EXCEPT !.v = 1]
           p == [kind |-> "velocity", id |-> wserver.own, v |-> 1]
<1>1. wserver \in Servers /\ ~wserver.configuring /\ Does(w, <<p>>)
  BY DEF Typed, ServerOK, ServerPushes, Playing
<1>2. /\ SamePlace(w) /\ w.v = 1 /\ w.mode = wserver.mode /\ w.rain = wserver.rain
      /\ w.chunks = wserver.chunks
  BY <1>1 DEF SamePlace, Servers
<1>3. p.kind = "velocity" /\ p.id = wserver.own /\ p.v = 1
  OBVIOUS
<1>4. Shows(w) = [ServerView EXCEPT !.v = PushOf(w)]
  BY <1>2, OneShown
<1> HIDE DEF w, p
<1>5. /\ ServerView.own = wserver.own /\ ServerView.ents = Around(wserver.entities)
      /\ ServerView.x = (IF WorldMode THEN 0 ELSE wserver.x)
      /\ ServerView.v = PushOf(wserver) /\ [ServerView EXCEPT !.v = ServerView.v] = ServerView
  BY <1>1 DEF ServerView, Shows, PushOf
<1>6. w.own = wserver.own
  BY <1>2 DEF SamePlace
<1>7. After(ServerView, p) = Shows(w)
  <2>1. After(ServerView, p) = AfterPush(ServerView, p)
    BY <1>3 DEF After
  <2>2. CASE p.id = First /\ WorldMode
    <3>1. ServerView.x # None /\ ServerView.own = First /\ PushOf(w) = p.v
      BY <1>2, <1>3, <1>5, <1>6, <2>2, SessionAssumption DEF PushOf
    <3> QED BY <1>4, <2>1, <2>2, <3>1 DEF AfterPush
  <2>3. CASE p.id = First /\ ~WorldMode
    <3>1. PushOf(w) = ServerView.v
      BY <1>5, <2>3 DEF PushOf
    <3> QED BY <1>4, <2>1, <2>3, <3>1 DEF AfterPush
  <2>4. CASE p.id # First
    <3>1. PushOf(w) = ServerView.v
      BY <1>3, <1>5, <1>6, <2>4 DEF PushOf
    <3>2. p.id \notin DOMAIN ServerView.ents
      BY <1>3, <1>5 DEF Around, Nobody, Held, HeldBy
    <3>3. AfterUpdate(ServerView, p) = ServerView
      BY <3>2 DEF AfterUpdate
    <3> QED BY <1>4, <1>5, <2>1, <2>4, <3>1, <3>3 DEF AfterPush
  <2> QED BY <2>2, <2>3, <2>4
<1>8. Lawful(ServerView, p)
  BY <1>3 DEF Lawful, OfWorld
<1> QED BY <1>1, <1>2, <1>7, <1>8, PlaceToldOne

LEMMA TurnsTold ==
  ASSUME Typed, Held, ServerTurns
  PROVE  ServerTells
<1> DEFINE p == [kind |-> "rotation", turns |-> TRUE]
<1>1. wserver \in Servers /\ ~wserver.configuring /\ Does(wserver, <<p>>)
  BY DEF Typed, ServerOK, ServerTurns, Playing
<1>2. SamePlace(wserver) /\ Shows(wserver) = ServerView
  BY <1>1 DEF SamePlace, ServerView
<1>3. p.kind = "rotation"
  OBVIOUS
<1> HIDE DEF p
<1>4. ServerView.rotated /\ ServerView.own # None
      /\ [ServerView EXCEPT !.rotated = TRUE] = ServerView
  <2>1. ServerView.rotated = TRUE /\ ServerView.own = wserver.own
    BY <1>1, ShownParts
  <2>2. [ServerView EXCEPT !.rotated = ServerView.rotated] = ServerView
    BY <1>1 DEF ServerView, Shows
  <2> QED BY <1>1, <2>1, <2>2, SessionAssumption DEF Servers
<1>5. After(ServerView, p) = ServerView /\ Lawful(ServerView, p)
  BY <1>3, <1>4 DEF After, Lawful
<1> QED BY <1>1, <1>2, <1>5, PlaceToldOne

LEMMA UntellingTold ==
  ASSUME Held, NEW w, SamePlace(w), w.mode = wserver.mode, w.rain = wserver.rain,
         w.chunks = wserver.chunks, w.v = wserver.v, NEW p, p.kind \notin Telling,
         Does(w, <<p>>)
  PROVE  ServerTells
BY OneShown, Untelling, PlaceToldOne

LEMMA KillsTold ==
  ASSUME Typed, Held, ServerKills
  PROVE  ServerTells
<1> DEFINE w == [wserver EXCEPT !.alive = FALSE]
           p == [kind |-> "health"]
<1>1. wserver \in Servers /\ ~wserver.configuring /\ Does(w, <<p>>)
  BY DEF Typed, ServerOK, ServerKills, Playing
<1>2. /\ SamePlace(w) /\ w.v = wserver.v /\ w.mode = wserver.mode /\ w.rain = wserver.rain
      /\ w.chunks = wserver.chunks
  BY <1>1 DEF SamePlace, Servers
<1>3. p.kind \notin Telling
  BY DEF Telling, OfWorld
<1> HIDE DEF w, p
<1> QED BY <1>1, <1>2, <1>3, UntellingTold

LEMMA AsksTold ==
  ASSUME Typed, Held, ServerAsks
  PROVE  ServerTells
<1> DEFINE id == server.events
           w == [wserver EXCEPT !.asked = @ \cup {id}]
           p == [kind |-> "keep_alive", id |-> id]
<1>1. wserver \in Servers /\ ~wserver.configuring /\ Does(w, <<p>>)
  BY DEF Typed, ServerOK, ServerAsks, Playing
<1>2. /\ SamePlace(w) /\ w.v = wserver.v /\ w.mode = wserver.mode /\ w.rain = wserver.rain
      /\ w.chunks = wserver.chunks
  BY <1>1 DEF SamePlace, Servers
<1>3. p.kind \notin Telling
  BY DEF Telling, OfWorld
<1> HIDE DEF w, p
<1> QED BY <1>1, <1>2, <1>3, UntellingTold

LEMMA ChunkTold ==
  ASSUME wserver \in Servers, NEW w, SamePlace(w), w.mode = wserver.mode,
         w.rain = wserver.rain, w.v = wserver.v, NEW c \in Coordinates, NEW new,
         w.chunks = [wserver.chunks EXCEPT ![c] = new], NEW p, p.at = c
  PROVE  Shows(w) = AfterChunk(ServerView, p, new) /\ ServerView.chunks = wserver.chunks
         /\ ServerView.own # None
<1>1. ServerView.chunks = wserver.chunks /\ ServerView.own = wserver.own
  BY ShownParts DEF SamePlace
<1>2. w.chunks = [d \in Coordinates |-> IF d = p.at THEN new ELSE ServerView.chunks[d]]
  BY <1>1 DEF Servers
<1>3. Shows(w) = [ServerView EXCEPT !.chunks = w.chunks]
  BY OneShown
<1>4. Shows(w) = AfterChunk(ServerView, p, new)
  BY <1>2, <1>3 DEF AfterChunk
<1> QED BY <1>1, <1>4, SessionAssumption DEF Servers

LEMMA SendsChunkTold ==
  ASSUME Typed, Held, ServerSendsChunk
  PROVE  ServerTells
<1>1. wserver \in Servers /\ ~wserver.configuring
  BY DEF Typed, ServerOK, ServerSendsChunk, Playing
<1>2. PICK c \in Coordinates, value \in {0, 1} :
        /\ \/ "crowds" \in habit
           \/ Cardinality({d \in Coordinates \ {c} : wserver.chunks[d] # None}) < MaxChunks
        /\ LET chunk == [stay |-> wserver.stay, data |-> [f \in Fields |-> value]]
           IN Does([wserver EXCEPT !.chunks[c] = chunk, !.batches = 1],
                   <<[kind |-> "chunk", at |-> c, chunk |-> chunk], [kind |-> "batch_finished"]>>)
  BY DEF ServerSendsChunk
<1> DEFINE chunk == [stay |-> wserver.stay, data |-> [f \in Fields |-> value]]
           w == [wserver EXCEPT !.chunks[c] = chunk, !.batches = 1]
           p == [kind |-> "chunk", at |-> c, chunk |-> chunk]
           q == [kind |-> "batch_finished"]
<1>3. Does(w, <<p, q>>)
  BY <1>2
<1>4. p.kind = "chunk" /\ p.at = c /\ p.chunk = chunk /\ q.kind = "batch_finished"
  OBVIOUS
<1> HIDE DEF chunk
<1>5. /\ SamePlace(w) /\ w.mode = wserver.mode /\ w.rain = wserver.rain /\ w.v = wserver.v
      /\ w.chunks = [wserver.chunks EXCEPT ![c] = chunk]
  BY <1>1 DEF SamePlace, Servers
<1> HIDE DEF w, p, q
<1>6. Shows(w) = AfterChunk(ServerView, p, chunk) /\ ServerView.chunks = wserver.chunks
      /\ ServerView.own # None
  BY <1>1, <1>4, <1>5, ChunkTold
<1>7. After(ServerView, p) = Shows(w)
  BY <1>4, <1>6 DEF After
<1>8. Lawful(ServerView, p)
  BY <1>2, <1>4, <1>6 DEF Lawful, Crowded, RoomForChunk
<1>9. q.kind \notin Telling
  BY <1>4 DEF Telling, OfWorld
<1>10. After(Shows(w), q) = Shows(w) /\ Lawful(Shows(w), q)
  BY <1>9, Untelling
<1>11. Leads(ServerView, <<p>>, Shows(w)) /\ Leads(Shows(w), <<q>>, Shows(w))
  BY <1>7, <1>8, <1>10, LeadsOne
<1>12. IsSeq(<<p>>) /\ IsSeq(<<q>>) /\ <<p>> \o <<q>> = <<p, q>>
  BY Short, Pair
<1>13. Leads(ServerView, <<p>> \o <<q>>, Shows(w))
  BY <1>11, <1>12, LeadsOn
<1>14. IsSeq(<<p>> \o <<q>>)
  BY <1>12, Joined
<1> QED BY <1>3, <1>5, <1>12, <1>13, <1>14, PlaceTold

LEMMA ForgetsTold ==
  ASSUME Typed, Held, ServerForgets
  PROVE  ServerTells
<1>1. wserver \in Servers /\ ~wserver.configuring
  BY DEF Typed, ServerOK, ServerForgets, Playing
<1>2. PICK c \in Coordinates :
        Does([wserver EXCEPT !.chunks[c] = None], <<[kind |-> "forget", at |-> c]>>)
  BY DEF ServerForgets
<1> DEFINE w == [wserver EXCEPT !.chunks[c] = None]
           p == [kind |-> "forget", at |-> c]
<1>3. Does(w, <<p>>) /\ p.kind = "forget" /\ p.at = c
  BY <1>2
<1>4. /\ SamePlace(w) /\ w.mode = wserver.mode /\ w.rain = wserver.rain /\ w.v = wserver.v
      /\ w.chunks = [wserver.chunks EXCEPT ![c] = None]
  BY <1>1 DEF SamePlace, Servers
<1> HIDE DEF w, p
<1>5. Shows(w) = AfterChunk(ServerView, p, None) /\ ServerView.own # None
  BY <1>1, <1>3, <1>4, ChunkTold
<1>6. After(ServerView, p) = Shows(w) /\ Lawful(ServerView, p)
  BY <1>3, <1>5 DEF After, Lawful
<1> QED BY <1>3, <1>4, <1>6, PlaceToldOne

LEMMA UpdatesTold ==
  ASSUME Typed, Held, ServerUpdates
  PROVE  ServerTells
<1>1. wserver \in Servers /\ ~wserver.configuring
  BY DEF Typed, ServerOK, ServerUpdates, Playing
<1>2. PICK c \in Coordinates, f \in Fields :
        /\ wserver.chunks[c] # None
        /\ LET value == 1 - wserver.chunks[c].data[f]
           IN Does([wserver EXCEPT !.chunks[c].data[f] = value],
                   <<[kind |-> "update", at |-> c, field |-> f, value |-> value]>>)
  BY DEF ServerUpdates
<1> DEFINE value == 1 - wserver.chunks[c].data[f]
           w == [wserver EXCEPT !.chunks[c].data[f] = value]
           p == [kind |-> "update", at |-> c, field |-> f, value |-> value]
           new == [wserver.chunks[c] EXCEPT !.data[f] = value]
<1>3. Does(w, <<p>>) /\ p.kind = "update" /\ p.at = c /\ p.field = f /\ p.value = value
  BY <1>2
<1> HIDE DEF value
<1>4. /\ SamePlace(w) /\ w.mode = wserver.mode /\ w.rain = wserver.rain /\ w.v = wserver.v
      /\ w.chunks = [wserver.chunks EXCEPT ![c] = new]
  BY <1>1 DEF SamePlace, Servers
<1>5. new = [wserver.chunks[p.at] EXCEPT !.data[p.field] = p.value]
  BY <1>3
<1> HIDE DEF w, p, new
<1>6. Shows(w) = AfterChunk(ServerView, p, new) /\ ServerView.own # None
      /\ ServerView.chunks = wserver.chunks
  BY <1>1, <1>3, <1>4, ChunkTold
<1>7. AfterBlocks(ServerView, p) = Shows(w)
  <2>1. ServerView.chunks[p.at] # None
    BY <1>2, <1>3, <1>6
  <2> QED BY <1>5, <1>6, <2>1 DEF AfterBlocks
<1>8. After(ServerView, p) = Shows(w) /\ Lawful(ServerView, p)
  BY <1>3, <1>6, <1>7 DEF After, Lawful
<1> QED BY <1>3, <1>4, <1>8, PlaceToldOne

LEMMA SetsWorldTold ==
  ASSUME Typed, Held, ServerSetsWorld
  PROVE  ServerTells
<1>1. wserver \in Servers /\ ~wserver.configuring
  BY DEF Typed, ServerOK, ServerSetsWorld, Playing
<1>2. ServerView.own # None
  BY <1>1, ShownParts, SessionAssumption DEF Servers
<1>3. CASE Does([wserver EXCEPT !.rain = ~@], <<[kind |-> "rain", rain |-> ~wserver.rain]>>)
  <2> DEFINE rain == ~wserver.rain
             w == [wserver EXCEPT !.rain = rain]
             p == [kind |-> "rain", rain |-> rain]
  <2>1. Does(w, <<p>>)
    BY <1>3
  <2> HIDE DEF rain
  <2>2. p.kind = "rain" /\ p.rain = rain
    OBVIOUS
  <2>3. /\ SamePlace(w) /\ w.mode = wserver.mode /\ w.rain = rain /\ w.v = wserver.v
        /\ w.chunks = wserver.chunks
    BY <1>1 DEF SamePlace, Servers
  <2> HIDE DEF w, p
  <2>4. Shows(w) = [ServerView EXCEPT !.rain = w.rain]
    BY <2>3, OneShown
  <2>5. After(ServerView, p) = Shows(w) /\ Lawful(ServerView, p)
    BY <1>2, <2>2, <2>3, <2>4 DEF After, Lawful
  <2> QED BY <2>1, <2>3, <2>5, PlaceToldOne
<1>4. CASE Does([wserver EXCEPT !.mode = 1 - @], <<[kind |-> "mode", mode |-> 1 - wserver.mode]>>)
  <2> DEFINE mode == 1 - wserver.mode
             w == [wserver EXCEPT !.mode = mode]
             p == [kind |-> "mode", mode |-> mode]
  <2>1. Does(w, <<p>>)
    BY <1>4
  <2> HIDE DEF mode
  <2>2. p.kind = "mode" /\ p.mode = mode
    OBVIOUS
  <2>3. /\ SamePlace(w) /\ w.mode = mode /\ w.rain = wserver.rain /\ w.v = wserver.v
        /\ w.chunks = wserver.chunks
    BY <1>1 DEF SamePlace, Servers
  <2> HIDE DEF w, p
  <2>4. Shows(w) = [ServerView EXCEPT !.mode = w.mode]
    BY <2>3, OneShown
  <2>5. After(ServerView, p) = Shows(w) /\ Lawful(ServerView, p)
    BY <1>2, <2>2, <2>3, <2>4 DEF After, Lawful
  <2> QED BY <2>1, <2>3, <2>5, PlaceToldOne
<1> QED BY <1>3, <1>4 DEF ServerSetsWorld

\* Positions: who sees where the player was sees where it is.
LEMMA TeleportedParts ==
  ASSUME NEW b \in Servers, NEW x \in Int
  PROVE  LET w == Teleported(b, x)
         IN /\ w.own = b.own /\ w.dim = b.dim /\ w.mode = b.mode /\ w.rain = b.rain
            /\ w.v = NoPush /\ w.x = x /\ w.teleport = b.teleport + 1 /\ w.sent = b.sent + 1
            /\ w.chunks = b.chunks /\ w.entities = b.entities
            /\ w.configuring = b.configuring /\ w.awaiting = b.teleport + 1
<1> DEFINE w == Teleported(b, x)
<1>1. w.own = b.own /\ w.dim = b.dim /\ w.mode = b.mode /\ w.rain = b.rain
  BY DEF Teleported, Servers
<1>2. w.v = NoPush /\ w.x = x /\ w.teleport = b.teleport + 1 /\ w.sent = b.sent + 1
  BY DEF Teleported, Servers
<1>3. w.chunks = b.chunks /\ w.entities = b.entities /\ w.configuring = b.configuring
      /\ w.awaiting = b.teleport + 1
  BY DEF Teleported, Servers
<1> QED BY <1>1, <1>2, <1>3

WithRain(v, rain) ==
    [own |-> v.own, dim |-> v.dim, mode |-> v.mode, rain |-> rain, rotated |-> v.rotated,
     teleport |-> v.teleport, x |-> v.x, after |-> v.after, v |-> v.v, chunks |-> v.chunks,
     ents |-> v.ents]

LEMMA PositionShown ==
  ASSUME NEW b \in Servers, ~b.configuring, NEW x \in Int, NEW to \in Int, NEW relative, NEW turns,
         relative => to = x - b.x, ~relative => to = x,
         NEW v, v.own = b.own, v.dim = b.dim, v.mode = b.mode, v.chunks = b.chunks,
         v.ents = Around(b.entities),
         relative => v.x = (IF WorldMode THEN 0 ELSE b.x),
         turns => v.rotated,
         v.teleport = None \/ v.teleport = b.teleport,
         NEW p, p = PositionPacket(Teleported(b, x), to, relative, turns)
  PROVE  /\ After(v, p) = WithRain(Shows(Teleported(b, x)), v.rain)
         /\ Lawful(v, p) /\ p.kind = "position"
<1> DEFINE w == Teleported(b, x)
<1>1. /\ w.own = b.own /\ w.dim = b.dim /\ w.mode = b.mode
      /\ w.v = NoPush /\ w.x = x /\ w.teleport = b.teleport + 1 /\ w.sent = b.sent + 1
      /\ w.chunks = b.chunks /\ w.entities = b.entities /\ w.configuring = b.configuring
  BY TeleportedParts
<1>2. b.own \in Ids /\ b.x \in Int /\ b.teleport \in Nat
  BY ServerFields
<1>3. p = PositionPacket(w, to, relative, turns)
  OBVIOUS
<1> HIDE DEF w
<1>4. /\ p.kind = "position" /\ p.id = w.teleport /\ p.serial = w.sent /\ p.x = to
      /\ p.relative = relative /\ p.turns = turns
  BY <1>3 DEF PositionPacket
<1> DEFINE yes == TRUE
           at == IF WorldMode THEN 0 ELSE x
           after == IF WorldMode THEN w.sent ELSE 0
<1>5. (IF WorldMode THEN 0 ELSE IF p.relative THEN v.x + p.x ELSE p.x) = at
  BY <1>2, <1>4
<1>6. AfterPosition(v, p)
        = [own |-> w.own, dim |-> w.dim, mode |-> w.mode, rain |-> v.rain, rotated |-> yes,
           teleport |-> w.teleport, x |-> at, after |-> after, v |-> NoPush,
           chunks |-> w.chunks, ents |-> Around(w.entities)]
  BY <1>1, <1>4, <1>5 DEF AfterPosition
<1>7. Shows(w)
        = [own |-> w.own, dim |-> w.dim, mode |-> w.mode, rain |-> w.rain, rotated |-> yes,
           teleport |-> w.teleport, x |-> at, after |-> after, v |-> NoPush,
           chunks |-> w.chunks, ents |-> Around(w.entities)]
  BY <1>1 DEF Shows
<1> HIDE DEF yes, at, after
<1>8. WithRain(Shows(w), v.rain) = AfterPosition(v, p)
  BY <1>6, <1>7 DEF WithRain
<1>9. After(v, p) = AfterPosition(v, p)
  BY <1>4 DEF After
<1>10. Lawful(v, p)
  <2>1. v.own # None
    BY <1>2, SessionAssumption
  <2>2. p.relative => v.x # None
    BY <1>2, <1>4, SessionAssumption
  <2>3. v.teleport # None => p.id > v.teleport
    BY <1>1, <1>2, <1>4
  <2> QED BY <1>4, <2>1, <2>2, <2>3 DEF Lawful
<1> QED BY <1>4, <1>8, <1>9, <1>10 DEF w

LEMMA RainKept ==
  ASSUME NEW w, w.configuring \in BOOLEAN, ~w.configuring
  PROVE  WithRain(Shows(w), w.rain) = Shows(w)
BY DEF WithRain, Shows

LEMMA PositionTold ==
  ASSUME Typed, Held, ~wserver.configuring, NEW x \in Int, NEW to \in Int, NEW relative, NEW turns,
         relative => to = x - wserver.x, ~relative => to = x,
         Does(Teleported(wserver, x),
              <<PositionPacket(Teleported(wserver, x), to, relative, turns)>>)
  PROVE  ServerTells
<1> DEFINE w == Teleported(wserver, x)
           p == PositionPacket(w, to, relative, turns)
<1>1. wserver \in Servers
  BY DEF Typed, ServerOK
<1>2. /\ w.own = wserver.own /\ w.rain = wserver.rain /\ w.entities = wserver.entities
      /\ w.configuring = wserver.configuring
  BY <1>1, TeleportedParts
<1>3. Does(w, <<p>>)
  OBVIOUS
<1>4. /\ ServerView.own = wserver.own /\ ServerView.dim = wserver.dim
      /\ ServerView.mode = wserver.mode /\ ServerView.rain = wserver.rain
      /\ ServerView.rotated = TRUE /\ ServerView.teleport = wserver.teleport
      /\ ServerView.x = (IF WorldMode THEN 0 ELSE wserver.x)
      /\ ServerView.chunks = wserver.chunks /\ ServerView.ents = Around(wserver.entities)
  BY ShownParts
<1>5. After(ServerView, p) = WithRain(Shows(w), ServerView.rain) /\ Lawful(ServerView, p)
      /\ p.kind = "position"
  BY <1>1, <1>4, PositionShown
<1> HIDE DEF w, p
<1>6. WithRain(Shows(w), ServerView.rain) = Shows(w)
  BY <1>1, <1>2, <1>4, RainKept DEF Servers
<1>7. /\ UNCHANGED <<habit, net, world, task>> /\ up' = up /\ wserver' = w
      /\ down' = down \o <<p>>
  BY <1>3 DEF Does
<1>8. IsSeq(<<p>>) /\ ~NoneOf("position", <<p>>)
  BY <1>5, Short DEF NoneOf
<1>9. Leads(ServerView, <<p>>, ServerView')
  BY <1>5, <1>6, <1>7, Showing, LeadsOne
<1>10. HeldBy(wserver')
  BY <1>2, <1>7 DEF Held, HeldBy
<1> QED BY <1>7, <1>8, <1>9, <1>10 DEF ServerTells

LEMMA PositionsTold ==
  ASSUME Typed, Held, ServerTeleports \/ ServerRepeats
  PROVE  ServerTells
<1>1. wserver \in Servers /\ ~wserver.configuring
  BY DEF Typed, ServerOK, ServerTeleports, ServerRepeats, Playing
<1>2. CASE ServerTeleports
  <2>1. PICK x \in Places, relative \in BOOLEAN :
          Does(Teleported(wserver, x),
               <<PositionPacket(Teleported(wserver, x), IF relative THEN x - wserver.x ELSE x,
                                relative, relative)>>)
    BY <1>2 DEF ServerTeleports
  <2> DEFINE to == IF relative THEN x - wserver.x ELSE x
  <2>2. x \in Int /\ to \in Int
    BY <1>1, ServerFields, SessionAssumption DEF Places
  <2>3. (relative => to = x - wserver.x) /\ (~relative => to = x)
    OBVIOUS
  <2>4. Does(Teleported(wserver, x), <<PositionPacket(Teleported(wserver, x), to, relative, relative)>>)
    BY <2>1
  <2> HIDE DEF to
  <2> QED BY <1>1, <2>2, <2>3, <2>4, PositionTold
<1>3. CASE ServerRepeats
  <2> DEFINE w == Teleported(wserver, wserver.x)
             to == w.x
             no == FALSE
  <2>1. Does(Teleported(wserver, wserver.x), <<PositionPacket(Teleported(wserver, wserver.x), to, no, no)>>)
    BY <1>3 DEF ServerRepeats
  <2>2. wserver.x \in Int /\ to = wserver.x
    BY <1>1, ServerFields, TeleportedParts
  <2>3. ~no
    OBVIOUS
  <2> HIDE DEF w, to, no
  <2> QED BY <1>1, <2>1, <2>2, <2>3, PositionTold
<1> QED BY <1>2, <1>3

\* Respawns: the world is new, the position and the weather follow.
LEMMA NewStayParts ==
  ASSUME NEW a \in Servers, NEW rain
  PROVE  LET b == NewStay(a, rain)
         IN /\ b.own = a.own /\ b.dim = a.dim /\ b.mode = a.mode /\ b.rain = rain
            /\ b.teleport = a.teleport /\ b.configuring = a.configuring
            /\ b.chunks = NoChunks /\ DOMAIN b.entities = {}
            /\ Around(b.entities) = Nobody
<1> DEFINE b == NewStay(a, rain)
           none == [i \in {} |-> 0]
<1>1. {"own", "dim", "mode", "rain", "teleport", "configuring", "chunks", "entities", "stay",
       "alive"} \subseteq DOMAIN a
  BY DEF Servers
<1>2. DOMAIN none = {} /\ Around(none) = Nobody
  BY DEF Around, Nobody
<1>3. b.own = a.own /\ b.dim = a.dim /\ b.mode = a.mode /\ b.rain = rain
      /\ b.teleport = a.teleport /\ b.configuring = a.configuring
  BY <1>1 DEF NewStay
<1>4. b.chunks = NoChunks /\ b.entities = none
  BY <1>1 DEF NewStay, NoChunks
<1> HIDE DEF b, none
<1> QED BY <1>2, <1>3, <1>4 DEF b

LEMMA RainTold ==
  ASSUME NEW w, NEW v, NEW rain \in BOOLEAN, w.rain \in BOOLEAN, ~w.configuring, rain => w.rain \/ rain = w.rain,
         rain = w.rain \/ w.rain, v = WithRain(Shows(w), rain), v.own # None
  PROVE  IsSeq(Told(w.rain)) /\ Leads(v, Told(w.rain), Shows(w))
<1> DEFINE yes == TRUE
           p == [kind |-> "rain", rain |-> yes]
<1>1. Shows(w).rain = w.rain /\ WithRain(Shows(w), w.rain) = Shows(w)
  BY DEF Shows, WithRain
<1>2. CASE w.rain
  <2>1. Told(w.rain) = <<p>>
    BY <1>2 DEF Told
  <2>2. p.kind = "rain" /\ p.rain = w.rain
    BY <1>2
  <2> HIDE DEF yes, p
  <2>3. [v EXCEPT !.rain = w.rain] = WithRain(Shows(w), w.rain)
    BY DEF WithRain
  <2>4. After(v, p) = Shows(w)
    BY <1>1, <2>2, <2>3 DEF After
  <2>5. Lawful(v, p)
    BY <2>2 DEF Lawful
  <2> QED BY <2>1, <2>4, <2>5, LeadsOne, Short
<1>3. CASE ~w.rain
  <2>1. Told(w.rain) = <<>> /\ rain = w.rain
    BY <1>3 DEF Told
  <2>2. v = Shows(w)
    BY <1>1, <2>1
  <2> QED BY <2>1, <2>2, LeadsNowhere, Short
<1> QED BY <1>2, <1>3

LEMMA RespawnShown ==
  ASSUME wserver \in Servers, ~wserver.configuring, NEW dim \in Int, NEW keep \in BOOLEAN,
         NEW rain \in BOOLEAN, dim = wserver.dim => rain = wserver.rain
  PROVE  LET w == ComesBack(wserver, dim, rain)
             packets == RespawnPackets(w, keep)
         IN /\ IsSeq(packets) /\ Leads(ServerView, packets, Shows(w))
            /\ ~NoneOf("position", packets) /\ HeldBy(w)
<1> DEFINE a == [wserver EXCEPT !.dim = dim]
           b == NewStay(a, rain)
           w == Teleported(b, 0)
<1>1. /\ b.own = wserver.own /\ b.dim = dim /\ b.mode = wserver.mode /\ b.rain = rain
      /\ b.teleport = wserver.teleport /\ b.configuring = wserver.configuring
      /\ b.chunks = NoChunks /\ DOMAIN b.entities = {} /\ Around(b.entities) = Nobody
      /\ b \in Servers
  <2>1. /\ a \in Servers /\ a.own = wserver.own /\ a.dim = dim /\ a.mode = wserver.mode
        /\ a.teleport = wserver.teleport /\ a.configuring = wserver.configuring
    BY DEF Servers
  <2> HIDE DEF a
  <2>2. b \in Servers
    BY <2>1, NewStayMade
  <2>3. /\ b.own = a.own /\ b.dim = a.dim /\ b.mode = a.mode /\ b.rain = rain
        /\ b.teleport = a.teleport /\ b.configuring = a.configuring
        /\ b.chunks = NoChunks /\ DOMAIN b.entities = {} /\ Around(b.entities) = Nobody
    BY <2>1, NewStayParts, Zenon
  <2> HIDE DEF b
  <2> QED BY <2>1, <2>2, <2>3
<1>2. b \in Servers
  BY <1>1
<1>3. ComesBack(wserver, dim, rain) = w
  BY DEF ComesBack
<1> HIDE DEF a, b
<1>4. /\ w.own = b.own /\ w.dim = b.dim /\ w.mode = b.mode /\ w.rain = b.rain /\ w.x = 0
      /\ w.teleport = b.teleport + 1 /\ w.entities = b.entities
      /\ w.configuring = b.configuring
  BY <1>2, TeleportedParts
<1> DEFINE r == [kind |-> "respawn", dim |-> w.dim, mode |-> w.mode, keep |-> keep,
                 stay |-> w.stay]
           no == FALSE
           yes == TRUE
           to == w.x
           p == PositionPacket(Teleported(b, 0), to, no, yes)
           told == Told(w.rain)
           left == ServerView.rain /\ r.dim = ServerView.dim
           v == AfterRespawn(ServerView, r)
<1>5. RespawnPackets(w, keep) = <<r, p>> \o told
  BY DEF RespawnPackets
<1>6. /\ ServerView.own = wserver.own /\ ServerView.dim = wserver.dim
      /\ ServerView.rain = wserver.rain /\ ServerView.rotated = TRUE
      /\ ServerView.teleport = wserver.teleport
  BY ShownParts
<1>7. wserver.own # None /\ wserver.rain \in BOOLEAN
  BY ServerFields, SessionAssumption
<1>8. r.kind = "respawn" /\ r.dim = dim /\ r.mode = w.mode /\ r.keep = keep
  BY <1>1, <1>4
<1>9. ~no /\ yes /\ to = 0
  BY <1>4
<1> HIDE DEF w, r, p, no, yes, to, told
<1>10. After(ServerView, r) = v /\ Lawful(ServerView, r)
  BY <1>6, <1>7, <1>8 DEF After, Lawful
<1>11. /\ v.own = b.own /\ v.dim = b.dim /\ v.mode = b.mode /\ v.chunks = b.chunks
       /\ v.ents = Around(b.entities) /\ v.rotated /\ v.teleport = b.teleport
  BY <1>1, <1>4, <1>6, <1>8 DEF AfterRespawn
<1>12. v.rain = left /\ left \in BOOLEAN
  BY <1>6, <1>7 DEF AfterRespawn
<1>13. left = rain \/ rain
  BY <1>6, <1>7, <1>8
<1> HIDE DEF v, left
<1>14. 0 \in Int /\ to \in Int /\ ~b.configuring
  BY <1>1, <1>9
<1>15. /\ After(v, p) = WithRain(Shows(Teleported(b, 0)), v.rain)
       /\ Lawful(v, p) /\ p.kind = "position"
  <2>1. p = PositionPacket(Teleported(b, 0), to, no, yes)
    BY DEF p
  <2>2. /\ no => to = 0 - b.x
        /\ ~no => to = 0
        /\ no => v.x = (IF WorldMode THEN 0 ELSE b.x)
        /\ yes => v.rotated
        /\ v.teleport = None \/ v.teleport = b.teleport
    BY <1>9, <1>11
  <2> QED BY <1>2, <1>11, <1>14, <2>1, <2>2, PositionShown
<1> DEFINE u == After(v, p)
<1>16. u = WithRain(Shows(w), left)
  BY <1>12, <1>15 DEF w
<1>17. u.own # None
  BY <1>1, <1>4, <1>7, <1>14, <1>16 DEF WithRain, Shows
<1> HIDE DEF u
<1>18. IsSeq(told) /\ Leads(u, told, Shows(w))
  BY <1>1, <1>4, <1>12, <1>13, <1>14, <1>16, <1>17, RainTold DEF told
<1>19. Leads(ServerView, <<r>>, v) /\ Leads(v, <<p>>, u)
  BY <1>10, <1>15, LeadsOne DEF u
<1>20. IsSeq(<<r>>) /\ IsSeq(<<p>>) /\ IsSeq(<<r, p>>) /\ <<r>> \o <<p>> = <<r, p>>
  BY Short, Pair
<1>21. Leads(ServerView, <<r, p>>, u)
  BY <1>19, <1>20, LeadsOn
<1>22. Leads(ServerView, <<r, p>> \o told, Shows(w)) /\ IsSeq(<<r, p>> \o told)
  BY <1>18, <1>20, <1>21, LeadsOn, Joined
<1>23. ~NoneOf("position", <<r, p>> \o told)
  <2>1. 2 \in DOMAIN (<<r, p>> \o told) /\ (<<r, p>> \o told)[2] = p
    <3>1. Len(<<r, p>>) = 2 /\ <<r, p>>[2] = p
      BY Short
    <3>2. Len(told) \in Nat /\ DOMAIN (<<r, p>> \o told) = 1 .. Len(<<r, p>>) + Len(told)
      BY <1>18, <1>20, Joined
    <3>3. \A i \in 1 .. Len(<<r, p>>) : (<<r, p>> \o told)[i] = <<r, p>>[i]
      BY <1>18, <1>20, Joined
    <3>4. 2 \in 1 .. Len(<<r, p>>) /\ 2 \in 1 .. Len(<<r, p>>) + Len(told)
      BY <3>1, <3>2
    <3> QED BY <3>1, <3>2, <3>3, <3>4
  <2> QED BY <1>15, <2>1 DEF NoneOf
<1>24. HeldBy(w)
  BY <1>1, <1>4 DEF HeldBy
<1> QED BY <1>3, <1>5, <1>22, <1>23, <1>24

LEMMA RespawnsTold ==
  ASSUME Typed, Held, ServerRespawns
  PROVE  ServerTells
<1>1. wserver \in Servers /\ ~wserver.configuring
  BY DEF Typed, ServerOK, ServerRespawns, Playing
<1>2. PICK dim \in {0, 1}, keep \in BOOLEAN, rain \in BOOLEAN :
        /\ dim = wserver.dim \/ "weather" \notin habit => rain = wserver.rain
        /\ Does(ComesBack(wserver, dim, rain), RespawnPackets(ComesBack(wserver, dim, rain), keep))
  BY DEF ServerRespawns, ComesBack
<1> DEFINE w == ComesBack(wserver, dim, rain)
           packets == RespawnPackets(w, keep)
<1>3. /\ IsSeq(packets) /\ Leads(ServerView, packets, Shows(w))
      /\ ~NoneOf("position", packets) /\ HeldBy(w)
  BY <1>1, <1>2, RespawnShown
<1>4. Does(w, packets)
  BY <1>2
<1> HIDE DEF w, packets
<1>5. /\ UNCHANGED <<habit, net, world, task>> /\ up' = up /\ wserver' = w
      /\ down' = down \o packets
  BY <1>4 DEF Does
<1>6. ServerView' = Shows(w)
  BY <1>5, Showing
<1> QED BY <1>3, <1>5, <1>6 DEF ServerTells

\* What the client says to the server, and the way through a reconfiguration.
LEMMA SilentShown ==
  ASSUME UNCHANGED habit, wserver \in Servers,
         \/ wserver' = wserver
         \/ wserver' = [wserver EXCEPT !.awaiting = None]
         \/ \E x : wserver' = [wserver EXCEPT !.x = x] /\ WorldMode
         \/ \E asked : wserver' = [wserver EXCEPT !.asked = asked]
         \/ wserver' = [wserver EXCEPT !.batches = 0]
  PROVE  ServerView' = ServerView /\ wserver'.configuring = wserver.configuring
         /\ (HeldBy(wserver) => HeldBy(wserver'))
<1>1. /\ wserver'.own = wserver.own /\ wserver'.dim = wserver.dim /\ wserver'.mode = wserver.mode
      /\ wserver'.rain = wserver.rain /\ wserver'.teleport = wserver.teleport
      /\ WorldMode \/ wserver'.x = wserver.x
      /\ wserver'.sent = wserver.sent /\ wserver'.v = wserver.v
      /\ wserver'.chunks = wserver.chunks /\ wserver'.entities = wserver.entities
      /\ wserver'.configuring = wserver.configuring
  BY DEF Servers
<1>2. ServerView' = Shows(wserver') /\ ServerView = Shows(wserver)
  BY DEF ServerView, Shows, Around, WorldMode
<1> DEFINE w == wserver'
<1>3. ServerView' = Shows(w)
  BY <1>2
<1>4. Shows(w) = Shows(wserver)
  BY <1>1 DEF Shows
<1>5. HeldBy(wserver) => HeldBy(wserver')
  BY <1>1 DEF HeldBy
<1> QED BY <1>1, <1>2, <1>3, <1>4, <1>5

LEMMA ReceivesTold ==
  ASSUME Typed, Held, ServerReceives
  PROVE  ServerTells
<1> DEFINE p == Head(up)
<1>1. /\ Received(p, wserver) /\ up # <<>> /\ up' = Tail(up)
      /\ UNCHANGED <<habit, net, world, task>> /\ wserver \in Servers
  BY ReceivesByKind DEF Typed, ServerOK
<1>2. p.kind = "move" => WorldMode
  <2>1. 1 \in DOMAIN up /\ up[1] = Head(up)
    BY <1>1, Popped DEF Typed, UpOK
  <2> QED BY <2>1 DEF Held, NoneOf
<1>3. p.kind = "move" /\ wserver.awaiting = None /\ ~wserver.configuring =>
        wserver' = [wserver EXCEPT !.x = p.x]
  BY DEF ServerReceives
<1>4. ASSUME down' = down, wserver'.configuring = wserver.configuring,
             ServerView' = ServerView, HeldBy(wserver'), Listens
      PROVE  ServerTells
  <2>1. IsSeq(<<>>) /\ down' = down \o <<>>
    BY <1>4, Short DEF Typed, DownOK, IsSeq
  <2>2. Leads(ServerView, <<>>, ServerView')
    BY <1>4, LeadsNowhere
  <2> QED BY <1>1, <1>4, <2>1, <2>2 DEF ServerTells
<1> HIDE DEF p
<1>5. CASE Passed(p, wserver) /\ wserver' = wserver /\ down' = down
  <2>1. p.kind = "move" /\ wserver.awaiting = None /\ ~wserver.configuring => wserver'.x = p.x
    BY <1>1, <1>3 DEF Servers
  <2>2. Listens
    BY <1>1, <1>5, <2>1 DEF Listens, p
  <2> QED BY <1>1, <1>4, <1>5, <2>2, SilentShown DEF Held
<1>6. CASE /\ ~wserver.configuring /\ p.kind = "confirm" /\ p.id = wserver.awaiting
           /\ down' = down /\ wserver' = [wserver EXCEPT !.awaiting = None]
  <2>1. wserver'.x = wserver.x /\ wserver'.awaiting = None
        /\ wserver'.configuring = wserver.configuring
    BY <1>1, <1>6 DEF Servers
  <2>2. Listens
    BY <1>1, <1>6, <2>1 DEF Listens, p
  <2> QED BY <1>1, <1>4, <1>6, <2>1, <2>2, SilentShown DEF Held
<1>7. CASE /\ ~wserver.configuring /\ p.kind = "move" /\ wserver.awaiting = None
           /\ down' = down /\ wserver' = [wserver EXCEPT !.x = p.x]
  <2>1. wserver'.x = p.x /\ wserver'.awaiting = wserver.awaiting
        /\ wserver'.configuring = wserver.configuring
    BY <1>1, <1>7 DEF Servers
  <2>2. Listens
    BY <1>1, <1>7, <2>1 DEF Listens, p
  <2>3. \E x : wserver' = [wserver EXCEPT !.x = x] /\ WorldMode
    BY <1>2, <1>7 DEF p
  <2>4. ServerView' = ServerView /\ HeldBy(wserver')
    BY <1>1, <2>3, SilentShown DEF Held
  <2> QED BY <1>4, <1>7, <2>1, <2>2, <2>4
<1>8. CASE /\ ~wserver.configuring /\ p.kind = "keep_alive" /\ down' = down
           /\ wserver' = [wserver EXCEPT !.asked = @ \ {p.id}]
  <2>1. wserver'.x = wserver.x /\ wserver'.awaiting = wserver.awaiting
        /\ wserver'.configuring = wserver.configuring
    BY <1>1, <1>8 DEF Servers
  <2>2. Listens
    BY <1>1, <1>8, <2>1 DEF Listens, p
  <2>3. \E asked : wserver' = [wserver EXCEPT !.asked = asked]
    BY <1>8
  <2>4. ServerView' = ServerView /\ HeldBy(wserver')
    BY <1>1, <2>3, SilentShown DEF Held
  <2> QED BY <1>4, <1>8, <2>1, <2>2, <2>4
<1>9. CASE /\ ~wserver.configuring /\ p.kind = "batch_received" /\ down' = down
           /\ wserver' = [wserver EXCEPT !.batches = 0]
  <2>1. wserver'.x = wserver.x /\ wserver'.awaiting = wserver.awaiting
        /\ wserver'.configuring = wserver.configuring
    BY <1>1, <1>9 DEF Servers
  <2>2. Listens
    BY <1>1, <1>9, <2>1 DEF Listens, p
  <2> QED BY <1>1, <1>4, <1>9, <2>1, <2>2, SilentShown DEF Held
<1>10. CASE /\ ~wserver.configuring /\ p.kind = "perform_respawn"
            /\ wserver' = ComesBack(wserver, wserver.dim, wserver.rain)
            /\ down' = down \o RespawnPackets(ComesBack(wserver, wserver.dim, wserver.rain), FALSE)
  <2> DEFINE dim == wserver.dim
             rain == wserver.rain
             no == FALSE
             w == ComesBack(wserver, dim, rain)
             packets == RespawnPackets(w, no)
  <2>1. dim \in Int /\ rain \in BOOLEAN /\ no \in BOOLEAN /\ dim = wserver.dim /\ rain = wserver.rain
    BY <1>1, ServerFields
  <2>2. wserver' = w /\ down' = down \o packets
    BY <1>10
  <2> HIDE DEF no, dim, rain
  <2>3. /\ IsSeq(packets) /\ Leads(ServerView, packets, Shows(w))
        /\ ~NoneOf("position", packets) /\ HeldBy(w)
    BY <1>1, <1>10, <2>1, RespawnShown
  <2> HIDE DEF packets, w
  <2>4. ServerView' = Shows(w)
    BY <1>1, <2>2, Showing
  <2> QED BY <1>1, <2>2, <2>3, <2>4 DEF ServerTells
<1> QED BY <1>1, <1>5, <1>6, <1>7, <1>8, <1>9, <1>10 DEF Received

LEMMA DiscardsTold ==
  ASSUME Typed, Held, ServerDiscards
  PROVE  ServerTells
<1>1. /\ up # <<>> /\ up' = Tail(up) /\ wserver.configuring /\ down' = down
      /\ UNCHANGED <<habit, net, world, task, wserver>>
  BY DEF ServerDiscards
<1>2. IsSeq(<<>>) /\ down' = down \o <<>>
  BY <1>1, Short DEF Typed, DownOK, IsSeq
<1>3. Leads(ServerView, <<>>, ServerView')
  BY <1>1, ServerViewKept, LeadsNowhere
<1>4. HeldBy(wserver') /\ wserver'.configuring
  BY <1>1 DEF Held, HeldBy
<1> QED BY <1>1, <1>2, <1>3, <1>4 DEF ServerTells

LEMMA ReconfiguresTold ==
  ASSUME Typed, Held, ServerReconfigures
  PROVE  ServerTells
<1> DEFINE p == [kind |-> "start_configuration"]
<1>1. /\ down' = Append(down, p) /\ UNCHANGED <<habit, net, up, world, task>>
      /\ ~wserver.configuring
  BY DEF ServerReconfigures, Playing
<1>2. wserver'.configuring /\ wserver'.entities = wserver.entities /\ wserver'.own = wserver.own
  <2>1. wserver \in Servers
    BY DEF Typed, ServerOK
  <2>2. wserver' = [wserver EXCEPT !.configuring = TRUE, !.awaiting = None, !.asked = {},
                                   !.batches = 0]
    BY DEF ServerReconfigures
  <2>3. wserver'.own = wserver.own
    BY <2>1, <2>2 DEF Servers
  <2> QED BY <2>1, <2>3, ReconfiguresEffect
<1>3. p.kind = "start_configuration"
  OBVIOUS
<1> HIDE DEF p
<1>4. After(ServerView, p) = Blank /\ Lawful(ServerView, p)
  BY <1>3 DEF After, Lawful, OfWorld
<1>5. ServerView' = Blank
  BY <1>2 DEF ServerView, Shows
<1>6. down' = down \o <<p>> /\ IsSeq(<<p>>)
  <2>1. IsSeq(down)
    BY DEF Typed, DownOK
  <2> DEFINE R == Range(down)
  <2>2. down \in Seq(R)
    BY <2>1 DEF IsSeq
  <2> HIDE DEF R
  <2>3. Append(down, p) = down \o <<p>>
    BY <2>2
  <2> QED BY <1>1, <2>3, Short
<1>7. Leads(ServerView, <<p>>, ServerView')
  BY <1>4, <1>5, LeadsOne
<1>8. HeldBy(wserver')
  BY <1>2 DEF Held, HeldBy
<1> QED BY <1>1, <1>2, <1>6, <1>7, <1>8 DEF ServerTells

LEMMA LoginShown ==
  ASSUME wserver \in Servers, wserver.configuring, NEW own \in Ids
  PROVE  LET w == NewLogin(wserver, own)
             login == [kind |-> "login", own |-> own, dim |-> 0, mode |-> 0, stay |-> w.stay]
             p == PositionPacket(w, 0, FALSE, FALSE)
         IN /\ Leads(ServerView, <<login, p>>, Shows(w)) /\ p.kind = "position"
            /\ ~w.configuring /\ HeldBy(w)
<1> DEFINE a == [wserver EXCEPT !.own = own, !.configuring = FALSE, !.teleport = 0,
                                !.mode = 0, !.dim = 0]
           no == FALSE
           b == NewStay(a, no)
           w == Teleported(b, 0)
           login == [kind |-> "login", own |-> own, dim |-> 0, mode |-> 0, stay |-> w.stay]
           p == PositionPacket(w, 0, no, no)
<1>1. NewLogin(wserver, own) = w
  BY DEF NewLogin
<1>2. a.own = own /\ a.dim = 0 /\ a.mode = 0 /\ a.teleport = 0 /\ a.configuring = FALSE
  BY DEF Servers
<1>3. a \in Servers
  <2> DEFINE a1 == [wserver EXCEPT !.own = own]
             a2 == [a1 EXCEPT !.configuring = FALSE]
             a3 == [a2 EXCEPT !.teleport = 0]
             a4 == [a3 EXCEPT !.mode = 0]
  <2>1. a1 \in Servers
    BY DEF Servers
  <2>2. a2 \in Servers
    <3> HIDE DEF a1
    <3> QED BY <2>1 DEF Servers
  <2>3. a3 \in Servers
    <3> HIDE DEF a2
    <3> QED BY <2>2 DEF Servers
  <2>4. a4 \in Servers
    <3> HIDE DEF a3
    <3> QED BY <2>3 DEF Servers
  <2>5. a = [a4 EXCEPT !.dim = 0]
    OBVIOUS
  <2> HIDE DEF a4, a
  <2> QED BY <2>4, <2>5 DEF Servers
<1>4. /\ b.own = own /\ b.dim = 0 /\ b.mode = 0 /\ b.rain = no /\ b.teleport = 0
      /\ b.configuring = FALSE /\ b.chunks = NoChunks /\ DOMAIN b.entities = {}
      /\ Around(b.entities) = Nobody /\ b \in Servers
  <2> HIDE DEF a
  <2>1. no \in BOOLEAN
    OBVIOUS
  <2> HIDE DEF no
  <2>2. b \in Servers
    BY <1>3, <2>1, NewStayMade
  <2>3. /\ b.own = a.own /\ b.dim = a.dim /\ b.mode = a.mode /\ b.rain = no
        /\ b.teleport = a.teleport /\ b.configuring = a.configuring
        /\ b.chunks = NoChunks /\ DOMAIN b.entities = {} /\ Around(b.entities) = Nobody
    BY <1>3, NewStayParts, Zenon
  <2> HIDE DEF b
  <2> QED BY <1>2, <2>2, <2>3
<1>5. ~no
  OBVIOUS
<1>6. login.kind = "login" /\ login.own = own /\ login.dim = 0 /\ login.mode = 0
  OBVIOUS
<1> HIDE DEF a, b
<1>7. /\ w.own = own /\ w.rain = no /\ w.entities = b.entities /\ w.configuring = FALSE
  BY <1>4, TeleportedParts
<1> DEFINE v == After(ServerView, login)
<1>8. ServerView = Blank
  BY DEF ServerView, Shows
<1> HIDE DEF login, no
<1>9. v = AfterLogin(Blank, login)
  BY <1>6, <1>8 DEF After
<1>10. /\ v.own = b.own /\ v.dim = b.dim /\ v.mode = b.mode /\ v.chunks = b.chunks
       /\ v.ents = Around(b.entities) /\ v.teleport = None /\ ~v.rain
  BY <1>4, <1>6, <1>9 DEF AfterLogin, Blank
<1>11. v.rain = no
  BY <1>9 DEF AfterLogin, Blank, no
<1>12. Lawful(ServerView, login)
  BY <1>6 DEF Lawful, OfWorld
<1> HIDE DEF v
<1> DEFINE to == 0
<1>13. p = PositionPacket(Teleported(b, 0), to, no, no) /\ 0 \in Int /\ to \in Int
  OBVIOUS
<1> HIDE DEF p
<1>14. /\ no => to = 0 - b.x
       /\ ~no => to = 0
       /\ no => v.x = (IF WorldMode THEN 0 ELSE b.x)
       /\ no => v.rotated
       /\ v.teleport = None \/ v.teleport = b.teleport
       /\ ~b.configuring
  BY <1>4, <1>5, <1>10
<1> HIDE DEF to
<1>15. /\ After(v, p) = WithRain(Shows(Teleported(b, 0)), v.rain)
       /\ Lawful(v, p) /\ p.kind = "position"
  BY <1>4, <1>10, <1>13, <1>14, PositionShown
<1>16. WithRain(Shows(w), w.rain) = Shows(w)
  <2>1. w.configuring \in BOOLEAN /\ ~w.configuring
    BY <1>7
  <2> HIDE DEF w
  <2> QED BY <2>1, RainKept
<1>17. After(v, p) = Shows(w)
  BY <1>7, <1>11, <1>15, <1>16
<1>18. Leads(ServerView, <<login>>, v) /\ Leads(v, <<p>>, Shows(w))
  BY <1>12, <1>15, <1>17, LeadsOne DEF v
<1> HIDE DEF w
<1>19. IsSeq(<<login>>) /\ IsSeq(<<p>>) /\ <<login>> \o <<p>> = <<login, p>>
  BY Short, Pair
<1>20. Leads(ServerView, <<login, p>>, Shows(w))
  BY <1>18, <1>19, LeadsOn
<1>21. ~w.configuring /\ HeldBy(w)
  BY <1>4, <1>7 DEF HeldBy
<1> QED BY <1>1, <1>15, <1>20, <1>21 DEF login, p, no

LEMMA RelogsTold ==
  ASSUME Typed, Phase, ServerRelogs
  PROVE  ServerTells
<1>1. /\ up # <<>> /\ Head(up).kind = "configuration_acknowledged" /\ up' = Tail(up)
      /\ UNCHANGED <<habit, net, world, task>> /\ wserver \in Servers
  BY DEF ServerRelogs, Typed, ServerOK
<1>2. wserver.configuring
  <2>1. 1 \in DOMAIN up /\ up[1] = Head(up)
    BY <1>1, Popped DEF Typed, UpOK
  <2> QED BY <1>1, <2>1 DEF Phase
<1>3. PICK own \in Ids :
        LET w == NewLogin(wserver, own)
        IN /\ wserver' = w
           /\ down' = down \o <<[kind |-> "login", own |-> own, dim |-> 0, mode |-> 0,
                                  stay |-> w.stay],
                                 PositionPacket(w, 0, FALSE, FALSE),
                                 Content(server.inv.player)>>
  BY SessionAssumption DEF ServerRelogs, NewLogin
<1> DEFINE w == NewLogin(wserver, own)
           login == [kind |-> "login", own |-> own, dim |-> 0, mode |-> 0, stay |-> w.stay]
           p == PositionPacket(w, 0, FALSE, FALSE)
           content == Content(server.inv.player)
<1>4. wserver' = w /\ down' = down \o <<login, p, content>>
  BY <1>3
<1>5. /\ Leads(ServerView, <<login, p>>, Shows(w)) /\ p.kind = "position"
      /\ ~w.configuring /\ HeldBy(w)
  BY <1>1, <1>2, LoginShown
<1>6. UpdatesOnly(<<content>>)
  BY ContentUpdate
<1> HIDE DEF w, login, p, content
<1>7. IsSeq(<<content>>) /\ Leads(Shows(w), <<content>>, Shows(w))
  BY <1>6, UpdatesIdle
<1>8. IsSeq(<<login, p>>) /\ <<login, p, content>> = <<login, p>> \o <<content>>
  BY Short
<1>9. Leads(ServerView, <<login, p, content>>, Shows(w))
  BY <1>5, <1>7, <1>8, LeadsOn
<1>10. IsSeq(<<login, p, content>>)
  BY <1>7, <1>8, Joined
<1>11. ~NoneOf("position", <<login, p, content>>)
  <2>1. DOMAIN <<login, p, content>> = {1, 2, 3} /\ <<login, p, content>>[2] = p
    OBVIOUS
  <2> QED BY <1>5, <2>1 DEF NoneOf
<1>12. ServerView' = Shows(w)
  BY <1>1, <1>4, Showing
<1> QED BY <1>1, <1>4, <1>5, <1>9, <1>10, <1>11, <1>12 DEF ServerTells

LEMMA WorldServerTells ==
  ASSUME Typed, Phase, Held, WorldServer
  PROVE  ServerTells
BY SpawnsTold, MovesTold, RemovesTold, PushesTold, SendsChunkTold, ForgetsTold, UpdatesTold,
   SetsWorldTold, PositionsTold, TurnsTold, RespawnsTold, KillsTold, AsksTold, ReconfiguresTold,
   ReceivesTold, RelogsTold, DiscardsTold DEF WorldServer

-----------------------------------------------------------------------------
\* Where the server has the player, as long as the simulation stands where it has told.

StaysTold == Told2' => Told2 /\ task'.sim.x = task.sim.x
NoPositionGone == NoneOf("position", down') => NoneOf("position", down)

LEMMA PosesKept ==
  ASSUME Typed, Poses, wserver' = wserver, StaysTold, NoPositionGone,
         NEW out, IsSeq(out), NoneOf("move", out), NoneOf("confirm", out), up' = up \o out
  PROVE  Poses'
<1>1. IsSeq(up)
  BY DEF Typed, UpOK
<1>2. SUFFICES ASSUME Told2', ~wserver'.configuring, NoneOf("position", down')
               PROVE  \/ NoneOf("move", up') /\ wserver'.x = task'.sim.x
                      \/ \E i \in DOMAIN up' : LastMove(i)'
  BY DEF Poses
<1>3. /\ task'.sim.x = task.sim.x
      /\ \/ NoneOf("move", up) /\ wserver.x = task.sim.x
         \/ \E i \in DOMAIN up : LastMove(i)
  BY <1>2 DEF StaysTold, NoPositionGone, Poses
<1>4. CASE NoneOf("move", up) /\ wserver.x = task.sim.x
  BY <1>1, <1>3, <1>4, NonePushed
<1>5. CASE \E i \in DOMAIN up : LastMove(i)
  <2>1. PICK i \in DOMAIN up : LastMove(i)
    BY <1>5
  <2>2. i \in DOMAIN up' /\ up'[i] = up[i] /\ i \in Nat
    <3>1. /\ Len(up) \in Nat /\ Len(out) \in Nat /\ DOMAIN up = 1 .. Len(up)
          /\ DOMAIN (up \o out) = 1 .. Len(up) + Len(out)
          /\ \A k \in 1 .. Len(up) : (up \o out)[k] = up[k]
      BY <1>1, Joined
    <3>2. i \in 1 .. Len(up) /\ i \in 1 .. Len(up) + Len(out)
      BY <2>1, <3>1
    <3> QED BY <3>1, <3>2
  <2>3. \A j \in DOMAIN up' : j > i => up'[j].kind # "move" /\ ~IsA(up'[j], "confirm", wserver.awaiting)
    <3> TAKE j \in DOMAIN up'
    <3> HAVE j > i
    <3>1. \/ j \in DOMAIN up /\ up'[j] = up[j]
          \/ j - Len(up) \in DOMAIN out /\ up'[j] = out[j - Len(up)]
      BY <1>1, InJoined
    <3> QED BY <2>1, <3>1 DEF LastMove, NoneOf, IsA
  <2>4. up[i].kind = "move" /\ up[i].x = task.sim.x
    BY <2>1 DEF LastMove
  <2> QED BY <1>3, <2>2, <2>3, <2>4 DEF LastMove
<1> QED BY <1>3, <1>4, <1>5

\* The server reads what the client has sent: the last move, once nothing else awaits it.
LEMMA PosesListened ==
  ASSUME Typed, Questions, Running, Poses, UNCHANGED task, NoPositionGone, Listens
  PROVE  Poses'
<1>1. /\ IsSeq(up) /\ up # <<>> /\ up' = Tail(up) /\ wserver'.configuring = wserver.configuring
      /\ wserver'.awaiting \in {None, wserver.awaiting} /\ wserver \in Servers
  BY DEF Typed, UpOK, ServerOK, Listens
<1>2. SUFFICES ASSUME Told2', ~wserver'.configuring, NoneOf("position", down')
               PROVE  \/ NoneOf("move", up') /\ wserver'.x = task'.sim.x
                      \/ \E i \in DOMAIN up' : LastMove(i)'
  BY DEF Poses
<1>3. /\ ~wserver.configuring /\ NoneOf("position", down) /\ task' = task
      /\ \/ NoneOf("move", up) /\ wserver.x = task.sim.x
         \/ \E i \in DOMAIN up : LastMove(i)
  BY <1>1, <1>2 DEF NoPositionGone, Poses, Told2
<1>4. 1 \in DOMAIN up /\ Head(up) = up[1]
  BY <1>1, Popped
<1>5. CASE NoneOf("move", up) /\ wserver.x = task.sim.x
  <2>1. Head(up).kind # "move"
    BY <1>4, <1>5 DEF NoneOf
  <2>2. wserver'.x = wserver.x
    BY <2>1 DEF Listens
  <2>3. NoneOf("move", up')
    BY <1>1, <1>5, NonePopped
  <2> QED BY <1>3, <1>5, <2>2, <2>3
<1>6. ASSUME NEW i \in DOMAIN up, LastMove(i), i = 1
      PROVE  NoneOf("move", up') /\ wserver'.x = task'.sim.x
  <2>1. /\ up[1].kind = "move" /\ up[1].x = task.sim.x
        /\ \A j \in DOMAIN up : j > 1 => up[j].kind # "move" /\ ~IsA(up[j], "confirm", wserver.awaiting)
    BY <1>6 DEF LastMove
  <2>2. ~Asked(up, "confirm", wserver.awaiting)
    <3> SUFFICES ASSUME NEW j \in DOMAIN up PROVE ~IsA(up[j], "confirm", wserver.awaiting)
      BY DEF Asked
    <3>1. j = 1 \/ j > 1
      BY <1>1, SeqParts
    <3> QED BY <2>1, <3>1 DEF IsA
  <2>3. ~Asked(down, "position", wserver.awaiting)
    BY <1>3 DEF Asked, IsA, NoneOf
  <2>4. wserver.awaiting = None
    BY <2>2, <2>3 DEF Questions
  <2>5. wserver'.x = task.sim.x
    BY <1>3, <1>4, <2>1, <2>4 DEF Listens
  <2>6. NoneOf("move", up')
    <3> SUFFICES ASSUME NEW j \in DOMAIN Tail(up) PROVE Tail(up)[j].kind # "move"
      BY <1>1 DEF NoneOf
    <3>1. j \in Nat /\ j >= 1 /\ j + 1 \in DOMAIN up /\ Tail(up)[j] = up[j + 1]
      BY <1>1, InTail
    <3>2. j + 1 > 1
      BY <3>1
    <3> QED BY <2>1, <3>1, <3>2
  <2> QED BY <1>3, <2>5, <2>6
<1>7. ASSUME NEW i \in DOMAIN up, LastMove(i), i # 1
      PROVE  \E k \in DOMAIN up' : LastMove(k)'
  <2>1. /\ up[i].kind = "move" /\ up[i].x = task.sim.x
        /\ \A j \in DOMAIN up : j > i => up[j].kind # "move" /\ ~IsA(up[j], "confirm", wserver.awaiting)
    BY <1>7 DEF LastMove
  <2> DEFINE k == i - 1
  <2>2. k \in DOMAIN Tail(up) /\ k \in Nat /\ k + 1 = i /\ Tail(up)[k] = up[i]
    <3>1. i \in 1 .. Len(up) /\ Len(up) \in Nat
      BY <1>1, SeqParts
    <3>2. k \in 1 .. Len(up) - 1 /\ k + 1 = i
      BY <1>7, <3>1
    <3> QED BY <1>1, <3>2, Popped
  <2> HIDE DEF k
  <2>3. ASSUME NEW j \in DOMAIN Tail(up), j > k
        PROVE  Tail(up)[j].kind # "move" /\ ~IsA(Tail(up)[j], "confirm", wserver'.awaiting)
    <3>1. j \in Nat /\ j + 1 \in DOMAIN up /\ Tail(up)[j] = up[j + 1]
      BY <1>1, InTail
    <3>2. j + 1 > i
      BY <2>2, <2>3, <3>1
    <3>3. Tail(up)[j].kind # "move" /\ ~IsA(Tail(up)[j], "confirm", wserver.awaiting)
      BY <2>1, <3>1, <3>2
    <3>4. Tail(up)[j].kind = "confirm" => Tail(up)[j].id \in Nat
      BY <3>1, TeleportIds
    <3>5. None \notin Nat
      BY SessionAssumption
    <3> QED BY <1>1, <3>3, <3>4, <3>5 DEF IsA
  <2> QED BY <1>1, <1>3, <2>1, <2>2, <2>3 DEF LastMove
<1> QED BY <1>3, <1>5, <1>6, <1>7

\* A step that leaves no simulation, or one that has not told, promises nothing.
LEMMA PosesUntold ==
  ASSUME task'.sim = None \/ task'.configuring \/ ~task'.sim.told
  PROVE  Poses'
BY DEF Poses, Told2

LEMMA LastOne ==
  ASSUME NEW s, IsSeq(s), NEW p
  PROVE  Len(s) \in Nat /\ DOMAIN (s \o <<p>>) = 1 .. Len(s) + 1 /\ (s \o <<p>>)[Len(s) + 1] = p
<1> DEFINE R == Range(s) \cup {p}
<1>1. s \in Seq(R) /\ p \in R
  BY DEF IsSeq
<1> HIDE DEF R
<1>2. s \o <<p>> = Append(s, p)
  BY <1>1, AppendIsConcat
<1> QED BY <1>2, Appended

LEMMA PosesMoved ==
  ASSUME Typed, UNCHANGED wserver, NEW m, m.kind = "move", m.x = task'.sim.x, up' = up \o <<m>>
  PROVE  Poses'
<1> PICK i : i = Len(up) + 1
  OBVIOUS
<1>1. IsSeq(up)
  BY DEF Typed, UpOK
<1>2. Len(up) \in Nat /\ DOMAIN (up \o <<m>>) = 1 .. Len(up) + 1 /\ (up \o <<m>>)[Len(up) + 1] = m
  BY <1>1, LastOne, Zenon
<1>3. i \in DOMAIN up' /\ up'[i] = m
  BY <1>2
<1>4. \A j \in DOMAIN up' : ~(j > i)
  BY <1>2
<1>5. LastMove(i)'
  BY <1>3, <1>4 DEF LastMove
<1> QED BY <1>3, <1>5 DEF Poses

LEMMA WalkPoses ==
  ASSUME Typed, Walk \/ ForcedPosition
  PROVE  Poses'
<1>1. task \in Tasks /\ task.sim # None /\ UNCHANGED wserver
  BY DEF Typed, Sound, ClientOK, Walk, ForcedPosition
<1>2. CASE Walk
  <2>1. PICK x \in {task.sim.x - 1, task.sim.x + 1} \cap Places :
              /\ task' = [task EXCEPT !.sim.x = x, !.sim.told = TRUE]
              /\ up' = up \o <<[kind |-> "move", x |-> x, after |-> task.sim.after]>>
    BY <1>2 DEF Walk, Goes, Answer
  <2>2. task'.sim.x = x
    BY <1>1, <2>1 DEF Tasks, Simulations
  <2> DEFINE m == [kind |-> "move", x |-> x, after |-> task.sim.after]
  <2>3. m.kind = "move" /\ m.x = task'.sim.x /\ up' = up \o <<m>>
    BY <2>1, <2>2
  <2> HIDE DEF m
  <2> QED BY <1>1, <2>3, PosesMoved
<1>3. CASE ForcedPosition
  <2>1. /\ task' = [task EXCEPT !.sim.told = TRUE]
        /\ up' = up \o <<[kind |-> "move", x |-> task.sim.x, after |-> task.sim.after]>>
    BY <1>3 DEF ForcedPosition, Goes, Answer
  <2>2. task'.sim.x = task.sim.x
    BY <1>1, <2>1 DEF Tasks, Simulations
  <2> DEFINE m == [kind |-> "move", x |-> task.sim.x, after |-> task.sim.after]
  <2>3. m.kind = "move" /\ m.x = task'.sim.x /\ up' = up \o <<m>>
    BY <2>1, <2>2
  <2> HIDE DEF m
  <2> QED BY <1>1, <2>3, PosesMoved
<1> QED BY <1>2, <1>3

\* A frame taken off the channel, which is no position.
LEMMA PosesRead ==
  ASSUME Typed, Poses, UNCHANGED wserver, StaysTold,
         down' = down \/ (down # <<>> /\ down' = Tail(down) /\ Frame.kind # "position"),
         NEW out, Says(out), up' = up \o out
  PROVE  Poses'
<1>1. IsSeq(out) /\ NoneOf("move", out) /\ NoneOf("confirm", out)
  BY DEF Says, Told1, UpOK
<1>2. NoPositionGone
  <2>1. IsSeq(down)
    BY DEF Typed, DownOK
  <2>2. CASE down' = down
    BY <2>2 DEF NoPositionGone
  <2>3. CASE down # <<>> /\ down' = Tail(down) /\ Frame.kind # "position"
    <3> SUFFICES ASSUME NoneOf("position", Tail(down)) PROVE NoneOf("position", down)
      BY <2>3 DEF NoPositionGone
    <3> SUFFICES ASSUME NEW i \in DOMAIN down PROVE down[i].kind # "position"
      BY DEF NoneOf
    <3>1. /\ Len(down) \in Nat /\ DOMAIN down = 1 .. Len(down) /\ Head(down) = down[1]
          /\ DOMAIN Tail(down) = 1 .. Len(down) - 1
          /\ \A k \in 1 .. Len(down) - 1 : Tail(down)[k] = down[k + 1]
      BY <2>1, <2>3, Popped, SMTT(30)
    <3>2. CASE i = 1
      BY <2>3, <3>1, <3>2 DEF Frame
    <3>3. CASE i # 1
      <4>1. i - 1 \in 1 .. Len(down) - 1 /\ (i - 1) + 1 = i
        BY <3>1, <3>3
      <4> QED BY <3>1, <4>1 DEF NoneOf
    <3> QED BY <3>2, <3>3
  <2> QED BY <2>2, <2>3
<1> QED BY <1>1, <1>2, PosesKept

LEMMA QuietPoses ==
  ASSUME Typed, Poses, \/ ReadEntity \/ ReadChunk \/ ReadChunkUpdate \/ ReadSetting
                       \/ ReadRespawn \/ ReadRotation
  PROVE  Poses'
<1>1. UNCHANGED wserver /\ Says(<<>>) /\ down # <<>> /\ down' = Tail(down) /\ up' = up \o <<>>
      /\ Frame.kind # "position" /\ task \in Tasks
  BY QuietFrames, SaysShort DEF Calm, AsksNothing, Reading, Asking, Typed, Sound, ClientOK
<1> HIDE DEF Frame
<1>2. CASE StaysTold
  BY <1>1, <1>2, PosesRead
<1>3. UNCHANGED task => StaysTold
  BY DEF StaysTold, Told2
<1>4. CASE ReadEntity
  <2>1. UNCHANGED task \/ task' = Pushed(task, Frame)
    BY <1>4 DEF ReadEntity, Goes, Ends
  <2>2. ASSUME task' = Pushed(task, Frame) PROVE StaysTold
    <3>1. CASE task.sim = None
      BY <1>3, <2>2, <3>1 DEF Pushed
    <3>2. CASE task.sim # None
      <4>1. task' = task \/ task' = [task EXCEPT !.sim.v = Frame.v]
        BY <2>2 DEF Pushed
      <4>2. task' = [task EXCEPT !.sim.v = Frame.v] =>
              /\ task'.sim.told = task.sim.told /\ task'.sim.x = task.sim.x
              /\ task'.configuring = task.configuring
        BY <1>1, <3>2 DEF Tasks, Simulations
      <4> QED BY <1>3, <3>2, <4>1, <4>2 DEF StaysTold, Told2
    <3> QED BY <3>1, <3>2
  <2> QED BY <1>2, <1>3, <2>1, <2>2
<1>5. CASE ReadChunk
  <2>1. task' = [task EXCEPT !.decode = Frame]
    BY <1>5 DEF ReadChunk, Goes
  <2>2. task'.sim = task.sim /\ task'.configuring = task.configuring
    BY <1>1, <2>1 DEF Tasks
  <2> QED BY <1>2, <2>2 DEF StaysTold, Told2
<1>6. CASE ReadChunkUpdate
  <2>1. Frame.kind = "forget" \/ Frame.kind = "update"
    BY <1>6 DEF ReadChunkUpdate, Reads, Frame
  <2>2. CASE ~world.active
    BY <1>2, <1>3, <1>6, <2>2 DEF ReadChunkUpdate, Ends
  <2>3. CASE world.active
    BY <1>2, <1>3, <1>6, <2>1, <2>3 DEF ReadChunkUpdate, Goes
  <2> QED BY <2>2, <2>3
<1>7. CASE ReadSetting
  <2>1. UNCHANGED task
    BY <1>7 DEF ReadSetting, Goes, Ends
  <2> QED BY <1>2, <1>3, <2>1
<1>8. CASE ReadRotation
  <2>1. UNCHANGED task
    BY <1>8 DEF ReadRotation, Goes, Ends
  <2> QED BY <1>2, <1>3, <2>1
<1>9. CASE ReadRespawn
  <2>1. UNCHANGED task \/ task' = Reset(task, world.own)
    BY <1>9 DEF ReadRespawn, Goes, Ends
  <2>2. task' = Reset(task, world.own) => task'.sim = None
    BY <1>1 DEF Reset, Tasks
  <2> QED BY <1>2, <1>3, <2>1, <2>2, PosesUntold
<1> QED BY <1>4, <1>5, <1>6, <1>7, <1>8, <1>9

LEMMA DecodePoses ==
  ASSUME Typed, Poses, FinishDecode
  PROVE  Poses'
<1>1. /\ UNCHANGED <<wserver, up>> /\ down' = down /\ task \in Tasks /\ IsSeq(up)
  BY DEF FinishDecode, Typed, Sound, ClientOK, UpOK
<1>2. UNCHANGED task \/ task' = [task EXCEPT !.decode = None]
  BY DEF FinishDecode, Goes, Ends
<1>3. task'.sim = task.sim /\ task'.configuring = task.configuring
  BY <1>1, <1>2 DEF Tasks
<1>4. StaysTold
  BY <1>3 DEF StaysTold, Told2
<1>5. up' = up \o <<>>
  BY <1>1, NothingSaid
<1> QED BY <1>1, <1>4, <1>5, SaysShort, PosesRead

LEMMA AnsweredPoses ==
  ASSUME Typed, Poses, ReadKeepAlive \/ ReadBatchFinished \/ ReadHealth
  PROVE  Poses'
<1>1. /\ UNCHANGED wserver /\ down # <<>> /\ down' = Tail(down) /\ task \in Tasks
      /\ DownOK(down)
  BY DEF ReadKeepAlive, ReadBatchFinished, ReadHealth, Reads, Took, Typed, Sound, ClientOK
<1>2. CASE ReadKeepAlive
  <2>1. Frame.kind = "keep_alive" /\ UNCHANGED task /\ up' = up \o <<Frame>>
    BY <1>2 DEF ReadKeepAlive, Reads, Frame, Goes, Answer
  <2>2. Frame \in [kind : {"keep_alive"}, id : Nat]
    BY <1>1, <2>1, FrameWorld
  <2> HIDE DEF Frame
  <2>3. Plain(Frame)
    BY <2>2 DEF Plain, Answers
  <2>4. StaysTold /\ Says(<<Frame>>) /\ Frame.kind # "position"
    BY <2>1, <2>3, SaysShort DEF StaysTold, Told2
  <2> QED BY <1>1, <2>1, <2>4, PosesRead
<1>3. CASE ReadBatchFinished
  <2> DEFINE a == [kind |-> "batch_received"]
             b == [kind |-> "player_loaded"]
  <2>1. /\ Frame.kind # "position" /\ task' = [task EXCEPT !.loaded = TRUE]
        /\ up' = up \o (<<a>> \o IF task.loaded THEN <<>> ELSE <<b>>)
    BY <1>3 DEF ReadBatchFinished, Reads, Frame, Goes, Answer
  <2> HIDE DEF Frame
  <2>2. Plain(a) /\ Plain(b)
    BY DEF Plain, Answers
  <2> HIDE DEF a, b
  <2>3. <<a>> \o <<>> = <<a>> /\ <<a>> \o <<b>> = <<a, b>>
    BY NothingSaid, Short, Pair
  <2>4. Says(<<a>>) /\ Says(<<a, b>>)
    BY <2>2, SaysShort
  <2>5. task'.sim = task.sim /\ task'.configuring = task.configuring
    BY <1>1, <2>1 DEF Tasks
  <2>6. StaysTold
    BY <2>5 DEF StaysTold, Told2
  <2>7. CASE task.loaded
    <3>1. up' = up \o <<a>>
      BY <2>1, <2>3, <2>7
    <3> QED BY <1>1, <2>1, <2>4, <2>6, <3>1, PosesRead
  <2>8. CASE ~task.loaded
    <3>1. up' = up \o <<a, b>>
      BY <2>1, <2>3, <2>8
    <3> QED BY <1>1, <2>1, <2>4, <2>6, <3>1, PosesRead
  <2> QED BY <2>7, <2>8
<1>4. CASE ReadHealth
  <2> DEFINE a == [kind |-> "perform_respawn"]
  <2>1. /\ Frame.kind # "position"
        /\ \/ task' = [task EXCEPT !.requested = TRUE] /\ up' = up \o <<a>>
           \/ task' = task /\ up' = up \o <<>>
    BY <1>4 DEF ReadHealth, Reads, Frame, Goes, Answer
  <2> HIDE DEF Frame
  <2>2. Plain(a)
    BY DEF Plain, Answers
  <2> HIDE DEF a
  <2>3. Says(<<a>>) /\ Says(<<>>)
    BY <2>2, SaysShort
  <2>4. task'.sim = task.sim /\ task'.configuring = task.configuring
    BY <1>1, <2>1 DEF Tasks
  <2>5. StaysTold
    BY <2>4 DEF StaysTold, Told2
  <2> QED BY <1>1, <2>1, <2>3, <2>5, PosesRead
<1> QED BY <1>2, <1>3, <1>4

\* A correction has the simulation stand where the server was not told yet.
LEMMA PositionPoses ==
  ASSUME Typed, Kept, Lawful(ClientView, Frame), ReadPosition
  PROVE  Poses'
<1>1. Reads({"position"}) /\ task \in Tasks /\ (task.sim # None => WorldMode)
  BY DEF ReadPosition, Typed, Sound, ClientOK
<1>2. Refusal(Frame) = "none"
  BY <1>1, PositionTaken
<1> DEFINE sim == Reconciled(task.sim, Frame, Target(Frame))
<1>3. task' = IF WorldMode THEN [task EXCEPT !.sim = sim] ELSE task
  BY <1>2 DEF ReadPosition, Goes
<1>4. ~sim.told
  BY DEF Reconciled
<1> HIDE DEF sim
<1>5. CASE WorldMode
  <2>1. task'.sim = sim
    BY <1>1, <1>3, <1>5 DEF Tasks
  <2> QED BY <1>4, <2>1, PosesUntold
<1>6. CASE ~WorldMode
  BY <1>1, <1>3, <1>6, PosesUntold
<1> QED BY <1>5, <1>6

LEMMA ConfigurationPoses ==
  ASSUME Typed, ReadStartConfiguration \/ FinishConfiguration
  PROVE  Poses'
<1>1. task \in Tasks
  BY DEF Typed, Sound, ClientOK
<1>2. CASE ReadStartConfiguration
  <2>1. task' = [task EXCEPT !.configuring = TRUE]
    BY <1>2 DEF ReadStartConfiguration, Goes
  <2>2. task'.configuring
    BY <1>1, <2>1 DEF Tasks
  <2> QED BY <2>2, PosesUntold
<1>3. CASE FinishConfiguration
  <2>1. task' = Reset([task EXCEPT !.configuring = FALSE], Frame.own)
    BY <1>3 DEF FinishConfiguration, Goes
  <2>2. task'.sim = None
    BY <1>1, <2>1 DEF Tasks, Reset
  <2> QED BY <2>2, PosesUntold
<1> QED BY <1>2, <1>3

LEMMA ClientPoses ==
  ASSUME Typed, Kept, Poses, Leads(ClientView, down, ServerView), WorldClient
  PROVE  Poses'
<1>1. ReadPosition => Lawful(ClientView, Frame)
  BY FrameSeen DEF ReadPosition, Reads
<1> QED
  BY <1>1, QuietPoses, DecodePoses, AnsweredPoses, PositionPoses, ConfigurationPoses, WalkPoses
     DEF WorldClient

\* In Chat Mode nobody walks.
LEMMA ClientHeld ==
  ASSUME Typed, Held, ClientEffect
  PROVE  Held'
<1>1. UNCHANGED <<habit, wserver>> /\ IsSeq(up) /\ (task.sim # None => WorldMode)
  BY DEF ClientEffect, Calm, Typed, Sound, ClientOK, UpOK
<1>2. ASSUME ~WorldMode, NEW out, IsSeq(out), NoneOf("move", out), up' = up \o out
      PROVE  NoneOf("move", up')
  BY <1>1, <1>2, NonePushed DEF Held
<1>3. ASSUME ~WorldMode, NEW out, Says(out), up' = up \o out
      PROVE  NoneOf("move", up')
  BY <1>2, <1>3 DEF Says, Told1, UpOK
<1>4. ASSUME ~WorldMode, NEW p, p.kind # "move", up' = up \o <<p>>
      PROVE  NoneOf("move", up')
  <2>1. IsSeq(<<p>>) /\ NoneOf("move", <<p>>)
    BY <1>4, Short DEF NoneOf
  <2> QED BY <1>2, <1>4, <2>1
<1>5. ~WorldMode => NoneOf("move", up')
  <2> SUFFICES ASSUME ~WorldMode PROVE NoneOf("move", up')
    OBVIOUS
  <2>1. ~Moves
    BY <1>1 DEF Moves
  <2>2. CASE AsksNothing \/ TurnedDown \/ Arrives
    BY <1>3, <2>2, SaysShort DEF AsksNothing, TurnedDown, Arrives, Reading
  <2>3. CASE Decoded
    BY <1>3, <2>3, SaysShort DEF Decoded
  <2>4. CASE Acknowledges \/ AsksBack
    BY <1>3, <2>4 DEF Acknowledges, AsksBack, Reading
  <2>5. CASE Echoes
    BY <1>4, <2>5 DEF Echoes, Reading
  <2>6. CASE Confirms
    BY <1>4, <2>6 DEF Confirms, Reading
  <2>7. CASE Leaves
    BY <1>4, <2>7 DEF Leaves, Reading
  <2> QED BY <2>1, <2>2, <2>3, <2>4, <2>5, <2>6, <2>7 DEF ClientEffect
<1> QED BY <1>1, <1>5 DEF Held, HeldBy, WorldMode

-----------------------------------------------------------------------------
\* The views are kept by the server, by the inventory and by the client.

LEMMA AfterLater ==
  ASSUME UNCHANGED habit, NEW v, NEW p
  PROVE  After(v, p)' = After(v, p) /\ (Lawful(v, p)' <=> Lawful(v, p))
<1>1. (WorldMode' <=> WorldMode) /\ (Crowded' <=> Crowded) /\ (Unseen(p)' <=> Unseen(p))
  BY DEF WorldMode, Crowded, Unseen
<1>2. AfterSpawn(v, p)' = AfterSpawn(v, p) /\ AfterUpdate(v, p)' = AfterUpdate(v, p)
  BY <1>1 DEF AfterSpawn, AfterUpdate, Joins, Changes, Changed
<1>3. AfterRemove(v, p)' = AfterRemove(v, p) /\ AfterRespawn(v, p)' = AfterRespawn(v, p)
  BY <1>1 DEF AfterRemove, Without, AfterRespawn, NoChunks, Nobody
<1>4. AfterPush(v, p)' = AfterPush(v, p)
  BY <1>1, <1>2 DEF AfterPush
<1>5. AfterPosition(v, p)' = AfterPosition(v, p)
  BY <1>1 DEF AfterPosition
<1>6. After(v, p)' = After(v, p)
  BY <1>2, <1>3, <1>4, <1>5 DEF After, AfterChunk, AfterBlocks, AfterLogin, Blank, NoChunks, Nobody
<1>7. Lawful(v, p)' <=> Lawful(v, p)
  BY <1>1 DEF Lawful, OfWorld, RoomForEntity, RoomForChunk
<1> QED BY <1>6, <1>7

\* What leads from view to view does not depend on when.
LEMMA LeadsLater ==
  ASSUME UNCHANGED habit, NEW v, NEW s, NEW w
  PROVE  Leads(v, s, w) => Leads(v, s, w)'
BY AfterLater DEF Leads

LEMMA LeadsNext ==
  ASSUME UNCHANGED habit, Leads(ClientView', down', ServerView')
  PROVE  Leads(ClientView, down, ServerView)'
<1>1. PICK v, s, w : v = ClientView' /\ s = down' /\ w = ServerView'
  OBVIOUS
<1>2. Leads(v, s, w)'
  BY <1>1, LeadsLater
<1> QED BY <1>1, <1>2

LEMMA ServerHeld ==
  ASSUME Typed, Held, ServerTells
  PROVE  Held'
<1>1. IsSeq(up) /\ HeldBy(wserver') /\ UNCHANGED habit
  BY DEF Typed, UpOK, ServerTells
<1>2. ~WorldMode => NoneOf("move", up')
  <2> SUFFICES ASSUME ~WorldMode PROVE NoneOf("move", up')
    OBVIOUS
  <2>1. NoneOf("move", up)
    BY DEF Held
  <2>2. up' = up \/ (up # <<>> /\ up' = Tail(up))
    BY DEF ServerTells
  <2> QED BY <1>1, <2>1, <2>2, NonePopped
<1> QED BY <1>1, <1>2 DEF Held, HeldBy, WorldMode

LEMMA ServerPoses ==
  ASSUME Typed, Questions, Running, Poses, ServerTells
  PROVE  Poses'
<1>1. IsSeq(down) /\ IsSeq(up) /\ task' = task
  BY DEF Typed, DownOK, UpOK, ServerTells
<1>2. PICK packets :
        /\ IsSeq(packets) /\ down' = down \o packets
        /\ wserver'.configuring \/ ~NoneOf("position", packets) \/ SamePose \/ Listens
  BY DEF ServerTells
<1>3. /\ NoneOf("position", down') => NoneOf("position", down)
      /\ NoneOf("position", down') => NoneOf("position", packets)
  <2>1. /\ Len(down) \in Nat /\ Len(packets) \in Nat
        /\ DOMAIN down = 1 .. Len(down) /\ DOMAIN packets = 1 .. Len(packets)
        /\ DOMAIN (down \o packets) = 1 .. Len(down) + Len(packets)
        /\ \A i \in 1 .. Len(down) : (down \o packets)[i] = down[i]
        /\ \A i \in 1 .. Len(packets) : (down \o packets)[Len(down) + i] = packets[i]
    BY <1>1, <1>2, Joined
  <2>2. ASSUME NoneOf("position", down'), NEW i \in DOMAIN down PROVE down[i].kind # "position"
    <3>1. i \in 1 .. Len(down) + Len(packets) /\ (down \o packets)[i] = down[i]
      BY <2>1
    <3> QED BY <1>2, <2>1, <2>2, <3>1 DEF NoneOf
  <2>3. ASSUME NoneOf("position", down'), NEW i \in DOMAIN packets
        PROVE  packets[i].kind # "position"
    <3>1. Len(down) + i \in 1 .. Len(down) + Len(packets)
          /\ (down \o packets)[Len(down) + i] = packets[i]
      BY <2>1
    <3> QED BY <1>2, <2>1, <2>3, <3>1 DEF NoneOf
  <2> QED BY <2>2, <2>3 DEF NoneOf
<1>4. NoPositionGone
  BY <1>3 DEF NoPositionGone
<1>5. CASE wserver'.configuring \/ ~NoneOf("position", packets)
  BY <1>3, <1>5 DEF Poses
<1>6. CASE SamePose
  BY <1>1, <1>4, <1>6 DEF SamePose, Poses, NoPositionGone, Told2, LastMove
<1>7. CASE Listens
  BY <1>1, <1>4, <1>7, PosesListened
<1> QED BY <1>2, <1>5, <1>6, <1>7

LEMMA ViewsServer ==
  ASSUME Typed, Phase, Questions, Views, WorldServer
  PROVE  Views'
<1>1. ServerTells
  BY WorldServerTells DEF Views
<1>2. UNCHANGED <<habit, net, world, task>> /\ IsSeq(down)
  BY <1>1 DEF ServerTells, Typed, DownOK
<1>3. Held'
  BY <1>1, ServerHeld DEF Views
<1>4. Kept' /\ ClientView' = ClientView
  BY <1>2, ClientViewKept DEF Views
<1>5. OnlyCrowdsEnd' /\ Running' = Running
  BY <1>2 DEF Views, OnlyCrowdsEnd, Crowded, Running
<1>6. ASSUME Running PROVE Leads(ClientView', down', ServerView') /\ Poses'
  <2>1. Leads(ClientView, down, ServerView) /\ Poses
    BY <1>6 DEF Views
  <2>2. PICK packets : /\ IsSeq(packets) /\ down' = down \o packets
                       /\ Leads(ServerView, packets, ServerView')
    BY <1>1 DEF ServerTells
  <2>3. Leads(ClientView, down \o packets, ServerView')
    BY <1>2, <2>1, <2>2, LeadsOn
  <2>4. Poses'
    BY <1>1, <1>6, <2>1, ServerPoses
  <2> QED BY <1>4, <2>2, <2>3, <2>4
<1>7. Leads(ClientView', down', ServerView') => Leads(ClientView, down, ServerView)'
  BY <1>2, LeadsNext
<1> QED BY <1>3, <1>4, <1>5, <1>6, <1>7 DEF Views

LEMMA ViewsClient ==
  ASSUME Typed, Phase, Questions, Views, WorldClient
  PROVE  Views'
<1>1. ClientEffect
  BY WorldClientEffect
<1>2. Running /\ UNCHANGED habit
  BY <1>1 DEF ClientEffect, Calm
<1>3. Kept /\ Held /\ Leads(ClientView, down, ServerView) /\ Poses
  BY <1>2 DEF Views
<1>4. /\ UNCHANGED <<habit, wserver>> /\ Kept'
      /\ \/ Running' /\ Leads(ClientView', down', ServerView')
         \/ Overwhelmed
  BY <1>2, <1>3, ClientLeads
<1>5. Held' /\ Poses'
  BY <1>1, <1>3, ClientHeld, ClientPoses
<1>6. CASE Running' /\ Leads(ClientView', down', ServerView')
  <2>1. Leads(ClientView, down, ServerView)'
    BY <1>2, <1>6, LeadsNext
  <2>2. OnlyCrowdsEnd'
    BY <1>6 DEF Running, OnlyCrowdsEnd
  <2> QED BY <1>4, <1>5, <2>1, <2>2 DEF Views
<1>7. CASE Overwhelmed
  <2>1. PICK kind \in {"entities", "chunks"} : Crowded /\ Ends(kind)
    BY <1>7 DEF Overwhelmed
  <2>2. [kind |-> kind, id |-> 0] # None
    BY SessionAssumption DEF Endings
  <2>3. net'.ended = [kind |-> kind, id |-> 0]
    BY <1>2, <2>1, <2>2 DEF Ends, Running
  <2>4. ~Running' /\ net'.ended.kind = kind
    BY <2>2, <2>3 DEF Running
  <2>5. OnlyCrowdsEnd'
    BY <1>2, <2>1, <2>4 DEF OnlyCrowdsEnd, Crowded
  <2> QED BY <1>4, <1>5, <2>4, <2>5 DEF Views
<1> QED BY <1>4, <1>6, <1>7

\* What the inventory ends the session with is one of its packets or a command.
OfInventory(ended) == ended # None => ended.kind \in InventoryKinds \cup {"command"}
LEMMA TickEnds ==
  ASSUME MailboxOK, Tick
  PROVE  OfInventory(net'.ended)
<1> DEFINE start == [inv |-> net.inv, out |-> <<>>, ended |-> None, closed |-> net.closed]
<1> DEFINE end == FoldLeft(Serve, start, mailbox)
<1>1. net' = [net EXCEPT !.inv = end.inv, !.ended = end.ended, !.closed = end.closed] /\ Running
  BY DEF Tick
<1>2. Good(start)
  BY Short DEF Good
<1> HIDE DEF start
<1>3. Good(end)
  BY <1>2, ServedGood DEF MailboxOK
<1> HIDE DEF end
<1>4. end.ended # None => end.ended.kind = "command"
  BY <1>3 DEF Good
<1>5. net'.ended = end.ended
  BY <1>1 DEF Running
<1> QED BY <1>4, <1>5 DEF OfInventory

LEMMA InventoryEnds ==
  ASSUME EventsOK, MailboxOK, UpOK(up), DownOK(down), InventoryStep
  PROVE  net'.ended = net.ended \/ OfInventory(net'.ended)
<1>1. CASE Overlay
  BY <1>1, OverlayLocal DEF Local
<1>2. CASE TakeUpdate \/ TickWithoutSimulation
  BY <1>2 DEF TakeUpdate, TickWithoutSimulation
<1>3. CASE Tick
  BY <1>3, TickEnds
<1>4. CASE Reads(InventoryKinds) /\ ReadPacket
  <2> DEFINE p == Head(down)
  <2>1. p.kind \in InventoryKinds /\ Running
    BY <1>4 DEF Reads
  <2>2. \/ net' = [net EXCEPT !.inv = Applied(net.inv, p)]
        \/ net' = [net EXCEPT !.ended = [kind |-> p.kind, id |-> p.id]]
    BY <1>4 DEF ReadPacket
  <2> HIDE DEF p
  <2>3. net'.ended = net.ended \/ net'.ended = [kind |-> p.kind, id |-> p.id]
    <3> DEFINE inv == Applied(net.inv, p)
               reason == [kind |-> p.kind, id |-> p.id]
    <3>1. net' = [net EXCEPT !.inv = inv] \/ net' = [net EXCEPT !.ended = reason]
      BY <2>2
    <3> HIDE DEF inv
    <3>2. CASE net' = [net EXCEPT !.inv = inv]
      BY <3>2
    <3>3. CASE net' = [net EXCEPT !.ended = reason]
      BY <2>1, <3>3 DEF Running
    <3> QED BY <3>1, <3>2, <3>3
  <2> QED BY <2>1, <2>3 DEF OfInventory
<1>5. CASE /\ ~wserver.configuring /\ up # <<>> /\ Head(up).kind \in CommandKinds
           /\ ReceiveClick \/ ReceiveOther
  <2>1. UNCHANGED net
    BY <1>5 DEF ReceiveClick, ReceiveOther, Receive
  <2> QED BY <2>1, SMTT(30)
<1>6. CASE Server
  BY <1>6, ServerEffect
<1> QED BY <1>1, <1>2, <1>3, <1>4, <1>5, <1>6 DEF InventoryStep

LEMMA InventoryHeld ==
  ASSUME Typed, Held, InventoryEffect
  PROVE  Held'
<1>1. UNCHANGED <<habit, wserver>> /\ IsSeq(up)
  BY DEF InventoryEffect, Typed, UpOK
<1>2. ~WorldMode => NoneOf("move", up')
  <2> SUFFICES ASSUME ~WorldMode, NoneOf("move", up) PROVE NoneOf("move", up')
    BY DEF Held
  <2>1. CASE up' = up
    BY <2>1
  <2>2. CASE \E out : SentOnly(out) /\ up' = up \o out
    <3>1. PICK out : SentOnly(out) /\ up' = up \o out
      BY <2>2
    <3>2. NoneOf("move", out) /\ IsSeq(out)
      BY <3>1, NoneSaid DEF Says, SentOnly
    <3> QED BY <1>1, <3>1, <3>2, NonePushed
  <2>3. CASE up # <<>> /\ up' = Tail(up)
    BY <1>1, <2>3, NonePopped
  <2> QED BY <2>1, <2>2, <2>3 DEF InventoryEffect
<1> QED BY <1>1, <1>2 DEF Held, HeldBy, WorldMode

LEMMA InventoryPoses ==
  ASSUME Typed, Questions, Running, Poses, InventoryEffect
  PROVE  Poses'
<1>1. UNCHANGED <<habit, task, wserver>> /\ IsSeq(up) /\ IsSeq(down)
  BY DEF InventoryEffect, Typed, UpOK, DownOK
<1>2. StaysTold
  BY <1>1 DEF StaysTold, Told2
<1>3. ASSUME NEW out, UpdatesOnly(out), down' = down \o out PROVE NoPositionGone
  <2>1. IsSeq(out)
    BY <1>3 DEF UpdatesOnly
  <2>2. /\ Len(down) \in Nat /\ Len(out) \in Nat /\ DOMAIN down = 1 .. Len(down)
        /\ DOMAIN (down \o out) = 1 .. Len(down) + Len(out)
        /\ \A i \in 1 .. Len(down) : (down \o out)[i] = down[i]
    BY <1>1, <2>1, Joined
  <2> SUFFICES ASSUME NoneOf("position", down'), NEW i \in DOMAIN down
               PROVE  down[i].kind # "position"
    BY DEF NoPositionGone, NoneOf
  <2>3. i \in 1 .. Len(down) + Len(out) /\ (down \o out)[i] = down[i]
    BY <2>2
  <2> QED BY <1>3, <2>2, <2>3 DEF NoneOf
<1>4. CASE UNCHANGED <<up, down>>
  BY <1>1, <1>4 DEF Poses, Told2, LastMove
<1>5. CASE down' = down /\ \E out : SentOnly(out) /\ up' = up \o out
  <2>1. PICK out : SentOnly(out) /\ up' = up \o out
    BY <1>5
  <2>2. Says(out)
    BY <2>1, NoneSaid
  <2> QED BY <1>1, <1>2, <1>5, <2>1, <2>2, PosesRead
<1>6. CASE Reads(InventoryKinds) /\ up' = up /\ down' = Tail(down)
  <2>1. down # <<>> /\ Frame.kind # "position"
    BY <1>6 DEF Reads, Frame, InventoryKinds
  <2>2. up' = up \o <<>>
    BY <1>1, <1>6, NothingSaid
  <2> QED BY <1>1, <1>2, <1>6, <2>1, <2>2, SaysShort, PosesRead
<1>7. CASE /\ up # <<>> /\ Head(up).kind \in CommandKinds /\ up' = Tail(up)
           /\ \E out : UpdatesOnly(out) /\ down' = down \o out
  <2>1. Head(up).kind # "move"
    BY <1>7 DEF CommandKinds
  <2>2. Listens
    BY <1>1, <1>7, <2>1 DEF Listens
  <2>3. NoPositionGone
    BY <1>3, <1>7
  <2> QED BY <1>1, <2>2, <2>3, PosesListened
<1>8. CASE up' = up /\ \E out : UpdatesOnly(out) /\ down' = down \o out
  <2>1. NoPositionGone
    BY <1>3, <1>8
  <2>2. up' = up \o <<>> /\ IsSeq(<<>>) /\ NoneOf("move", <<>>) /\ NoneOf("confirm", <<>>)
    BY <1>1, <1>8, NothingSaid, Short DEF NoneOf
  <2> QED BY <1>1, <1>2, <2>1, <2>2, PosesKept
<1> QED BY <1>4, <1>5, <1>6, <1>7, <1>8 DEF InventoryEffect

LEMMA InventoryLeads ==
  ASSUME Typed, Leads(ClientView, down, ServerView), InventoryEffect
  PROVE  Leads(ClientView, down, ServerView)'
<1>1. UNCHANGED <<habit, world, task, wserver>> /\ IsSeq(down)
  BY DEF InventoryEffect, Typed, DownOK
<1>2. ClientView' = ClientView /\ ServerView' = ServerView
  BY <1>1, ClientViewKept, ServerViewKept
<1>3. Leads(ClientView, down', ServerView)
  <2>1. CASE down' = down
    BY <2>1
  <2>2. CASE Reads(InventoryKinds) /\ down' = Tail(down)
    <3>1. down # <<>> /\ Frame.kind \notin Telling
      BY <2>2 DEF Reads, Frame, InventoryKinds, Telling, OfWorld
    <3>2. Leads(After(ClientView, Frame), Tail(down), ServerView)
      BY <3>1, FrameSeen
    <3>3. After(ClientView, Frame) = ClientView
      BY <3>1, Untelling
    <3> QED BY <2>2, <3>2, <3>3
  <2>3. CASE \E out : UpdatesOnly(out) /\ down' = down \o out
    <3>1. PICK out : UpdatesOnly(out) /\ down' = down \o out
      BY <2>3
    <3>2. IsSeq(out) /\ Leads(ServerView, out, ServerView)
      BY <3>1, UpdatesIdle
    <3> QED BY <1>1, <3>1, <3>2, LeadsOn
  <2> QED BY <2>1, <2>2, <2>3 DEF InventoryEffect
<1> QED BY <1>1, <1>2, <1>3, LeadsNext

LEMMA ViewsInventory ==
  ASSUME Typed, Questions, Views, InventoryStep
  PROVE  Views'
<1>1. InventoryEffect /\ (net'.ended = net.ended \/ OfInventory(net'.ended))
  BY InventoryStepEffect, InventoryEnds DEF Typed, ServerOK
<1>2. UNCHANGED <<habit, world, task, wserver>> /\ (Running' => Running)
  BY <1>1 DEF InventoryEffect
<1>3. Kept' /\ Held'
  BY <1>1, <1>2, ClientViewKept, InventoryHeld DEF Views
<1>4. OnlyCrowdsEnd'
  BY <1>1, <1>2 DEF Views, OnlyCrowdsEnd, OfInventory, Crowded
<1>5. Running => Leads(ClientView, down, ServerView)' /\ Poses'
  BY <1>1, InventoryLeads, InventoryPoses DEF Views
<1> QED BY <1>2, <1>3, <1>4, <1>5 DEF Views
LEMMA ViewsStep ==
  ASSUME TalkInv, Views, [Next]_vars
  PROVE  Views'
<1>1. Typed /\ Phase /\ Questions
  BY DEF TalkInv
<1>2. CASE InventoryStep
  BY <1>1, <1>2, ViewsInventory
<1>3. CASE WorldClient
  BY <1>1, <1>3, ViewsClient
<1>4. CASE WorldServer
  BY <1>1, <1>4, ViewsServer
<1>5. CASE UNCHANGED vars
  <2>1. UNCHANGED <<habit, net, up, down, world, task, wserver>>
    BY <1>5 DEF vars
  <2>2. ClientView' = ClientView /\ ServerView' = ServerView /\ (Kept => Kept')
    BY <2>1, ClientViewKept, ServerViewKept
  <2>3. Leads(ClientView, down, ServerView) => Leads(ClientView, down, ServerView)'
    BY <2>1, <2>2, LeadsNext
  <2>4. (Held => Held') /\ (Poses => Poses')
    BY <2>1 DEF Held, HeldBy, WorldMode, Poses, Told2, LastMove
  <2>5. (OnlyCrowdsEnd => OnlyCrowdsEnd') /\ Running' = Running
    BY <2>1 DEF OnlyCrowdsEnd, Crowded, Running
  <2> QED BY <2>2, <2>3, <2>4, <2>5 DEF Views
<1> QED BY <1>2, <1>3, <1>4, <1>5 DEF Next

LEMMA ViewsInit ==
  ASSUME Init
  PROVE  Views
<1>1. /\ world.own = First /\ world.dim = 0 /\ world.mode = 0 /\ world.x = 0
      /\ world.rotated = TRUE /\ world.teleport = 1 /\ world.rain = FALSE
      /\ world.chunks = NoChunks /\ world.store = NoEntities
  BY DEF Init, Settled, NoChunks
<1>2. /\ task.controller = First /\ task.decode = None /\ ~task.configuring
      /\ task.sim = IF WorldMode THEN [x |-> 0, v |-> NoPush, after |-> 1, told |-> TRUE] ELSE None
  BY DEF Init, Settled
<1>3. /\ wserver.own = First /\ wserver.dim = 0 /\ wserver.mode = 0 /\ wserver.x = 0
      /\ wserver.v = NoPush /\ wserver.rain = FALSE /\ wserver.teleport = 1 /\ wserver.sent = 1
      /\ wserver.entities = Nobody /\ wserver.chunks = NoChunks /\ ~wserver.configuring
  BY DEF Init, Settled, NoChunks, Nobody
<1>4. up = <<>> /\ down = <<>> /\ net.ended = None
  BY DEF Init, InventoryInit
<1>5. DOMAIN NoEntities.byId = {} /\ DOMAIN Nobody = {}
  BY DEF NoEntities, Nobody
<1>6. First # None /\ 0 # None /\ [x |-> 0, v |-> NoPush, after |-> 1, told |-> TRUE] # None
  <2>1. [x |-> 0, v |-> NoPush, after |-> 1, told |-> TRUE] \in Simulations
    BY DEF Simulations, NoPush
  <2> DEFINE sim == [x |-> 0, v |-> NoPush, after |-> 1, told |-> TRUE]
  <2>2. sim # None
    <3>1. sim \in Simulations
      BY <2>1
    <3> HIDE DEF sim
    <3> QED BY <3>1, SessionAssumption
  <2>3. First # None /\ 0 # None
    BY SessionAssumption
  <2> QED BY <2>2, <2>3
<1>7. /\ Placed(world) <=> WorldMode
      /\ WorldMode => task.sim # None /\ task.sim.x = 0 /\ task.sim.v = NoPush /\ task.sim.after = 1
      /\ ~WorldMode => task.sim = None
  BY <1>1, <1>2, <1>6 DEF Placed
<1>8. Kept
  BY <1>1, <1>2, <1>5, <1>6, <1>7 DEF Kept, KeptBy
<1>9. Held
  BY <1>3, <1>4, <1>5 DEF Held, HeldBy, NoneOf
<1>10. Poses
  BY <1>3, <1>4, <1>7 DEF Poses, Told2, NoneOf
<1>11. ClientView = ServerView
  <2>1. Known1(world.store) = Nobody /\ Around(wserver.entities) = Nobody
    <3>1. Around(wserver.entities) = Nobody
      BY <1>3 DEF Around, Nobody
    <3> QED BY <1>1, <1>5, <3>1, KnownNone
  <2>2. WithDecoded(world.chunks, task.decode) = NoChunks
    BY <1>1, <1>2 DEF WithDecoded
  <2> DEFINE yes == TRUE
             no == FALSE
             after == IF WorldMode THEN 1 ELSE 0
  <2>3. ClientView = [own |-> First, dim |-> 0, mode |-> 0, rain |-> no, rotated |-> yes,
                      teleport |-> 1, x |-> 0, after |-> after, v |-> NoPush, chunks |-> NoChunks,
                      ents |-> Nobody]
    BY <1>1, <1>7, <2>1, <2>2 DEF ClientView, View
  <2>4. ServerView = [own |-> First, dim |-> 0, mode |-> 0, rain |-> no, rotated |-> yes,
                      teleport |-> 1, x |-> 0, after |-> after, v |-> NoPush, chunks |-> NoChunks,
                      ents |-> Nobody]
    BY <1>3, <2>1 DEF ServerView, Shows
  <2> QED BY <2>3, <2>4
<1>12. Leads(ClientView, down, ServerView)
  BY <1>4, <1>11, LeadsNowhere
<1>13. OnlyCrowdsEnd
  BY <1>4 DEF OnlyCrowdsEnd
<1> QED BY <1>8, <1>9, <1>10, <1>12, <1>13 DEF Views

LEMMA LedNowhere ==
  ASSUME NEW v, NEW w, Leads(v, <<>>, w)
  PROVE  v = w
BY Short DEF Leads

\* Once nothing is on its way the two views are one.
LEMMA QuietAgrees ==
  ASSUME TalkInv, Views
  PROVE  ViewAgrees
<1> SUFFICES ASSUME SessionQuiet
             PROVE  /\ world.own = wserver.own /\ world.dim = wserver.dim
                    /\ world.mode = wserver.mode /\ world.rain = wserver.rain
                    /\ world.chunks = wserver.chunks
                    /\ WorldMode => /\ KnownEntities = [i \in Remote \ {First} |-> wserver.entities[i]]
                                    /\ task.sim.x = wserver.x
                                    /\ wserver.own = First => task.sim.v = wserver.v
                    /\ ~WorldMode => world.x = wserver.x
  BY DEF ViewAgrees
<1>1. /\ Running /\ up = <<>> /\ down = <<>> /\ task.decode = None /\ ~task.configuring
      /\ (task.sim # None => task.sim.told)
  BY DEF SessionQuiet, Quiet
<1>2. Kept /\ Poses /\ ClientView = ServerView
  BY <1>1, LedNowhere DEF Views
<1>3. /\ ClientView.own = world.own /\ ClientView.dim = world.dim /\ ClientView.mode = world.mode
      /\ ClientView.rain = world.rain
      /\ WorldMode => (ClientView.x # None <=> world.x # None)
      /\ ~WorldMode => ClientView.x = world.x
      /\ ClientView.ents = Known1(world.store)
      /\ ClientView.chunks = world.chunks
  BY <1>1, ViewFields
<1>4. world.own # None
  BY <1>1, <1>2 DEF Kept, KeptBy
<1>5. ~wserver.configuring
  <2>1. wserver.configuring => ServerView.own = None
    BY DEF ServerView, Shows, Blank
  <2> QED BY <1>2, <1>3, <1>4, <2>1
<1>6. /\ ServerView.own = wserver.own /\ ServerView.dim = wserver.dim
      /\ ServerView.mode = wserver.mode /\ ServerView.rain = wserver.rain
      /\ ServerView.x = (IF WorldMode THEN 0 ELSE wserver.x)
      /\ ServerView.v = (IF WorldMode /\ wserver.own = First THEN wserver.v ELSE NoPush)
      /\ ServerView.chunks = wserver.chunks /\ ServerView.ents = Around(wserver.entities)
  BY <1>5, ShownParts
<1>7. ASSUME WorldMode
      PROVE  /\ KnownEntities = [i \in Remote \ {First} |-> wserver.entities[i]]
             /\ task.sim.x = wserver.x
             /\ wserver.own = First => task.sim.v = wserver.v
  <2>1. Placed(world)
    BY <1>2, <1>3, <1>6, <1>7, SessionAssumption DEF Placed
  <2>2. Told2
    BY <1>1, <1>2, <2>1 DEF Kept, KeptBy, Told2
  <2>3. task.sim.x = wserver.x
    <3>1. DOMAIN up = {} /\ NoneOf("position", down)
      BY <1>1 DEF NoneOf
    <3> QED BY <1>2, <1>5, <2>2, <3>1 DEF Poses
  <2>4. wserver.own = First => task.sim.v = wserver.v
    <3>1. ClientView.v = IF Placed(world) /\ world.own = First THEN task.sim.v ELSE NoPush
      BY DEF ClientView, View
    <3> QED BY <1>2, <1>3, <1>6, <1>7, <2>1, <3>1
  <2>5. KnownEntities = [i \in Remote \ {First} |-> wserver.entities[i]]
    BY <1>2, <1>3, <1>6, <1>7 DEF Around, Remote, KnownEntities, Known1
  <2> QED BY <2>3, <2>4, <2>5
<1> QED BY <1>2, <1>3, <1>6, <1>7

-----------------------------------------------------------------------------
\* The world the two sides see.

\* What the client sees of the world, told every packet on its way in turn, is what the
\* server sees, and each of these packets is lawful where it is read: the readers of
\* chat_session.rs change the world (state.rs, entity.rs, chunk.rs) and the simulation
\* (world_movement.rs) by just what the packet says, whatever ticks, decodings, walks and
\* reconfigurations come between.
THEOREM ViewsInductive == Spec => []Views
<1>1. Init => Views
  BY ViewsInit
<1>2. TalkInv /\ Views /\ [Next]_vars => Views'
  BY ViewsStep
<1> QED BY <1>1, <1>2, TalkInductive, PTL DEF Spec

\* Once all is quiet the client's world is the server's: dimension, mode, weather, chunks,
\* entities, position and push (chat_session.rs, run_play_session).
THEOREM ViewsAgree == Spec => []ViewAgrees
<1>1. TalkInv /\ Views => ViewAgrees
  BY QuietAgrees
<1> QED BY <1>1, TalkInductive, ViewsInductive, PTL

\* No packet of a lawful server's world ends the session: apply_position finds no stale
\* teleport and no missing baseline, require (state.rs) no missing world, and spawn and load
\* (entity.rs, chunk.rs) run out of room only if the server crowds the world.
THEOREM OnlyCrowdsEndSessions == Spec => []OnlyCrowdsEnd
<1>1. Views => OnlyCrowdsEnd
  BY DEF Views
<1> QED BY <1>1, ViewsInductive, PTL

-----------------------------------------------------------------------------
\* What fits: a container, a gesture, an inventory, what is said of them.

ContainerFit(c) ==
    /\ c \in Containers
    /\ c.slots = NoSlots \/ c.slots \in Filled(c.menu)
PlayerFit(c) ==
    ContainerFit(c) /\ c.id = PlayerId /\ c.menu = "player" /\ c.slots \in Filled("player")
OpenFit(c) == c # None => ContainerFit(c) /\ c.id # PlayerId /\ c.menu \in Menus
Gestures == [container : Nat, state : Nat, kind : {0, 1, 2}, slots : SUBSET Int]
\* A gesture is over slots of the container it was started in, which is there.
DragFit(player, open, drag) ==
    drag # None =>
        /\ drag \in Gestures
        /\ IF drag.container = PlayerId THEN drag.slots \subseteq DOMAIN player.slots
           ELSE /\ open # None /\ open.id = drag.container
                /\ drag.slots \subseteq DOMAIN open.slots
Selections == 0 .. HotbarSize - 1
InventoryFit(inv) ==
    /\ inv = [player |-> inv.player, open |-> inv.open, selected |-> inv.selected,
              drag |-> inv.drag]
    /\ PlayerFit(inv.player) /\ OpenFit(inv.open) /\ inv.selected \in Selections
    /\ DragFit(inv.player, inv.open, inv.drag)
Owned(inv) == inv.drag # None => inv.drag.state = Container(inv, inv.drag.container).state

\* What a click or a packet leaves of an inventory: what is open, with no slot less.
Kin(new, inv) ==
    /\ InventoryFit(new) /\ (new.open = None) = (inv.open = None)
    /\ inv.open # None => /\ new.open.id = inv.open.id /\ new.open.menu = inv.open.menu
                          /\ DOMAIN inv.open.slots \subseteq DOMAIN new.open.slots
\* What a synchronisation leaves besides: the states, the gesture and the hand.
Undisturbed(new, inv) ==
    /\ Kin(new, inv) /\ new.player.state = inv.player.state /\ new.drag = inv.drag
    /\ new.selected = inv.selected
    /\ inv.open # None => new.open.state = inv.open.state

ClickKinds == {"pickup", "quick_move", "swap", "throw", "pickup_all", "clone", "drag_start",
               "drag_add", "drag_end"}
ClickFit(click) ==
    /\ click \in [container : Nat, state : Nat, kind : ClickKinds, slot : Int, button : Nat,
                  drag : {0, 1, 2}]
    /\ click.kind = "swap" => click.button \in Selections

-----------------------------------------------------------------------------
\* Stacks and sizes.

LEMMA FittingParts ==
  ASSUME NEW s \in Fitting
  PROVE  /\ s.count \in Nat /\ s = [item |-> s.item, count |-> s.count]
         /\ s = Empty <=> s.item = None
         /\ s = Empty <=> s.count = 0
         /\ s # Empty => /\ s.item \in Items /\ s.count \in Nat \ {0} /\ s.item # None
                         /\ s.count <= MaxStack[s.item] /\ MaxStack[s.item] \in Nat \ {0}
<1>1. s \in Stacks /\ (s # Empty => s.count <= MaxStack[s.item])
  BY DEF Fitting
<1>2. CASE s = Empty
  BY <1>2 DEF Empty
<1>3. CASE s # Empty
  <2>1. s \in [item : Items, count : Nat \ {0}]
    BY <1>1, <1>3 DEF Stacks
  <2>2. s.item # None /\ MaxStack[s.item] \in Nat \ {0}
    BY <2>1, InventoryAssumption
  <2> QED BY <1>1, <1>3, <2>1, <2>2
<1> QED BY <1>2, <1>3

LEMMA EmptyFits == Empty \in Fitting
BY DEF Fitting, Stacks

LEMMA StackFits ==
  ASSUME NEW item \in Items, NEW n \in Nat, n <= MaxStack[item]
  PROVE  Stack(item, n) \in Fitting
<1>1. CASE n = 0
  BY <1>1, EmptyFits DEF Stack
<1>2. CASE n # 0
  <2> DEFINE s == [item |-> item, count |-> n]
  <2>1. s \in Stacks /\ s.item = item /\ s.count = n
    BY <1>2 DEF Stacks
  <2>2. s \in Fitting
    <3> HIDE DEF s
    <3> QED BY <2>1 DEF Fitting
  <2> QED BY <1>2, <2>2 DEF Stack
<1> QED BY <1>1, <1>2

\* A stack of the same item with another count.
LEMMA CountFits ==
  ASSUME NEW s \in Fitting, s # Empty, NEW n \in Nat \ {0}, n <= MaxStack[s.item]
  PROVE  [s EXCEPT !.count = n] \in Fitting
<1>1. [s EXCEPT !.count = n] = Stack(s.item, n)
  BY FittingParts DEF Stack
<1> QED BY <1>1, StackFits, FittingParts

LEMMA RoomFits ==
  ASSUME NEW s \in Fitting, s # Empty
  PROVE  Room(s) \in Nat /\ s.count + Room(s) = MaxStack[s.item]
BY FittingParts DEF Room

LEMMA LeastOf ==
  ASSUME NEW a \in Int, NEW b \in Int
  PROVE  Least(a, b) \in {a, b} /\ Least(a, b) <= a /\ Least(a, b) <= b
BY DEF Least

LEMMA Sizes ==
  /\ {GridSize, MainSize, HotbarSize, ChestSize, TailSize} \subseteq Nat \ {0}
  /\ TailSize = MainSize + HotbarSize /\ PlayerMain = GridSize + 2
  /\ Offhand = PlayerMain + TailSize /\ PlayerHotbar = PlayerMain + MainSize
  /\ SizeOf("player") = Offhand + 1 /\ SizeOf("chest") = ChestSize + TailSize
  /\ SizeOf("furnace") = 3 + TailSize /\ SizeOf("crafting") = 1 + GridSize + TailSize
  /\ \A menu \in Menus \cup {"player"} : SizeOf(menu) \in Nat /\ SizeOf(menu) > TailSize
BY InventoryAssumption DEF TailSize, PlayerMain, Helmet, Offhand, PlayerHotbar, SizeOf, Menus

\* The slots of a container: none yet, or those of its menu.
LEMMA SlotsOf ==
  ASSUME NEW c, ContainerFit(c)
  PROVE  /\ c.slots \in [DOMAIN c.slots -> Fitting] /\ DOMAIN c.slots \subseteq Int
         /\ IsFiniteSet(DOMAIN c.slots)
         /\ \/ DOMAIN c.slots = {} /\ c.slots = NoSlots /\ Size(c) = 0
            \/ DOMAIN c.slots = 0 .. SizeOf(c.menu) - 1 /\ Size(c) = SizeOf(c.menu)
         /\ c.carried \in Fitting /\ c.id \in Nat /\ c.state \in Nat
         /\ c.menu \in Menus \cup {"player"}
         /\ c = [id |-> c.id, menu |-> c.menu, state |-> c.state, carried |-> c.carried,
                 slots |-> c.slots]
<1>1. /\ c.carried \in Fitting /\ c.id \in Nat /\ c.state \in Nat
      /\ c.menu \in Menus \cup {"player"}
      /\ c = [id |-> c.id, menu |-> c.menu, state |-> c.state, carried |-> c.carried,
              slots |-> c.slots]
  BY DEF ContainerFit, Containers
<1>2. CASE c.slots = NoSlots
  <2>1. DOMAIN c.slots = {} /\ c.slots \in [{} -> Fitting]
    BY <1>2 DEF NoSlots
  <2>2. Size(c) = 0 /\ IsFiniteSet({})
    BY <2>1, FS_EmptySet DEF Size
  <2> QED BY <1>1, <1>2, <2>1, <2>2
<1>3. CASE c.slots \in Filled(c.menu)
  <2> DEFINE n == SizeOf(c.menu)
  <2>1. n \in Nat /\ c.slots \in [0 .. n - 1 -> Fitting]
    BY <1>1, <1>3, Sizes DEF Filled
  <2> HIDE DEF n
  <2>2. IsFiniteSet(0 .. n - 1) /\ Cardinality(0 .. n - 1) = n
    BY <2>1, FS_Interval
  <2>3. DOMAIN c.slots = 0 .. n - 1
    BY <2>1
  <2> QED BY <1>1, <2>1, <2>2, <2>3 DEF n, Size
<1> QED BY <1>2, <1>3 DEF ContainerFit

\* What a packet leaves of a container: its identity, with no slot less; and what a click
\* leaves: its state and its slots' numbers besides.
Alike(new, c) ==
    /\ ContainerFit(new) /\ new.id = c.id /\ new.menu = c.menu
    /\ DOMAIN c.slots \subseteq DOMAIN new.slots
Reslotted(new, c) ==
    Alike(new, c) /\ new.state = c.state /\ DOMAIN new.slots = DOMAIN c.slots

LEMMA AlikeMade ==
  ASSUME NEW c, ContainerFit(c), NEW new, NEW state \in Nat, NEW carried \in Fitting,
         NEW slots \in [DOMAIN c.slots -> Fitting],
         new = [id |-> c.id, menu |-> c.menu, state |-> state, carried |-> carried,
                slots |-> slots]
  PROVE  Alike(new, c) /\ new.state = state /\ DOMAIN new.slots = DOMAIN c.slots
<1>1. /\ new.id = c.id /\ new.menu = c.menu /\ new.state = state /\ new.carried = carried
      /\ new.slots = slots
  OBVIOUS
<1>2. DOMAIN new.slots = DOMAIN c.slots
  BY <1>1
<1>3. c.id \in Nat /\ c.menu \in Menus \cup {"player"}
  BY SlotsOf
<1>4. CASE c.slots = NoSlots
  <2>1. DOMAIN c.slots = {}
    BY <1>4 DEF NoSlots
  <2>2. slots = NoSlots
    BY <2>1 DEF NoSlots
  <2>3. new \in Containers
    BY <1>3, <2>2 DEF Containers
  <2> QED BY <1>1, <1>2, <2>2, <2>3 DEF Alike, ContainerFit
<1>5. CASE c.slots \in Filled(c.menu)
  <2>1. DOMAIN c.slots = 0 .. SizeOf(c.menu) - 1
    BY <1>5 DEF Filled
  <2>2. slots \in Filled(c.menu)
    BY <2>1 DEF Filled
  <2>3. new \in Containers
    BY <1>3, <2>2 DEF Containers, Menus
  <2> QED BY <1>1, <1>2, <2>2, <2>3 DEF Alike, ContainerFit
<1> QED BY <1>4, <1>5 DEF ContainerFit

\* The same after changes of slots, of the cursor, or of both.
LEMMA ReslottedMade ==
  ASSUME NEW c, ContainerFit(c), NEW carried \in Fitting, NEW slots \in [DOMAIN c.slots -> Fitting]
  PROVE  /\ Reslotted([c EXCEPT !.slots = slots, !.carried = carried], c)
         /\ Reslotted([c EXCEPT !.carried = carried, !.slots = slots], c)
         /\ Reslotted([c EXCEPT !.slots = slots], c) /\ Reslotted([c EXCEPT !.carried = carried], c)
<1>1. /\ c = [id |-> c.id, menu |-> c.menu, state |-> c.state, carried |-> c.carried,
              slots |-> c.slots]
      /\ c.state \in Nat /\ c.carried \in Fitting /\ c.slots \in [DOMAIN c.slots -> Fitting]
  BY SlotsOf
<1> DEFINE Made(k, s) == [id |-> c.id, menu |-> c.menu, state |-> c.state, carried |-> k, slots |-> s]
<1>2. /\ [c EXCEPT !.slots = slots, !.carried = carried] = Made(carried, slots)
      /\ [c EXCEPT !.carried = carried, !.slots = slots] = Made(carried, slots)
      /\ [c EXCEPT !.slots = slots] = Made(c.carried, slots)
      /\ [c EXCEPT !.carried = carried] = Made(carried, c.slots)
  <2>1. c = Made(c.carried, c.slots)
    BY <1>1
  <2>2. \A k, s, x : [Made(k, s) EXCEPT !.slots = x] = Made(k, x)
    OBVIOUS
  <2>3. \A k, s, x : [Made(k, s) EXCEPT !.carried = x] = Made(x, s)
    OBVIOUS
  <2>4. \A d, s, k : /\ [d EXCEPT !.slots = s, !.carried = k]
                         = [[d EXCEPT !.slots = s] EXCEPT !.carried = k]
                     /\ [d EXCEPT !.carried = k, !.slots = s]
                         = [[d EXCEPT !.carried = k] EXCEPT !.slots = s]
    OBVIOUS
  <2> HIDE DEF Made
  <2>5. /\ [c EXCEPT !.slots = slots] = Made(c.carried, slots)
        /\ [c EXCEPT !.carried = carried] = Made(carried, c.slots)
    BY <2>1, <2>2, <2>3
  <2>6. /\ [c EXCEPT !.slots = slots, !.carried = carried] = Made(carried, slots)
        /\ [c EXCEPT !.carried = carried, !.slots = slots] = Made(carried, slots)
    <3>1. [c EXCEPT !.slots = slots, !.carried = carried]
            = [[c EXCEPT !.slots = slots] EXCEPT !.carried = carried]
      BY <2>4
    <3>2. [c EXCEPT !.carried = carried, !.slots = slots]
            = [[c EXCEPT !.carried = carried] EXCEPT !.slots = slots]
      BY <2>4
    <3>3. [Made(c.carried, slots) EXCEPT !.carried = carried] = Made(carried, slots)
      BY <2>3
    <3>4. [Made(carried, c.slots) EXCEPT !.slots = slots] = Made(carried, slots)
      BY <2>2
    <3> QED BY <2>5, <3>1, <3>2, <3>3, <3>4
  <2> QED BY <2>5, <2>6
<1>3. ASSUME NEW k \in Fitting, NEW s \in [DOMAIN c.slots -> Fitting]
      PROVE  Reslotted(Made(k, s), c)
  <2>1. Alike(Made(k, s), c) /\ Made(k, s).state = c.state /\ DOMAIN Made(k, s).slots = DOMAIN c.slots
    BY <1>1, AlikeMade
  <2> QED BY <2>1 DEF Reslotted
<1> HIDE DEF Made
<1> QED BY <1>1, <1>2, <1>3

LEMMA ReslottedSame ==
  ASSUME NEW c, ContainerFit(c)
  PROVE  Reslotted(c, c)
BY DEF Reslotted, Alike

LEMMA OneSlot ==
  ASSUME NEW c, ContainerFit(c), NEW slot \in DOMAIN c.slots, NEW stack \in Fitting
  PROVE  /\ [c.slots EXCEPT ![slot] = stack] \in [DOMAIN c.slots -> Fitting]
         /\ c.slots[slot] \in Fitting
BY SlotsOf

-----------------------------------------------------------------------------
\* Clicks on one slot.

LEMMA PickupFits ==
  ASSUME NEW c, ContainerFit(c), NEW slot, slot = Outside \/ slot \in DOMAIN c.slots, NEW button
  PROVE  Reslotted(Pickup(c, slot, button), c)
<1> DEFINE cursor == c.carried
           there == c.slots[slot]
           Half == (there.count + 1) \div 2
           moved == Least(IF button = 0 THEN cursor.count ELSE 1, Room(there))
           put == IF button = 0 THEN cursor.count ELSE 1
<1>1. cursor \in Fitting /\ (slot \in DOMAIN c.slots => there \in Fitting)
  BY SlotsOf, OneSlot
<1>2. /\ cursor.count \in Nat /\ (cursor # Empty => cursor.item \in Items /\ cursor.count > 0
                                    /\ cursor.count <= MaxStack[cursor.item])
  BY <1>1, FittingParts, SMTT(30)
<1>3. CASE slot = Outside
  <2> DEFINE left == IF button = 0 \/ cursor = Empty THEN Empty
                     ELSE Stack(cursor.item, cursor.count - 1)
  <2>1. left \in Fitting
    <3>1. CASE button = 0 \/ cursor = Empty
      BY <3>1, EmptyFits
    <3>2. CASE ~(button = 0 \/ cursor = Empty)
      <4>1. cursor.count - 1 \in Nat /\ cursor.count - 1 <= MaxStack[cursor.item]
            /\ cursor.item \in Items
        BY <1>1, <3>2, FittingParts
      <4> QED BY <3>2, <4>1, StackFits
    <3> QED BY <3>1, <3>2
  <2>2. Pickup(c, slot, button) = [c EXCEPT !.carried = left]
    BY <1>3 DEF Pickup
  <2> HIDE DEF left
  <2>3. c.slots \in [DOMAIN c.slots -> Fitting]
    BY SlotsOf
  <2> QED BY <2>1, <2>2, <2>3, ReslottedMade
<1>4. CASE slot # Outside
  <2>1. slot \in DOMAIN c.slots /\ there \in Fitting
    BY <1>1, <1>4
  <2>2. /\ there.count \in Nat
        /\ there # Empty => /\ there.item \in Items /\ there.count > 0
                            /\ there.count <= MaxStack[there.item]
                            /\ MaxStack[there.item] \in Nat
    BY <2>1, FittingParts, SMTT(30)
  <2>3. ASSUME NEW carried \in Fitting, NEW stack \in Fitting
        PROVE  Reslotted([c EXCEPT !.carried = carried, !.slots[slot] = stack], c)
    <3> DEFINE slots == [c.slots EXCEPT ![slot] = stack]
    <3>1. slots \in [DOMAIN c.slots -> Fitting]
      BY <2>1, <2>3, OneSlot
    <3>2. [c EXCEPT !.carried = carried, !.slots[slot] = stack] = [c EXCEPT !.carried = carried, !.slots = slots]
      BY SlotsOf
    <3> HIDE DEF slots
    <3> QED BY <2>3, <3>1, <3>2, ReslottedMade
  <2>4. CASE cursor = Empty
    <3>1. CASE button = 0
      <4>1. Pickup(c, slot, button) = [c EXCEPT !.carried = there, !.slots[slot] = Empty]
        BY <1>4, <2>4, <3>1 DEF Pickup
      <4> QED BY <2>1, <2>3, <4>1, EmptyFits
    <3>2. CASE button # 0
      <4>1. Pickup(c, slot, button) = [c EXCEPT !.carried = Stack(there.item, Half),
                                         !.slots[slot] = Stack(there.item, there.count - Half)]
        BY <1>4, <2>4, <3>2 DEF Pickup
      <4>2. Stack(there.item, Half) \in Fitting /\ Stack(there.item, there.count - Half) \in Fitting
        <5>1. CASE there = Empty
          <6>1. there.count = 0
            BY <2>1, <5>1, FittingParts
          <6>2. Half = 0 /\ there.count - Half = 0
            BY <6>1
          <6> QED BY <6>2, EmptyFits DEF Stack
        <5>2. CASE there # Empty
          <6>1. Half \in Nat /\ Half <= there.count /\ there.count - Half \in Nat
                /\ there.count - Half <= there.count
            BY <2>2, <5>2
          <6> HIDE DEF Half, there
          <6> QED BY <2>2, <5>2, <6>1, StackFits
        <5> QED BY <5>1, <5>2
      <4> QED BY <2>3, <4>1, <4>2
    <3> QED BY <3>1, <3>2
  <2>5. CASE cursor # Empty /\ there = Empty
    <3>1. Pickup(c, slot, button) = [c EXCEPT !.carried = Stack(cursor.item, cursor.count - put),
                                              !.slots[slot] = Stack(cursor.item, put)]
      BY <1>4, <2>5 DEF Pickup
    <3>2. put \in Nat /\ put <= cursor.count /\ cursor.count - put \in Nat
          /\ cursor.count - put <= cursor.count /\ MaxStack[cursor.item] \in Nat
      BY <1>1, <1>2, <2>5, FittingParts
    <3>3. Stack(cursor.item, cursor.count - put) \in Fitting /\ Stack(cursor.item, put) \in Fitting
      <4> HIDE DEF put, cursor
      <4> QED BY <1>2, <2>5, <3>2, StackFits
    <3>4. PICK a \in Fitting, b \in Fitting :
            a = Stack(cursor.item, cursor.count - put) /\ b = Stack(cursor.item, put)
      BY <3>3
    <3>5. Pickup(c, slot, button) = [c EXCEPT !.carried = a, !.slots[slot] = b]
      BY <3>1, <3>4
    <3> QED BY <2>3, <3>5
  <2>6. CASE cursor # Empty /\ there # Empty /\ there.item = cursor.item
    <3>1. Pickup(c, slot, button) = [c EXCEPT !.carried = Stack(cursor.item, cursor.count - moved),
                                              !.slots[slot] = Stack(there.item, there.count + moved)]
      BY <1>4, <2>6 DEF Pickup
    <3>2. Room(there) \in Nat /\ there.count + Room(there) = MaxStack[there.item]
      BY <2>1, <2>6, RoomFits
    <3>3. moved \in Nat /\ moved <= put /\ moved <= Room(there) /\ put <= cursor.count
      BY <1>2, <2>6, <3>2, LeastOf
    <3>4. cursor.count - moved \in Nat /\ cursor.count - moved <= MaxStack[cursor.item]
          /\ there.count + moved \in Nat /\ there.count + moved <= MaxStack[there.item]
      <4> HIDE DEF moved, put, cursor, there
      <4>1. put \in Nat
        BY <1>2 DEF put
      <4> QED BY <1>2, <2>2, <2>6, <3>2, <3>3, <4>1
    <3>5. Stack(cursor.item, cursor.count - moved) \in Fitting
          /\ Stack(there.item, there.count + moved) \in Fitting
      <4> HIDE DEF moved, cursor, there
      <4> QED BY <1>2, <2>2, <2>6, <3>4, StackFits
    <3>6. PICK a \in Fitting, b \in Fitting :
            a = Stack(cursor.item, cursor.count - moved)
            /\ b = Stack(there.item, there.count + moved)
      BY <3>5
    <3>7. Pickup(c, slot, button) = [c EXCEPT !.carried = a, !.slots[slot] = b]
      BY <3>1, <3>6
    <3> QED BY <2>3, <3>7
  <2>7. CASE cursor # Empty /\ there # Empty /\ there.item # cursor.item
    <3>1. Pickup(c, slot, button) = [c EXCEPT !.carried = there, !.slots[slot] = cursor]
      BY <1>4, <2>7 DEF Pickup
    <3> QED BY <1>1, <2>1, <2>3, <3>1
  <2> QED BY <2>4, <2>5, <2>6, <2>7
<1> QED BY <1>3, <1>4

LEMMA SwapFits ==
  ASSUME NEW c, ContainerFit(c), NEW slot \in DOMAIN c.slots, NEW button \in 0 .. HotbarSize - 1
  PROVE  Reslotted(SwapHotbar(c, slot, button), c)
<1> DEFINE other == (IF c.menu = "player" THEN PlayerHotbar ELSE Size(c) - HotbarSize) + button
           slots == [c.slots EXCEPT ![slot] = c.slots[other], ![other] = c.slots[slot]]
<1>1. DOMAIN c.slots = 0 .. SizeOf(c.menu) - 1 /\ Size(c) = SizeOf(c.menu)
      /\ c.menu \in Menus \cup {"player"}
  <2>1. DOMAIN c.slots # {}
    OBVIOUS
  <2> QED BY <2>1, SlotsOf
<1>2. other \in DOMAIN c.slots
  <2>1. CASE c.menu = "player"
    <3>1. /\ HotbarSize \in Nat /\ PlayerHotbar \in Nat /\ Offhand = PlayerHotbar + HotbarSize
          /\ SizeOf(c.menu) = Offhand + 1
      BY <2>1, Sizes DEF TailSize, PlayerMain, PlayerHotbar, Offhand, Helmet
    <3>2. other = PlayerHotbar + button
      BY <2>1
    <3> HIDE DEF other
    <3> QED BY <1>1, <3>1, <3>2
  <2>2. CASE c.menu # "player"
    <3>1. /\ SizeOf(c.menu) \in Nat /\ SizeOf(c.menu) > TailSize
          /\ HotbarSize \in Nat /\ MainSize \in Nat /\ TailSize = MainSize + HotbarSize
      BY <1>1, Sizes
    <3>2. other = SizeOf(c.menu) - HotbarSize + button
      BY <1>1, <2>2
    <3> HIDE DEF other
    <3> QED BY <1>1, <3>1, <3>2
  <2> QED BY <2>1, <2>2
<1> HIDE DEF other
<1>3. slots \in [DOMAIN c.slots -> Fitting]
  <2>1. c.slots \in [DOMAIN c.slots -> Fitting]
    BY SlotsOf
  <2> QED BY <1>2, <2>1
<1>4. SwapHotbar(c, slot, button) = [c EXCEPT !.slots = slots]
  BY DEF SwapHotbar, other
<1> HIDE DEF slots
<1>5. c.carried \in Fitting
  BY SlotsOf, SMTT(30)
<1> QED BY <1>3, <1>4, <1>5, ReslottedMade

LEMMA CloneFits ==
  ASSUME NEW c, ContainerFit(c), NEW slot \in DOMAIN c.slots
  PROVE  Reslotted(CloneStack(c, slot), c)
<1> DEFINE there == c.slots[slot]
           copy == IF there = Empty THEN Empty ELSE [there EXCEPT !.count = MaxStack[there.item]]
<1>1. there \in Fitting
  BY SlotsOf
<1>2. copy \in Fitting
  <2>1. CASE there = Empty
    BY <2>1, EmptyFits
  <2>2. CASE there # Empty
    <3>1. MaxStack[there.item] \in Nat \ {0}
      BY <1>1, <2>2, FittingParts
    <3> HIDE DEF there
    <3> QED BY <1>1, <2>2, <3>1, CountFits
  <2> QED BY <2>1, <2>2
<1>3. CloneStack(c, slot) = [c EXCEPT !.carried = copy]
  BY DEF CloneStack
<1> HIDE DEF copy
<1>4. c.slots \in [DOMAIN c.slots -> Fitting]
  BY SlotsOf, SMTT(30)
<1> QED BY <1>2, <1>3, <1>4, ReslottedMade

LEMMA ThrowFits ==
  ASSUME NEW c, ContainerFit(c), NEW slot \in DOMAIN c.slots, NEW button
  PROVE  Reslotted(Throw(c, slot, button), c)
<1> DEFINE there == c.slots[slot]
           left == IF button = 1 \/ there = Empty THEN Empty ELSE Stack(there.item, there.count - 1)
           slots == [c.slots EXCEPT ![slot] = left]
<1>1. there \in Fitting
  BY SlotsOf
<1>2. left \in Fitting
  <2>1. CASE button = 1 \/ there = Empty
    BY <2>1, EmptyFits
  <2>2. CASE ~(button = 1 \/ there = Empty)
    <3>1. there.count - 1 \in Nat /\ there.count - 1 <= MaxStack[there.item] /\ there.item \in Items
      BY <1>1, <2>2, FittingParts
    <3> QED BY <2>2, <3>1, StackFits
  <2> QED BY <2>1, <2>2
<1>3. Throw(c, slot, button) = [c EXCEPT !.slots = slots]
  BY SlotsOf DEF Throw
<1>4. slots \in [DOMAIN c.slots -> Fitting]
  <2> HIDE DEF left
  <2> QED BY <1>2, OneSlot
<1> HIDE DEF slots
<1>5. c.carried \in Fitting
  BY SlotsOf
<1> QED BY <1>3, <1>4, <1>5, ReslottedMade

-----------------------------------------------------------------------------
\* Folds over sequences whose steps stay in a set.

LEMMA MergesStay ==
  ASSUME NEW route, NEW S, S = DOMAIN route, S \subseteq Int, IsFiniteSet(S),
         NEW X, NEW state \in X, \A x \in X, i \in S : Merge(x, route[i]) \in X
  PROVE  FoldLeft(Merge, state, route) \in X
<1> DEFINE g == [p \in S \X X |-> Merge(p[2], route[p[1]])]
<1>1. g \in [S \X X -> X]
  OBVIOUS
<1>2. \A i \in S, x \in X : g[<<i, x>>] = Merge(x, route[i])
  OBVIOUS
<1> HIDE DEF g
<1>3. PICK h : Folds(h, SUBSET S, state, g) /\ \A s \in SUBSET S : h[s] \in X
  BY <1>1, FoldExists
<1> DEFINE Runs(f) == f = [s \in SUBSET S |-> IF s = {} THEN state
                                            ELSE Merge(f[s \ {Max(s)}], route[Max(s)])]
<1>4. Runs(h)
  <2>1. \A s \in SUBSET S : s # {} =>
          g[<<Max(s), h[s \ {Max(s)}]>>] = Merge(h[s \ {Max(s)}], route[Max(s)])
    BY <1>2, <1>3, Greatest
  <2> QED BY <1>3, <2>1 DEF Folds
<1> DEFINE k == CHOOSE f : Runs(f)
<1>5. Runs(k)
  <2> HIDE DEF Runs
  <2> QED BY <1>4
<1>6. FoldLeft(Merge, state, route) = k[S]
  BY Zenon DEF FoldLeft, MapThenFoldSet
<1> HIDE DEF k
<1>7. k[S] \in X
  <2>1. k[{}] \in X
    BY <1>5
  <2>2. ASSUME NEW s \in SUBSET S, s # {}, k[s \ {Max(s)}] \in X PROVE k[s] \in X
    <3>1. k[s] = Merge(k[s \ {Max(s)}], route[Max(s)])
      BY <1>5, <2>2
    <3> HIDE DEF Runs
    <3>2. Max(s) \in S
      BY <2>2, Greatest
    <3> QED BY <2>2, <3>1, <3>2
  <2> HIDE DEF Runs
  <2> QED BY <2>1, <2>2, StaysIn
<1> QED BY <1>6, <1>7

LEMMA MovesStay ==
  ASSUME NEW routes, NEW S, S = DOMAIN routes, S \subseteq Int, IsFiniteSet(S),
         NEW X, NEW state \in X, \A x \in X, i \in S : MoveTo(x, routes[i]) \in X
  PROVE  FoldLeft(MoveTo, state, routes) \in X
<1> DEFINE g == [p \in S \X X |-> MoveTo(p[2], routes[p[1]])]
<1>1. g \in [S \X X -> X]
  OBVIOUS
<1>2. \A i \in S, x \in X : g[<<i, x>>] = MoveTo(x, routes[i])
  OBVIOUS
<1> HIDE DEF g
<1>3. PICK h : Folds(h, SUBSET S, state, g) /\ \A s \in SUBSET S : h[s] \in X
  BY <1>1, FoldExists
<1> DEFINE Runs(f) == f = [s \in SUBSET S |-> IF s = {} THEN state
                                            ELSE MoveTo(f[s \ {Max(s)}], routes[Max(s)])]
<1>4. Runs(h)
  <2>1. \A s \in SUBSET S : s # {} =>
          g[<<Max(s), h[s \ {Max(s)}]>>] = MoveTo(h[s \ {Max(s)}], routes[Max(s)])
    BY <1>2, <1>3, Greatest
  <2> QED BY <1>3, <2>1 DEF Folds
<1> DEFINE k == CHOOSE f : Runs(f)
<1>5. Runs(k)
  <2> HIDE DEF Runs
  <2> QED BY <1>4
<1>6. FoldLeft(MoveTo, state, routes) = k[S]
  BY Zenon DEF FoldLeft, MapThenFoldSet
<1> HIDE DEF k
<1>7. k[S] \in X
  <2>1. k[{}] \in X
    BY <1>5
  <2>2. ASSUME NEW s \in SUBSET S, s # {}, k[s \ {Max(s)}] \in X PROVE k[s] \in X
    <3>1. k[s] = MoveTo(k[s \ {Max(s)}], routes[Max(s)])
      BY <1>5, <2>2
    <3> HIDE DEF Runs
    <3>2. Max(s) \in S
      BY <2>2, Greatest
    <3> QED BY <2>2, <3>1, <3>2
  <2> HIDE DEF Runs
  <2> QED BY <2>1, <2>2, StaysIn
<1> QED BY <1>6, <1>7

LEMMA PassStays ==
  ASSUME NEW c, NEW full, NEW S, S = DOMAIN Upward(0, Size(c)), S \subseteq Int, IsFiniteSet(S),
         NEW X, c \in X,
         \A x \in X, i \in S : Collected(x, Upward(0, Size(c))[i], full, Output(c.menu)) \in X
  PROVE  Pass(c, full) \in X
<1> DEFINE seq == Upward(0, Size(c))
           output == Output(c.menu)
<1> HIDE DEF seq, output
<1>0. S = DOMAIN seq /\ \A x \in X, i \in S : Collected(x, seq[i], full, output) \in X
  BY DEF seq, output
<1> DEFINE g == [p \in S \X X |-> Collected(p[2], seq[p[1]], full, output)]
<1>1. g \in [S \X X -> X]
  BY <1>0
<1>2. \A i \in S, x \in X : g[<<i, x>>] = Collected(x, seq[i], full, output)
  OBVIOUS
<1> HIDE DEF g
<1>3. PICK h : Folds(h, SUBSET S, c, g) /\ \A s \in SUBSET S : h[s] \in X
  BY <1>1, FoldExists
<1> DEFINE Runs(f) == f = [s \in SUBSET S |-> IF s = {} THEN c
                             ELSE Collected(f[s \ {Max(s)}], seq[Max(s)], full, output)]
<1>4. Runs(h)
  <2>1. \A s \in SUBSET S : s # {} => g[<<Max(s), h[s \ {Max(s)}]>>]
                                        = Collected(h[s \ {Max(s)}], seq[Max(s)], full, output)
    BY <1>2, <1>3, Greatest
  <2> QED BY <1>3, <2>1 DEF Folds
<1> DEFINE k == CHOOSE f : Runs(f)
<1>5. Runs(k)
  <2> HIDE DEF Runs
  <2> QED BY <1>4
<1>6. Pass(c, full) = k[S]
  BY Zenon, <1>0 DEF Pass, FoldLeft, MapThenFoldSet, seq, output
<1> HIDE DEF k
<1>7. k[S] \in X
  <2>1. k[{}] \in X
    BY <1>5
  <2>2. ASSUME NEW s \in SUBSET S, s # {}, k[s \ {Max(s)}] \in X PROVE k[s] \in X
    <3>1. k[s] = Collected(k[s \ {Max(s)}], seq[Max(s)], full, output)
      BY <1>5, <2>2
    <3> HIDE DEF Runs
    <3>2. Max(s) \in S
      BY <2>2, Greatest
    <3> QED BY <1>0, <2>2, <3>1, <3>2
  <2> HIDE DEF Runs
  <2> QED BY <2>1, <2>2, StaysIn
<1> QED BY <1>6, <1>7

\* The fold of Spread: ascending over the slots of a gesture.
SpreadOver(base, S, item, share, free) ==
    MapThenFoldSet(LAMBDA i, s : SpreadTo(s, i, item, share, free), base, LAMBDA i : i, Max, S)
LEMMA SpreadsStay ==
  ASSUME NEW S, S \subseteq Int, IsFiniteSet(S), NEW item, NEW share, NEW free,
         NEW X, NEW base \in X, \A x \in X, i \in S : SpreadTo(x, i, item, share, free) \in X
  PROVE  SpreadOver(base, S, item, share, free) \in X
<1> DEFINE g == [p \in S \X X |-> SpreadTo(p[2], p[1], item, share, free)]
<1>1. g \in [S \X X -> X]
  OBVIOUS
<1>2. \A i \in S, x \in X : g[<<i, x>>] = SpreadTo(x, i, item, share, free)
  OBVIOUS
<1> HIDE DEF g
<1>3. PICK h : Folds(h, SUBSET S, base, g) /\ \A s \in SUBSET S : h[s] \in X
  BY <1>1, FoldExists
<1> DEFINE Runs(f) == f = [s \in SUBSET S |-> IF s = {} THEN base
                             ELSE SpreadTo(f[s \ {Max(s)}], Max(s), item, share, free)]
<1>4. Runs(h)
  <2>1. \A s \in SUBSET S : s # {} => g[<<Max(s), h[s \ {Max(s)}]>>]
                                        = SpreadTo(h[s \ {Max(s)}], Max(s), item, share, free)
    BY <1>2, <1>3, Greatest
  <2> QED BY <1>3, <2>1 DEF Folds
<1> DEFINE k == CHOOSE f : Runs(f)
<1>5. Runs(k)
  <2> HIDE DEF Runs
  <2> QED BY <1>4
<1>6. SpreadOver(base, S, item, share, free) = k[S]
  BY Zenon DEF SpreadOver, MapThenFoldSet
<1> HIDE DEF k
<1>7. k[S] \in X
  <2>1. k[{}] \in X
    BY <1>5
  <2>2. ASSUME NEW s \in SUBSET S, s # {}, k[s \ {Max(s)}] \in X PROVE k[s] \in X
    <3>1. k[s] = SpreadTo(k[s \ {Max(s)}], Max(s), item, share, free)
      BY <1>5, <2>2
    <3> HIDE DEF Runs
    <3>2. Max(s) \in S
      BY <2>2, Greatest
    <3> QED BY <2>2, <3>1, <3>2
  <2> HIDE DEF Runs
  <2> QED BY <2>1, <2>2, StaysIn
<1> QED BY <1>6, <1>7

-----------------------------------------------------------------------------
\* Clicks that visit several slots.

LEMMA RoutesUp ==
  ASSUME NEW D, NEW first \in Int, NEW end \in Int, first <= end, first .. end - 1 \subseteq D
  PROVE  /\ Upward(first, end) \in Seq(D) /\ Downward(first, end) \in Seq(D)
         /\ DOMAIN Upward(first, end) = 1 .. end - first
<1> DEFINE n == end - first
<1>1. n \in Nat
  OBVIOUS
<1>2. \A i \in 1 .. n : first + i - 1 \in D
  OBVIOUS
<1>3. Upward(first, end) = [i \in 1 .. n |-> first + i - 1]
  BY DEF Upward
<1> HIDE DEF n
<1>4. Upward(first, end) \in [1 .. n -> D]
  BY <1>2, <1>3
<1>5. Upward(first, end) \in Seq(D) /\ Len(Upward(first, end)) = n
  BY <1>1, <1>4
<1>6. Downward(first, end) \in [1 .. n -> D]
  <2>1. Downward(first, end) = [i \in 1 .. n |-> Upward(first, end)[(n - i) + 1]]
    BY <1>5 DEF Downward, Reverse
  <2>2. \A i \in 1 .. n : (n - i) + 1 \in 1 .. n
    BY <1>1
  <2> QED BY <1>4, <2>1, <2>2
<1> QED BY <1>1, <1>4, <1>5, <1>6 DEF n

Movings(D, item) ==
    [slots : [D -> Fitting], moving : [item : {item}, count : 0 .. MaxStack[item]]]

LEMMA MergeFits ==
  ASSUME NEW D, NEW item \in Items, NEW state \in Movings(D, item), NEW i \in D
  PROVE  Merge(state, i) \in Movings(D, item)
<1> DEFINE there == state.slots[i]
           count == state.moving.count
           n == IF there.item = state.moving.item THEN Least(count, Room(there)) ELSE 0
           slots == [state.slots EXCEPT ![i].count = @ + n]
           moving == [state.moving EXCEPT !.count = @ - n]
<1>1. /\ state.slots \in [D -> Fitting] /\ there \in Fitting /\ state.moving.item = item
      /\ count \in Nat /\ count <= MaxStack[item] /\ MaxStack[item] \in Nat /\ item # None
      /\ state.moving \in [item : {item}, count : 0 .. MaxStack[item]]
  BY InventoryAssumption DEF Movings
<1>2. /\ n \in Nat /\ n <= count
      /\ [there EXCEPT !.count = there.count + n] \in Fitting
  <2>1. CASE there.item # item
    <3>1. n = 0 /\ there.count + n = there.count
      BY <1>1, <2>1, FittingParts
    <3>2. [there EXCEPT !.count = there.count] = there
      BY <1>1, FittingParts
    <3> HIDE DEF n, there, count
    <3> QED BY <1>1, <3>1, <3>2
  <2>2. CASE there.item = item
    <3>1. there # Empty
      BY <1>1, <2>2, FittingParts
    <3>2. Room(there) \in Nat /\ there.count + Room(there) = MaxStack[there.item]
          /\ there.count \in Nat \ {0}
      BY <1>1, <3>1, RoomFits, FittingParts
    <3>3. n \in {count, Room(there)} /\ n <= count /\ n <= Room(there)
      BY <1>1, <2>2, <3>2, LeastOf
    <3> HIDE DEF n, there, count
    <3>4. n \in Nat /\ there.count + n \in Nat \ {0} /\ there.count + n <= MaxStack[there.item]
      BY <1>1, <3>2, <3>3
    <3>5. [there EXCEPT !.count = there.count + n] \in Fitting
      BY <1>1, <3>1, <3>4, CountFits
    <3> QED BY <3>3, <3>4, <3>5
  <2> QED BY <2>1, <2>2
<1>3. slots = [state.slots EXCEPT ![i] = [there EXCEPT !.count = there.count + n]]
  OBVIOUS
<1>4. slots \in [D -> Fitting]
  <2> HIDE DEF n, there
  <2>1. \A x \in Fitting : [state.slots EXCEPT ![i] = x] \in [D -> Fitting]
    BY <1>1
  <2> HIDE DEF slots
  <2> QED BY <1>2, <1>3, <2>1
<1>5. moving \in [item : {item}, count : 0 .. MaxStack[item]]
  <2>1. count - n \in 0 .. MaxStack[item]
    <3> HIDE DEF n, count
    <3> QED BY <1>1, <1>2
  <2> HIDE DEF n
  <2>2. moving = [item |-> item, count |-> count - n]
    BY <1>1
  <2> HIDE DEF moving, count
  <2> QED BY <2>1, <2>2
<1>6. Merge(state, i) = [slots |-> slots, moving |-> moving]
  BY DEF Merge
<1> HIDE DEF slots, moving
<1> QED BY <1>4, <1>5, <1>6 DEF Movings

LEMMA MoveToFits ==
  ASSUME NEW D, NEW item \in Items, NEW state \in Movings(D, item), NEW route \in Seq(D)
  PROVE  MoveTo(state, route) \in Movings(D, item)
<1> DEFINE merged == FoldLeft(Merge, state, route)
<1>1. DOMAIN route = 1 .. Len(route) /\ Len(route) \in Nat
  OBVIOUS
<1>2. DOMAIN route \subseteq Int /\ IsFiniteSet(DOMAIN route)
  BY <1>1, FS_Interval
<1>3. merged \in Movings(D, item)
  <2>1. \A i \in DOMAIN route : route[i] \in D
    OBVIOUS
  <2>2. \A x \in Movings(D, item), i \in DOMAIN route : Merge(x, route[i]) \in Movings(D, item)
    BY <2>1, MergeFits
  <2> QED BY <1>2, <2>2, MergesStay
<1>4. MoveTo(state, route) = PlaceRest(merged, route)
  BY DEF MoveTo
<1> HIDE DEF merged
<1> DEFINE free == SelectInSeq(route, LAMBDA i : merged.slots[i] = Empty)
<1>5. free = 0 \/ free \in DOMAIN route
  <2> DEFINE I == {i \in 1 .. Len(route) : merged.slots[route[i]] = Empty}
  <2>1. free = IF I # {} THEN Min(I) ELSE 0
    BY DEF SelectInSeq
  <2>2. I # {} => Min(I) \in I
    <3>1. I \subseteq Nat
      BY <1>1
    <3> HIDE DEF I
    <3> QED BY <3>1, Smallest
  <2> QED BY <1>1, <2>1, <2>2
<1>6. PlaceRest(merged, route)
        = IF merged.moving.count = 0 \/ free = 0 THEN merged
          ELSE [slots |-> [merged.slots EXCEPT ![route[free]] = merged.moving],
                moving |-> [merged.moving EXCEPT !.count = 0]]
  BY DEF PlaceRest
<1> HIDE DEF free
<1>7. CASE merged.moving.count = 0 \/ free = 0
  BY <1>3, <1>4, <1>6, <1>7
<1>8. CASE ~(merged.moving.count = 0 \/ free = 0)
  <2>1. /\ merged.slots \in [D -> Fitting] /\ route[free] \in D
        /\ merged.moving \in [item : {item}, count : 0 .. MaxStack[item]]
        /\ merged.moving.count \in Nat \ {0} /\ merged.moving.count <= MaxStack[item]
    BY <1>3, <1>5, <1>8 DEF Movings
  <2>2. merged.moving \in Fitting
    <3>1. merged.moving = Stack(item, merged.moving.count)
      BY <2>1 DEF Stack
    <3> QED BY <2>1, <3>1, StackFits
  <2>3. [merged.slots EXCEPT ![route[free]] = merged.moving] \in [D -> Fitting]
    BY <2>1, <2>2
  <2>4. [merged.moving EXCEPT !.count = 0] \in [item : {item}, count : 0 .. MaxStack[item]]
    <3>1. MaxStack[item] \in Nat
      BY InventoryAssumption
    <3> QED BY <2>1, <3>1
  <2> QED BY <1>4, <1>6, <1>8, <2>3, <2>4 DEF Movings
<1> QED BY <1>7, <1>8

LEMMA Single ==
  ASSUME NEW T, NEW r \in T
  PROVE  <<r>> \in Seq(T)
OBVIOUS

LEMMA RoutesFit ==
  ASSUME NEW c, ContainerFit(c), NEW slot \in DOMAIN c.slots, NEW item
  PROVE  Routes(c, slot, item) \in Seq(Seq(DOMAIN c.slots))
<1> DEFINE D == DOMAIN c.slots
           size == SizeOf(c.menu)
           main == TailStart(c)
           hotbar == main + MainSize
           end == hotbar + HotbarSize
<1>1. D = 0 .. size - 1 /\ Size(c) = size /\ c.menu \in Menus \cup {"player"}
  <2>1. DOMAIN c.slots # {}
    OBVIOUS
  <2> QED BY <2>1, SlotsOf
<1>2. /\ MainSize \in Nat \ {0} /\ HotbarSize \in Nat \ {0} /\ GridSize \in Nat \ {0}
      /\ ChestSize \in Nat \ {0} /\ TailSize = MainSize + HotbarSize
  BY Sizes
<1>3. /\ main \in Nat \ {0} /\ size \in Nat /\ end <= size
      /\ c.menu = "player" => Helmet \in D /\ Offhand \in D
      /\ c.menu = "furnace" => 0 \in D /\ 1 \in D
  <2>1. CASE c.menu = "player"
    <3>1. main = GridSize + 2 /\ size = GridSize + 2 + TailSize + 1
      BY <1>2, <2>1 DEF TailStart, SizeOf, Offhand, PlayerHotbar, PlayerMain, Helmet, TailSize
    <3>2. Helmet = GridSize + 1 /\ Offhand = GridSize + 2 + TailSize
      BY <1>2 DEF Offhand, PlayerHotbar, PlayerMain, Helmet, TailSize
    <3> QED BY <1>1, <1>2, <2>1, <3>1, <3>2
  <2>2. CASE c.menu = "chest"
    <3>1. main = ChestSize /\ size = ChestSize + TailSize
      BY <1>1, <1>2, <2>2 DEF TailStart, SizeOf
    <3> QED BY <1>1, <1>2, <2>2, <3>1
  <2>3. CASE c.menu = "furnace"
    <3>1. main = 3 /\ size = 3 + TailSize
      BY <1>1, <1>2, <2>3 DEF TailStart, SizeOf
    <3> QED BY <1>1, <1>2, <2>3, <3>1
  <2>4. CASE c.menu = "crafting"
    <3>1. main = 1 + GridSize /\ size = 1 + GridSize + TailSize
      BY <1>1, <1>2, <2>4 DEF TailStart, SizeOf
    <3> QED BY <1>1, <1>2, <2>4, <3>1
  <2> QED BY <1>1, <2>1, <2>2, <2>3, <2>4 DEF Menus
<1>4. \A r \in Seq(D) : <<r>> \in Seq(Seq(D))
  BY Single
<1>5. \A p \in Seq(Seq(D)), r \in Seq(D) : Append(p, r) \in Seq(Seq(D))
  OBVIOUS
<1>6. /\ Upward(hotbar, end) \in Seq(D) /\ Upward(main, hotbar) \in Seq(D)
      /\ Upward(main, end) \in Seq(D) /\ Upward(0, main) \in Seq(D)
      /\ Downward(main, end) \in Seq(D)
  <2>1. /\ main \in Int /\ hotbar \in Int /\ end \in Int /\ 0 <= main /\ main <= hotbar
        /\ hotbar <= end /\ main <= end
        /\ hotbar .. end - 1 \subseteq D /\ main .. hotbar - 1 \subseteq D
        /\ main .. end - 1 \subseteq D /\ 0 .. main - 1 \subseteq D
    <3> HIDE DEF main, size, D
    <3> QED BY <1>1, <1>2, <1>3 DEF D
  <2> HIDE DEF hotbar, end, main, D
  <2> QED BY <2>1, RoutesUp
<1>7. CASE c.menu = "player"
  <2>1. EquipmentRoute(c, item) \in Seq(Seq(D))
    <3>1. \A p \in D : <<<<p>>>> \in Seq(Seq(D))
      BY <1>4, Single
    <3>2. <<>> \in Seq(Seq(D))
      OBVIOUS
    <3> HIDE DEF D
    <3> QED BY <1>3, <1>7, <3>1, <3>2 DEF EquipmentRoute
  <2>2. Routes(c, slot, item) \in {Append(EquipmentRoute(c, item), Upward(hotbar, end)),
                                   <<Upward(main, hotbar)>>, <<Downward(main, end)>>}
    BY <1>7 DEF Routes
  <2> HIDE DEF D, hotbar, end, main
  <2> QED BY <1>4, <1>5, <1>6, <2>1, <2>2 DEF D
<1>8. CASE c.menu = "furnace"
  <2>1. FurnaceRoute(item) \in Seq(Seq(D))
    <3>1. \A p \in D : <<<<p>>>> \in Seq(Seq(D))
      BY <1>4, Single
    <3>2. <<>> \in Seq(Seq(D))
      OBVIOUS
    <3> HIDE DEF D
    <3> QED BY <1>3, <1>8, <3>1, <3>2 DEF FurnaceRoute
  <2>2. Routes(c, slot, item) \in {Append(FurnaceRoute(item), Upward(hotbar, end)),
                                   Append(FurnaceRoute(item), Upward(main, hotbar)),
                                   <<Downward(main, end)>>}
    BY <1>8 DEF Routes
  <2> HIDE DEF D, hotbar, end, main
  <2> QED BY <1>4, <1>5, <1>6, <2>1, <2>2 DEF D
<1>9. CASE c.menu = "crafting"
  <2>1. Routes(c, slot, item) \in {<<Upward(hotbar, end)>>, <<Upward(main, hotbar)>>,
                                   <<Downward(main, end)>>, <<Upward(main, end)>>}
    BY <1>9 DEF Routes
  <2> HIDE DEF D, hotbar, end, main
  <2> QED BY <1>4, <1>6, <2>1 DEF D
<1>10. CASE c.menu = "chest"
  <2>1. Routes(c, slot, item) \in {<<Downward(main, end)>>, <<Upward(0, main)>>}
    BY <1>10 DEF Routes
  <2> HIDE DEF D, hotbar, end, main
  <2> QED BY <1>4, <1>6, <2>1 DEF D
<1> QED BY <1>1, <1>7, <1>8, <1>9, <1>10 DEF Menus

LEMMA QuickMoveFits ==
  ASSUME NEW c, ContainerFit(c), NEW slot \in DOMAIN c.slots
  PROVE  Reslotted(QuickMove(c, slot), c)
<1> DEFINE D == DOMAIN c.slots
           moving == c.slots[slot]
           bare == [slots |-> [c.slots EXCEPT ![slot] = Empty], moving |-> moving]
           end == FoldLeft(MoveTo, bare, Routes(c, slot, moving.item))
           slots == IF end.moving.count = 0 THEN end.slots ELSE [end.slots EXCEPT ![slot] = end.moving]
<1>1. c.slots \in [D -> Fitting] /\ moving \in Fitting
  BY SlotsOf
<1>2. QuickMove(c, slot) = IF moving = Empty THEN c ELSE [c EXCEPT !.slots = slots]
  BY DEF QuickMove
<1>3. CASE moving = Empty
  BY <1>2, <1>3, ReslottedSame, SMTT(30)
<1>4. CASE moving # Empty
  <2> DEFINE item == moving.item
             X == Movings(D, item)
             routes == Routes(c, slot, item)
  <2>1. item \in Items /\ moving.count \in Nat /\ moving.count <= MaxStack[item]
        /\ moving = [item |-> item, count |-> moving.count]
    BY <1>1, <1>4, FittingParts
  <2>2. bare \in X
    <3>1. [c.slots EXCEPT ![slot] = Empty] \in [D -> Fitting]
      BY OneSlot, EmptyFits
    <3>2. moving \in [item : {item}, count : 0 .. MaxStack[item]]
      <4>1. moving.count \in 0 .. MaxStack[item]
        BY <2>1, InventoryAssumption
      <4> HIDE DEF moving
      <4> QED BY <2>1, <4>1
    <3> QED BY <3>1, <3>2 DEF Movings
  <2>3. routes \in Seq(Seq(D))
    BY RoutesFit
  <2>4. end = FoldLeft(MoveTo, bare, routes)
    OBVIOUS
  <2> HIDE DEF routes, X, bare, item
  <2>5. /\ DOMAIN routes = 1 .. Len(routes) /\ Len(routes) \in Nat
        /\ \A i \in DOMAIN routes : routes[i] \in Seq(D)
    BY <2>3
  <2>6. DOMAIN routes \subseteq Int /\ IsFiniteSet(DOMAIN routes)
    BY <2>5, FS_Interval
  <2>7. \A x \in X, i \in DOMAIN routes : MoveTo(x, routes[i]) \in X
    BY <2>1, <2>5, MoveToFits DEF X
  <2>8. end \in X
    BY <2>2, <2>4, <2>6, <2>7, MovesStay
  <2>9. slots \in [D -> Fitting]
    <3>1. /\ end.slots \in [D -> Fitting]
          /\ end.moving \in [item : {item}, count : 0 .. MaxStack[item]]
      BY <2>8 DEF X, Movings
    <3> HIDE DEF end
    <3>2. CASE end.moving.count = 0
      BY <3>1, <3>2
    <3>3. CASE end.moving.count # 0
      <4>1. end.moving = Stack(item, end.moving.count) /\ end.moving.count \in Nat
            /\ end.moving.count <= MaxStack[item]
        BY <3>1, <3>3, <2>1, InventoryAssumption DEF Stack
      <4>2. end.moving \in Fitting
        BY <2>1, <4>1, StackFits
      <4> QED BY <3>1, <3>3, <4>2
    <3> QED BY <3>2, <3>3
  <2>10. c.carried \in Fitting
    BY SlotsOf
  <2>11. QuickMove(c, slot) = [c EXCEPT !.slots = slots]
    BY <1>2, <1>4
  <2> HIDE DEF slots, moving
  <2> QED BY <2>9, <2>10, <2>11, ReslottedMade
<1> QED BY <1>3, <1>4

Collectings(c) ==
    [id : {c.id}, menu : {c.menu}, state : {c.state}, slots : [DOMAIN c.slots -> Fitting],
     carried : Fitting \ {Empty}]

LEMMA CollectedFits ==
  ASSUME NEW c, NEW x \in Collectings(c), NEW i \in DOMAIN c.slots, NEW full, NEW output
  PROVE  Collected(x, i, full, output) \in Collectings(c)
<1> DEFINE D == DOMAIN c.slots
           there == x.slots[i]
           cursor == x.carried
           n == Least(there.count, Room(cursor))
           less == Stack(there.item, there.count - n)
           more == [cursor EXCEPT !.count = @ + n]
<1>1. /\ x.slots \in [D -> Fitting] /\ there \in Fitting /\ cursor \in Fitting /\ cursor # Empty
      /\ x = [id |-> c.id, menu |-> c.menu, state |-> c.state, slots |-> x.slots,
              carried |-> x.carried]
  BY DEF Collectings
<1>2. CASE \/ i = output \/ there.item # cursor.item \/ cursor.count = MaxStack[cursor.item]
           \/ (there.count = MaxStack[there.item]) # full
  <2>1. Collected(x, i, full, output) = x
    BY <1>2 DEF Collected
  <2> QED BY <2>1
<1>3. CASE ~(\/ i = output \/ there.item # cursor.item \/ cursor.count = MaxStack[cursor.item]
             \/ (there.count = MaxStack[there.item]) # full)
  <2>1. there # Empty
    BY <1>1, <1>3, FittingParts
  <2>2. /\ there.count \in Nat \ {0} /\ there.count <= MaxStack[there.item]
        /\ there.item \in Items /\ MaxStack[there.item] \in Nat
        /\ cursor.count \in Nat \ {0}
    BY <1>1, <2>1, FittingParts
  <2>3. Room(cursor) \in Nat /\ cursor.count + Room(cursor) = MaxStack[cursor.item]
    BY <1>1, RoomFits
  <2>4. n \in {there.count, Room(cursor)} /\ n <= there.count /\ n <= Room(cursor)
    BY <2>2, <2>3, LeastOf
  <2>5. less \in Fitting
    <3>1. there.count - n \in Nat /\ there.count - n <= MaxStack[there.item]
      <4> HIDE DEF n, there, cursor
      <4> QED BY <2>2, <2>3, <2>4
    <3> QED BY <2>2, <3>1, StackFits
  <2>6. more \in Fitting /\ more # Empty
    <3>1. cursor.count + n \in Nat \ {0} /\ cursor.count + n <= MaxStack[cursor.item]
      <4> HIDE DEF n, there, cursor
      <4> QED BY <2>2, <2>3, <2>4
    <3> HIDE DEF n
    <3>2. more = [cursor EXCEPT !.count = cursor.count + n]
      OBVIOUS
    <3>3. more \in Fitting
      <4> HIDE DEF cursor
      <4> QED BY <1>1, <3>1, <3>2, CountFits
    <3>4. more.count = cursor.count + n
      <4>1. cursor = [item |-> cursor.item, count |-> cursor.count]
        BY <1>1, FittingParts
      <4> HIDE DEF cursor
      <4> QED BY <3>2, <4>1
    <3>5. more.count # 0
      BY <3>1, <3>4
    <3> HIDE DEF more
    <3> QED BY <3>3, <3>5, FittingParts
  <2>7. Collected(x, i, full, output)
          = [id |-> c.id, menu |-> c.menu, state |-> c.state,
             slots |-> [x.slots EXCEPT ![i] = less], carried |-> more]
    <3>1. Collected(x, i, full, output)
            = [x EXCEPT !.slots[i] = Stack(@.item, @.count - n), !.carried.count = @ + n]
      BY <1>3 DEF Collected
    <3> DEFINE Made(ss, k) == [id |-> c.id, menu |-> c.menu, state |-> c.state, slots |-> ss,
                               carried |-> k]
    <3>2. [x EXCEPT !.slots[i] = Stack(@.item, @.count - n), !.carried.count = @ + n]
            = [x EXCEPT !.slots[i] = less, !.carried.count = cursor.count + n]
      OBVIOUS
    <3> HIDE DEF less, n
    <3>3. [x EXCEPT !.slots[i] = less, !.carried.count = cursor.count + n]
            = [id |-> c.id, menu |-> c.menu, state |-> c.state,
               slots |-> [x.slots EXCEPT ![i] = less],
               carried |-> [x.carried EXCEPT !.count = cursor.count + n]]
      <4> DEFINE b == cursor.count + n
                 y == [x EXCEPT !.slots = [x.slots EXCEPT ![i] = less]]
      <4> HIDE DEF b
      <4>1. y = [id |-> c.id, menu |-> c.menu, state |-> c.state,
                 slots |-> [x.slots EXCEPT ![i] = less], carried |-> x.carried]
        BY <1>1
      <4>2. [x EXCEPT !.slots[i] = less, !.carried.count = b]
              = [y EXCEPT !.carried = [y.carried EXCEPT !.count = b]]
        OBVIOUS
      <4> HIDE DEF y
      <4>3. [y EXCEPT !.carried = [y.carried EXCEPT !.count = b]]
              = [id |-> c.id, menu |-> c.menu, state |-> c.state,
                 slots |-> [x.slots EXCEPT ![i] = less], carried |-> [x.carried EXCEPT !.count = b]]
        BY <4>1
      <4> QED BY <4>2, <4>3 DEF b
    <3> QED BY <3>1, <3>2, <3>3
  <2>8. [x.slots EXCEPT ![i] = less] \in [D -> Fitting]
    <3> HIDE DEF less
    <3> QED BY <1>1, <2>5
  <2> HIDE DEF less, more
  <2> QED BY <2>6, <2>7, <2>8 DEF Collectings
<1> QED BY <1>2, <1>3

LEMMA PickupAllFits ==
  ASSUME NEW c, ContainerFit(c)
  PROVE  Reslotted(PickupAll(c), c)
<1>1. CASE c.carried = Empty
  <2>1. PickupAll(c) = c
    BY <1>1 DEF PickupAll
  <2> QED BY <2>1, ReslottedSame
<1>2. CASE c.carried # Empty
  <2> DEFINE X == Collectings(c)
             D == DOMAIN c.slots
  <2>1. /\ c.slots \in [D -> Fitting] /\ c.carried \in Fitting /\ Size(c) \in Nat
        /\ D = 0 .. Size(c) - 1
        /\ c = [id |-> c.id, menu |-> c.menu, state |-> c.state, carried |-> c.carried,
                slots |-> c.slots]
    <3>1. c.menu \in Menus \cup {"player"} /\ SizeOf(c.menu) \in Nat
      BY SlotsOf, Sizes
    <3>2. Size(c) \in Nat /\ D = 0 .. Size(c) - 1
      <4>1. CASE D = {} /\ Size(c) = 0
        <5>1. 0 .. 0 - 1 = {}
          OBVIOUS
        <5> QED BY <4>1, <5>1
      <4>2. CASE D = 0 .. SizeOf(c.menu) - 1 /\ Size(c) = SizeOf(c.menu)
        BY <3>1, <4>2
      <4> QED BY <4>1, <4>2, SlotsOf
    <3> QED BY <3>2, SlotsOf
  <2>2. c \in X
    BY <1>2, <2>1 DEF Collectings
  <2>3. ASSUME NEW x \in X, NEW full PROVE Pass(x, full) \in X
    <3>1. DOMAIN x.slots = D
      BY DEF Collectings
    <3>2. Size(x) = Size(c)
      BY <3>1 DEF Size
    <3> DEFINE seq == Upward(0, Size(x))
    <3>3. seq \in Seq(D) /\ DOMAIN seq = 1 .. Size(c) - 0
      <4>1. 0 .. Size(c) - 1 \subseteq D /\ 0 <= Size(c) /\ Size(c) \in Int /\ 0 \in Int
        BY <2>1
      <4> HIDE DEF D
      <4> QED BY <3>2, <4>1, RoutesUp
    <3>4. DOMAIN seq \subseteq Int /\ IsFiniteSet(DOMAIN seq)
      <4>1. Size(c) - 0 = Size(c)
        BY <2>1
      <4> QED BY <2>1, <3>3, <4>1, FS_Interval
    <3>5. \A y \in X, i \in DOMAIN seq : Collected(y, seq[i], full, Output(x.menu)) \in X
      <4>1. \A i \in DOMAIN seq : seq[i] \in DOMAIN c.slots
        BY <3>3
      <4> HIDE DEF seq
      <4> QED BY <4>1, CollectedFits
    <3> HIDE DEF X
    <3> QED BY <3>4, <3>5, PassStays
  <2>4. PickupAll(c) \in X
    <3>1. Pass(c, FALSE) \in X
      BY <2>2, <2>3
    <3>2. Pass(Pass(c, FALSE), TRUE) \in X
      BY <2>3, <3>1
    <3> QED BY <1>2, <3>2 DEF PickupAll
  <2>5. PICK new \in X : new = PickupAll(c)
    BY <2>4
  <2>6. /\ new.slots \in [D -> Fitting] /\ new.carried \in Fitting
        /\ new = [id |-> c.id, menu |-> c.menu, state |-> c.state, carried |-> new.carried,
                  slots |-> new.slots]
    BY DEF Collectings
  <2>7. c.state \in Nat
    BY SlotsOf
  <2>8. Alike(new, c) /\ new.state = c.state /\ DOMAIN new.slots = DOMAIN c.slots
    BY <2>6, <2>7, AlikeMade
  <2> QED BY <2>5, <2>8 DEF Reslotted
<1> QED BY <1>1, <1>2

Spreadings(c) == [slots : [DOMAIN c.slots -> Fitting], left : 0 .. c.carried.count]

LEMMA SpreadToFits ==
  ASSUME NEW c, c.carried.count \in Nat, NEW s \in Spreadings(c), NEW i \in DOMAIN c.slots,
         NEW item \in Items, NEW share \in Nat, NEW free
  PROVE  SpreadTo(s, i, item, share, free) \in Spreadings(c)
<1> DEFINE there == s.slots[i]
           room == IF there = Empty THEN MaxStack[item]
                   ELSE IF there.item = item THEN Room(there) ELSE 0
           n == IF free THEN Least(share, room) ELSE Least(Least(share, room), s.left)
           more == Stack(item, there.count + n)
<1>1. /\ s.slots \in [DOMAIN c.slots -> Fitting] /\ there \in Fitting
      /\ s.left \in Nat /\ s.left <= c.carried.count /\ MaxStack[item] \in Nat
  BY InventoryAssumption DEF Spreadings
<1>2. there.count \in Nat
  BY <1>1, FittingParts
<1>3. room \in Nat /\ (there.item = item \/ there = Empty => there.count + room = MaxStack[item])
      /\ (~(there.item = item \/ there = Empty) => room = 0)
  <2>1. CASE there = Empty
    BY <1>1, <2>1, FittingParts
  <2>2. CASE there # Empty
    BY <1>1, <2>2, RoomFits
  <2> QED BY <2>1, <2>2
<1>4. n \in Nat /\ n <= room /\ (~free => n <= s.left)
  <2> HIDE DEF room, there
  <2>1. Least(share, room) \in Nat /\ Least(share, room) <= room
    BY <1>3, LeastOf
  <2>2. ~free => n = Least(Least(share, room), s.left)
    OBVIOUS
  <2>3. free => n = Least(share, room)
    OBVIOUS
  <2> DEFINE m == Least(share, room)
  <2>4. Least(m, s.left) \in {m, s.left} /\ Least(m, s.left) <= m /\ Least(m, s.left) <= s.left
    BY <1>1, <2>1, LeastOf
  <2> HIDE DEF m
  <2>5. m \in Nat /\ m <= room
    BY <2>1 DEF m
  <2>6. CASE free
    BY <2>3, <2>5, <2>6 DEF m
  <2>7. CASE ~free
    <3>1. n = Least(m, s.left)
      BY <2>2, <2>7 DEF m
    <3> HIDE DEF n
    <3> QED BY <1>1, <1>3, <2>4, <2>5, <2>7, <3>1
  <2> QED BY <2>6, <2>7
<1>5. CASE n = 0
  <2>1. SpreadTo(s, i, item, share, free) = s
    BY <1>5 DEF SpreadTo
  <2> QED BY <2>1
<1>6. CASE n # 0
  <2>1. there.item = item \/ there = Empty
    <3> HIDE DEF n, room
    <3> QED BY <1>3, <1>4, <1>6
  <2>2. there.count + n \in Nat /\ there.count + n <= MaxStack[item]
    <3> HIDE DEF n, room, there
    <3> QED BY <1>1, <1>2, <1>3, <1>4, <2>1
  <2>3. more \in Fitting
    <3> HIDE DEF n, there
    <3> QED BY <2>2, StackFits
  <2>4. [s.slots EXCEPT ![i] = more] \in [DOMAIN c.slots -> Fitting]
    <3> HIDE DEF more
    <3> QED BY <1>1, <2>3
  <2>5. (IF free THEN s.left ELSE s.left - n) \in 0 .. c.carried.count
    <3> HIDE DEF n
    <3> QED BY <1>1, <1>4
  <2>6. SpreadTo(s, i, item, share, free)
          = [slots |-> [s.slots EXCEPT ![i] = more], left |-> IF free THEN s.left ELSE s.left - n]
    BY <1>6 DEF SpreadTo
  <2> HIDE DEF more, n
  <2> QED BY <2>4, <2>5, <2>6 DEF Spreadings
<1> QED BY <1>5, <1>6

LEMMA Shares ==
  ASSUME NEW a \in Nat, NEW b \in Nat, b # 0
  PROVE  a \div b \in Nat
OBVIOUS

LEMMA SpreadFits ==
  ASSUME NEW c, ContainerFit(c), NEW drag, drag.kind \in {0, 1, 2},
         drag.slots \subseteq DOMAIN c.slots
  PROVE  Reslotted(Spread(c, drag), c)
<1>1. /\ c.slots \in [DOMAIN c.slots -> Fitting] /\ c.carried \in Fitting
      /\ DOMAIN c.slots \subseteq Int /\ IsFiniteSet(DOMAIN c.slots)
  BY SlotsOf
<1>2. CASE c.carried = Empty \/ drag.slots = {}
  <2>1. Spread(c, drag) = c
    BY <1>2 DEF Spread
  <2> QED BY <2>1, ReslottedSame
<1>3. CASE ~(c.carried = Empty \/ drag.slots = {})
  <2> DEFINE item == c.carried.item
             share == Share(c, drag)
             S == drag.slots
             base == [slots |-> c.slots, left |-> c.carried.count]
             end == SpreadOver(base, S, item, share, drag.kind = 2)
             left == Stack(item, end.left)
  <2>1. item \in Items /\ c.carried.count \in Nat \ {0} /\ c.carried.count <= MaxStack[item]
        /\ MaxStack[item] \in Nat
    BY <1>1, <1>3, FittingParts
  <2>2. S \subseteq Int /\ IsFiniteSet(S)
    BY <1>1, FS_Subset
  <2>3. share \in Nat
    <3>1. Cardinality(S) \in Nat /\ Cardinality(S) # 0
      BY <1>3, <2>2, FS_CardinalityType, FS_EmptySet
    <3>2. c.carried.count \div Cardinality(S) \in Nat
      BY <2>1, <3>1, Shares
    <3> QED BY <2>1, <3>2 DEF Share
  <2>4. base \in Spreadings(c)
    BY <1>1, <2>1 DEF Spreadings
  <2>5. Spread(c, drag) = [c EXCEPT !.slots = end.slots, !.carried = left]
    <3>1. Spread(c, drag) = [c EXCEPT !.slots = end.slots, !.carried = Stack(@.item, end.left)]
      BY <1>3 DEF Spread, SpreadOver
    <3> HIDE DEF end
    <3>2. \A x : x = [id |-> c.id, menu |-> c.menu, state |-> c.state, carried |-> x.carried,
                      slots |-> x.slots] =>
            [x EXCEPT !.slots = end.slots, !.carried = Stack(@.item, end.left)]
              = [x EXCEPT !.slots = end.slots, !.carried = Stack(x.carried.item, end.left)]
      OBVIOUS
    <3>3. c = [id |-> c.id, menu |-> c.menu, state |-> c.state, carried |-> c.carried,
               slots |-> c.slots]
      BY SlotsOf
    <3> QED BY <3>1, <3>2, <3>3
  <2>6. end \in Spreadings(c)
    <3> DEFINE free == (drag.kind = 2)
    <3>1. \A x \in Spreadings(c), i \in S : SpreadTo(x, i, item, share, free) \in Spreadings(c)
      <4> HIDE DEF share, item
      <4> QED BY <2>1, <2>3, SpreadToFits
    <3>2. end = SpreadOver(base, S, item, share, free)
      OBVIOUS
    <3> HIDE DEF share, item, base, end, free
    <3> QED BY <2>2, <2>4, <3>1, <3>2, SpreadsStay
  <2> HIDE DEF end
  <2>7. end.slots \in [DOMAIN c.slots -> Fitting] /\ end.left \in Nat /\ end.left <= c.carried.count
    BY <2>1, <2>6 DEF Spreadings
  <2>8. left \in Fitting
    <3>1. end.left <= MaxStack[item]
      <4> HIDE DEF item
      <4> QED BY <2>1, <2>7
    <3> QED BY <2>1, <2>7, <3>1, StackFits
  <2> HIDE DEF left
  <2> DEFINE slots == end.slots
  <2>9. Spread(c, drag) = [c EXCEPT !.slots = slots, !.carried = left]
    BY <2>5
  <2>10. slots \in [DOMAIN c.slots -> Fitting]
    BY <2>7, SMTT(30)
  <2> HIDE DEF slots
  <2>11. Reslotted([c EXCEPT !.slots = slots, !.carried = left], c)
    BY <2>8, <2>10, ReslottedMade
  <2> QED BY <2>9, <2>11
<1> QED BY <1>2, <1>3

-----------------------------------------------------------------------------
\* Inventories: what is stored, opened, closed and synchronised.

LEMMA NoContainer ==
  ASSUME NEW c, ContainerFit(c)
  PROVE  c # None
BY ExchangeAssumption DEF ContainerFit

LEMMA InventoryMade ==
  ASSUME NEW player, PlayerFit(player), NEW open, OpenFit(open), NEW selected \in Selections,
         NEW drag, DragFit(player, open, drag), NEW new,
         new = [player |-> player, open |-> open, selected |-> selected, drag |-> drag]
  PROVE  InventoryFit(new)
<1>1. new.player = player /\ new.open = open /\ new.selected = selected /\ new.drag = drag
  OBVIOUS
<1> QED BY <1>1 DEF InventoryFit

\* An inventory with one part replaced.
LEMMA InventoryParts ==
  ASSUME NEW inv, InventoryFit(inv)
  PROVE  /\ \A p : [inv EXCEPT !.player = p]
               = [player |-> p, open |-> inv.open, selected |-> inv.selected, drag |-> inv.drag]
         /\ \A o : [inv EXCEPT !.open = o]
               = [player |-> inv.player, open |-> o, selected |-> inv.selected, drag |-> inv.drag]
         /\ \A s : [inv EXCEPT !.selected = s]
               = [player |-> inv.player, open |-> inv.open, selected |-> s, drag |-> inv.drag]
         /\ \A d : [inv EXCEPT !.drag = d]
               = [player |-> inv.player, open |-> inv.open, selected |-> inv.selected, drag |-> d]
<1>1. inv = [player |-> inv.player, open |-> inv.open, selected |-> inv.selected,
             drag |-> inv.drag]
  BY DEF InventoryFit
<1> QED BY <1>1

LEMMA PlayerReplaced ==
  ASSUME NEW inv, InventoryFit(inv), NEW p, Alike(p, inv.player)
  PROVE  /\ Kin([inv EXCEPT !.player = p], inv)
         /\ p.state = inv.player.state => Undisturbed([inv EXCEPT !.player = p], inv)
         /\ [inv EXCEPT !.player = p].player = p /\ [inv EXCEPT !.player = p].open = inv.open
         /\ [inv EXCEPT !.player = p].drag = inv.drag
<1> DEFINE new == [inv EXCEPT !.player = p]
<1>1. /\ new = [player |-> p, open |-> inv.open, selected |-> inv.selected, drag |-> inv.drag]
      /\ new.player = p /\ new.open = inv.open /\ new.drag = inv.drag
      /\ new.selected = inv.selected
  <2>1. new = [player |-> p, open |-> inv.open, selected |-> inv.selected, drag |-> inv.drag]
    BY InventoryParts
  <2> HIDE DEF new
  <2> QED BY <2>1
<1>2. PlayerFit(p)
  <2>1. ContainerFit(p) /\ p.id = PlayerId /\ p.menu = "player"
        /\ DOMAIN inv.player.slots \subseteq DOMAIN p.slots /\ PlayerFit(inv.player)
    BY DEF InventoryFit, PlayerFit, Alike
  <2>2. p.slots # NoSlots
    <3>1. DOMAIN inv.player.slots = 0 .. SizeOf("player") - 1 /\ SizeOf("player") \in Nat \ {0}
      <4>1. SizeOf("player") \in Nat /\ SizeOf("player") > TailSize /\ TailSize \in Nat
        BY Sizes
      <4>2. SizeOf("player") \in Nat \ {0}
        BY <4>1
      <4> QED BY <2>1, <4>2 DEF PlayerFit, Filled
    <3>2. 0 \in DOMAIN p.slots
      BY <2>1, <3>1
    <3> QED BY <3>2 DEF NoSlots
  <2> QED BY <2>1, <2>2 DEF PlayerFit, ContainerFit
<1>3. OpenFit(inv.open) /\ inv.selected \in Selections /\ DragFit(p, inv.open, inv.drag)
  BY DEF InventoryFit, DragFit, Alike
<1> HIDE DEF new
<1>4. InventoryFit(new)
  BY <1>1, <1>2, <1>3, InventoryMade
<1> QED BY <1>1, <1>4 DEF new, Kin, Undisturbed

LEMMA OpenReplaced ==
  ASSUME NEW inv, InventoryFit(inv), inv.open # None, NEW c, Alike(c, inv.open)
  PROVE  /\ Kin([inv EXCEPT !.open = c], inv)
         /\ c.state = inv.open.state => Undisturbed([inv EXCEPT !.open = c], inv)
         /\ [inv EXCEPT !.open = c].open = c /\ [inv EXCEPT !.open = c].player = inv.player
         /\ [inv EXCEPT !.open = c].drag = inv.drag
<1> DEFINE new == [inv EXCEPT !.open = c]
<1>1. /\ new = [player |-> inv.player, open |-> c, selected |-> inv.selected, drag |-> inv.drag]
      /\ new.player = inv.player /\ new.open = c /\ new.drag = inv.drag
      /\ new.selected = inv.selected
  <2>1. new = [player |-> inv.player, open |-> c, selected |-> inv.selected, drag |-> inv.drag]
    BY InventoryParts
  <2> HIDE DEF new
  <2> QED BY <2>1
<1>2. OpenFit(c) /\ c # None
  <2>1. ContainerFit(c)
    BY DEF Alike
  <2>2. c # None
    BY <2>1, NoContainer
  <2> QED BY <2>2 DEF InventoryFit, OpenFit, Alike
<1>3. PlayerFit(inv.player) /\ inv.selected \in Selections /\ DragFit(inv.player, c, inv.drag)
  BY <1>2 DEF InventoryFit, DragFit, Alike
<1> HIDE DEF new
<1>4. InventoryFit(new)
  BY <1>1, <1>2, <1>3, InventoryMade
<1> QED BY <1>1, <1>2, <1>4 DEF new, Kin, Undisturbed, Alike

LEMMA Kinship ==
  ASSUME NEW a, NEW b, NEW c
  PROVE  /\ Kin(a, b) /\ Kin(b, c) => Kin(a, c)
         /\ Undisturbed(a, b) /\ Undisturbed(b, c) => Undisturbed(a, c)
         /\ Undisturbed(a, b) => Kin(a, b)
         /\ InventoryFit(a) => Undisturbed(a, a)
BY DEF Kin, Undisturbed

LEMMA UndisturbedOwned ==
  ASSUME NEW new, NEW inv, InventoryFit(inv), Undisturbed(new, inv), Owned(inv)
  PROVE  Owned(new)
<1>1. CASE inv.drag = None
  BY <1>1 DEF Owned, Undisturbed
<1>2. CASE inv.drag # None
  <2>1. new.drag = inv.drag /\ inv.drag.state = Container(inv, inv.drag.container).state
    BY <1>2 DEF Owned, Undisturbed
  <2>2. inv.drag.container # PlayerId => inv.open # None
    BY <1>2 DEF InventoryFit, DragFit
  <2>3. Container(new, inv.drag.container).state = Container(inv, inv.drag.container).state
    BY <2>2 DEF Container, Undisturbed
  <2> QED BY <2>1, <2>3 DEF Owned
<1> QED BY <1>1, <1>2

LEMMA ContainerOf ==
  ASSUME NEW inv, InventoryFit(inv), NEW id, Known(inv, id)
  PROVE  /\ ContainerFit(Container(inv, id)) /\ Container(inv, id).id = id
         /\ Container(inv, id) \in {inv.player, inv.open}
BY DEF InventoryFit, PlayerFit, OpenFit, Known, Container

LEMMA SetContainerFits ==
  ASSUME NEW inv, InventoryFit(inv), NEW c, Known(inv, c.id), Alike(c, Container(inv, c.id))
  PROVE  /\ Kin(SetContainer(inv, c), inv)
         /\ c.state = Container(inv, c.id).state => Undisturbed(SetContainer(inv, c), inv)
         /\ Container(SetContainer(inv, c), c.id) = c /\ SetContainer(inv, c).drag = inv.drag
         /\ c.id = PlayerId => SetContainer(inv, c).open = inv.open
         /\ c.id # PlayerId => SetContainer(inv, c).player = inv.player
<1>1. CASE c.id = PlayerId
  <2>1. Alike(c, inv.player) /\ SetContainer(inv, c) = [inv EXCEPT !.player = c]
    BY <1>1 DEF Container, SetContainer
  <2>2. /\ Kin([inv EXCEPT !.player = c], inv)
        /\ c.state = inv.player.state => Undisturbed([inv EXCEPT !.player = c], inv)
        /\ [inv EXCEPT !.player = c].player = c /\ [inv EXCEPT !.player = c].open = inv.open
        /\ [inv EXCEPT !.player = c].drag = inv.drag
    BY <2>1, PlayerReplaced
  <2> QED BY <1>1, <2>1, <2>2 DEF Container
<1>2. CASE c.id # PlayerId
  <2>1. Alike(c, inv.open) /\ SetContainer(inv, c) = [inv EXCEPT !.open = c] /\ inv.open # None
    BY <1>2 DEF Container, SetContainer, Known
  <2>2. /\ Kin([inv EXCEPT !.open = c], inv)
        /\ c.state = inv.open.state => Undisturbed([inv EXCEPT !.open = c], inv)
        /\ [inv EXCEPT !.open = c].open = c /\ [inv EXCEPT !.open = c].player = inv.player
        /\ [inv EXCEPT !.open = c].drag = inv.drag
    BY <2>1, OpenReplaced
  <2> QED BY <1>2, <2>1, <2>2 DEF Container
<1> QED BY <1>1, <1>2

LEMMA CursorPut ==
  ASSUME NEW c, ContainerFit(c), NEW carried \in Fitting
  PROVE  Alike([c EXCEPT !.carried = carried], c) /\ [c EXCEPT !.carried = carried].state = c.state
<1>1. c.slots \in [DOMAIN c.slots -> Fitting]
  BY SlotsOf, SMTT(30)
<1>2. Reslotted([c EXCEPT !.carried = carried], c)
  BY <1>1, ReslottedMade
<1> QED BY <1>2 DEF Reslotted

LEMMA PlayerCursorPut ==
  ASSUME NEW inv, InventoryFit(inv), NEW carried \in Fitting
  PROVE  /\ Undisturbed([inv EXCEPT !.player.carried = carried], inv)
         /\ [inv EXCEPT !.player.carried = carried].open = inv.open
         /\ [inv EXCEPT !.player.carried = carried].player
              = [inv.player EXCEPT !.carried = carried]
<1> DEFINE p == [inv.player EXCEPT !.carried = carried]
<1>1. Alike(p, inv.player) /\ p.state = inv.player.state
  BY CursorPut DEF InventoryFit, PlayerFit
<1>2. [inv EXCEPT !.player.carried = carried] = [inv EXCEPT !.player = p]
  OBVIOUS
<1> HIDE DEF p
<1>3. /\ Undisturbed([inv EXCEPT !.player = p], inv) /\ [inv EXCEPT !.player = p].player = p
      /\ [inv EXCEPT !.player = p].open = inv.open
  BY <1>1, PlayerReplaced
<1> QED BY <1>2, <1>3 DEF p

LEMMA OpenCursorPut ==
  ASSUME NEW inv, InventoryFit(inv), inv.open # None, NEW carried \in Fitting
  PROVE  /\ Undisturbed([inv EXCEPT !.open.carried = carried], inv)
         /\ [inv EXCEPT !.open.carried = carried].player = inv.player
<1> DEFINE c == [inv.open EXCEPT !.carried = carried]
<1>1. Alike(c, inv.open) /\ c.state = inv.open.state
  BY CursorPut DEF InventoryFit, OpenFit
<1>2. [inv EXCEPT !.open.carried = carried] = [inv EXCEPT !.open = c]
  OBVIOUS
<1> HIDE DEF c
<1>3. /\ Undisturbed([inv EXCEPT !.open = c], inv) /\ [inv EXCEPT !.open = c].player = inv.player
  BY <1>1, OpenReplaced
<1> QED BY <1>2, <1>3

\* The tail of an open menu, as slots of the player.
LEMMA TailPut ==
  ASSUME NEW inv, InventoryFit(inv), NEW slots \in [DOMAIN inv.player.slots -> Fitting]
  PROVE  /\ Undisturbed([inv EXCEPT !.player.slots = slots], inv)
         /\ [inv EXCEPT !.player.slots = slots].open = inv.open
         /\ [inv EXCEPT !.player.slots = slots].player.slots = slots
         /\ [inv EXCEPT !.player.slots = slots].player.carried = inv.player.carried
<1> DEFINE p == [inv.player EXCEPT !.slots = slots]
<1>1. ContainerFit(inv.player) /\ inv.player.carried \in Fitting
  BY SlotsOf DEF InventoryFit, PlayerFit
<1>2. Alike(p, inv.player) /\ p.state = inv.player.state
  BY <1>1, ReslottedMade DEF Reslotted
<1>3. [inv EXCEPT !.player.slots = slots] = [inv EXCEPT !.player = p]
  OBVIOUS
<1>4. p.slots = slots /\ p.carried = inv.player.carried
  <2>1. inv.player = [id |-> inv.player.id, menu |-> inv.player.menu, state |-> inv.player.state,
                      carried |-> inv.player.carried, slots |-> inv.player.slots]
    BY <1>1, SlotsOf
  <2> QED BY <2>1
<1> HIDE DEF p
<1>5. /\ Undisturbed([inv EXCEPT !.player = p], inv) /\ [inv EXCEPT !.player = p].player = p
      /\ [inv EXCEPT !.player = p].open = inv.open
  BY <1>2, PlayerReplaced
<1> QED BY <1>3, <1>4, <1>5

LEMMA SynchronizedFits ==
  ASSUME NEW inv, InventoryFit(inv), NEW id
  PROVE  Undisturbed(Synchronized(inv, id), inv)
<1>1. CASE inv.open = None
  <2>1. Synchronized(inv, id) = inv
    BY <1>1 DEF Synchronized
  <2> QED BY <2>1, Kinship
<1>2. CASE inv.open # None /\ id = PlayerId
  <2>1. Synchronized(inv, id) = [inv EXCEPT !.open.carried = inv.player.carried]
    BY <1>2 DEF Synchronized
  <2>2. inv.player.carried \in Fitting
    BY SlotsOf DEF InventoryFit, PlayerFit
  <2> DEFINE k == inv.player.carried
  <2>3. Synchronized(inv, id) = [inv EXCEPT !.open.carried = k] /\ k \in Fitting
    BY <2>1, <2>2
  <2> HIDE DEF k
  <2>4. Undisturbed([inv EXCEPT !.open.carried = k], inv)
    BY <1>2, <2>3, OpenCursorPut
  <2> QED BY <2>3, <2>4
<1>3. CASE inv.open # None /\ id # PlayerId
  <2> DEFINE k == inv.open.carried
             cursor == [inv EXCEPT !.player.carried = k]
             first == TailStart(inv.open)
             slots == [i \in DOMAIN cursor.player.slots |->
                         IF i \in PlayerMain .. PlayerMain + TailSize - 1
                         THEN inv.open.slots[first + i - PlayerMain] ELSE cursor.player.slots[i]]
  <2>1. /\ ContainerFit(inv.open) /\ k \in Fitting /\ inv.open.menu \in Menus
        /\ inv.open.slots \in [DOMAIN inv.open.slots -> Fitting]
    BY <1>3, SlotsOf DEF InventoryFit, OpenFit
  <2>2. Undisturbed(cursor, inv) /\ cursor.open = inv.open
    <3> HIDE DEF k
    <3> QED BY <2>1, PlayerCursorPut
  <2>3. Synchronized(inv, id) = IF Size(inv.open) < TailSize THEN cursor
                                ELSE [cursor EXCEPT !.player.slots = slots]
    BY <1>3 DEF Synchronized
  <2>4. CASE Size(inv.open) < TailSize
    BY <2>2, <2>3, <2>4
  <2>5. CASE ~(Size(inv.open) < TailSize)
    <3> HIDE DEF cursor
    <3>1. InventoryFit(cursor)
      BY <2>2 DEF Undisturbed, Kin
    <3>2. cursor.player.slots \in [DOMAIN cursor.player.slots -> Fitting]
      BY <3>1, SlotsOf DEF InventoryFit, PlayerFit
    <3>3. slots \in [DOMAIN cursor.player.slots -> Fitting]
      <4> DEFINE size == SizeOf(inv.open.menu)
                 D == DOMAIN inv.open.slots
      <4>1. /\ size \in Nat /\ TailSize \in Nat \ {0} /\ size > TailSize
            /\ PlayerMain \in Int
        BY <2>1, Sizes
      <4>2. D = 0 .. size - 1 /\ Size(inv.open) = size
        <5>1. Size(inv.open) # 0
          BY <2>5, <4>1
        <5> QED BY <2>1, <5>1, SlotsOf
      <4>3. first = size - TailSize
        BY <2>1, <4>2 DEF TailStart, Menus
      <4>4. \A i \in PlayerMain .. PlayerMain + TailSize - 1 : first + i - PlayerMain \in D
        <5> HIDE DEF first, size, D
        <5> QED BY <4>1, <4>2, <4>3
      <4> HIDE DEF first, D, size
      <4>5. \A i \in PlayerMain .. PlayerMain + TailSize - 1 :
              inv.open.slots[first + i - PlayerMain] \in Fitting
        BY <2>1, <4>4 DEF D
      <4> QED BY <3>2, <4>5
    <3> HIDE DEF slots
    <3>4. Undisturbed([cursor EXCEPT !.player.slots = slots], cursor)
      BY <3>1, <3>3, TailPut
    <3> QED BY <2>2, <2>3, <2>5, <3>4, Kinship
  <2> QED BY <2>4, <2>5
<1> QED BY <1>1, <1>2, <1>3

LEMMA DragReplaced ==
  ASSUME NEW inv, InventoryFit(inv), NEW drag, DragFit(inv.player, inv.open, drag)
  PROVE  /\ Kin([inv EXCEPT !.drag = drag], inv)
         /\ [inv EXCEPT !.drag = drag].player = inv.player
         /\ [inv EXCEPT !.drag = drag].open = inv.open
         /\ [inv EXCEPT !.drag = drag].drag = drag
         /\ [inv EXCEPT !.drag = drag].selected = inv.selected
<1> DEFINE new == [inv EXCEPT !.drag = drag]
<1>1. /\ new = [player |-> inv.player, open |-> inv.open, selected |-> inv.selected, drag |-> drag]
      /\ new.player = inv.player /\ new.open = inv.open /\ new.drag = drag
      /\ new.selected = inv.selected
  <2>1. new = [player |-> inv.player, open |-> inv.open, selected |-> inv.selected, drag |-> drag]
    BY InventoryParts
  <2> HIDE DEF new
  <2> QED BY <2>1
<1>2. PlayerFit(inv.player) /\ OpenFit(inv.open) /\ inv.selected \in Selections
  BY DEF InventoryFit
<1> HIDE DEF new
<1>3. InventoryFit(new)
  BY <1>1, <1>2, InventoryMade
<1> QED BY <1>1, <1>3 DEF new, Kin

LEMMA AcceptedFits ==
  ASSUME NEW inv, InventoryFit(inv), NEW c, Known(inv, c.id), Reslotted(c, Container(inv, c.id))
  PROVE  /\ Undisturbed(Accepted(inv, c).inv, inv)
         /\ Accepted(inv, c).slots \subseteq DOMAIN Container(inv, c.id).slots
<1>1. Undisturbed(SetContainer(inv, c), inv)
  BY SetContainerFits DEF Reslotted
<1>2. InventoryFit(SetContainer(inv, c))
  BY <1>1 DEF Undisturbed, Kin
<1>3. Undisturbed(Synchronized(SetContainer(inv, c), c.id), SetContainer(inv, c))
  BY <1>2, SynchronizedFits
<1>4. Undisturbed(Accepted(inv, c).inv, inv)
  BY <1>1, <1>3, Kinship DEF Accepted
<1>5. Accepted(inv, c).slots \subseteq DOMAIN c.slots
  BY DEF Accepted
<1> QED BY <1>4, <1>5 DEF Reslotted, Alike

-----------------------------------------------------------------------------
\* InventoryState::apply_click.

\* The result of a click: the inventory is kin to what it was, and its gesture its own.
LEMMA DragStartFits ==
  ASSUME NEW inv, InventoryFit(inv), NEW click, ClickFit(click)
  PROVE  /\ Kin(DragStart(inv, click).inv, inv)
         /\ Owned(inv) => Owned(DragStart(inv, click).inv)
         /\ DragStart(inv, click).slots \subseteq DOMAIN Container(inv, click.container).slots
<1>1. CASE ~(Current(inv, click) /\ Container(inv, click.container).carried # Empty)
  <2>1. DragStart(inv, click) = Refused(inv)
    BY <1>1 DEF DragStart
  <2>2. Kin(inv, inv)
    BY Kinship
  <2> QED BY <2>1, <2>2 DEF Refused
<1>2. CASE Current(inv, click) /\ Container(inv, click.container).carried # Empty
  <2> DEFINE drag == [container |-> click.container, state |-> click.state, kind |-> click.drag,
                      slots |-> {}]
             mid == [inv EXCEPT !.drag = drag]
             c == Container(inv, click.container)
  <2>1. DragStart(inv, click) = [ok |-> TRUE, slots |-> {}, inv |-> mid]
    BY <1>2 DEF DragStart
  <2>2. Known(inv, click.container) /\ c.state = click.state
    BY <1>2 DEF Current
  <2>3. DragFit(inv.player, inv.open, drag) /\ drag.state = click.state
        /\ drag.container = click.container
    <3>1. drag \in Gestures
      BY DEF ClickFit, Gestures
    <3>2. click.container # PlayerId => inv.open # None /\ inv.open.id = click.container
      BY <2>2 DEF Known
    <3> QED BY <3>1, <3>2 DEF DragFit
  <2> HIDE DEF drag
  <2>4. /\ Kin(mid, inv) /\ mid.player = inv.player /\ mid.open = inv.open /\ mid.drag = drag
    BY <2>3, DragReplaced
  <2>5. ContainerFit(c) /\ c.id = click.container
    BY <2>2, ContainerOf
  <2>6. Known(mid, c.id) /\ Container(mid, c.id) = c /\ InventoryFit(mid)
    BY <2>2, <2>4, <2>5 DEF Known, Container, Kin
  <2>7. Owned(mid)
    BY <2>2, <2>3, <2>4, <2>5, <2>6 DEF Owned
  <2>8. DragStart(inv, click).inv = mid /\ DragStart(inv, click).slots = {}
    <3> HIDE DEF mid
    <3> QED BY <2>1
  <2> QED BY <2>4, <2>7, <2>8
<1> QED BY <1>1, <1>2

LEMMA DragAddFits ==
  ASSUME NEW inv, InventoryFit(inv), NEW click, ClickFit(click)
  PROVE  /\ Kin(DragAdd(inv, click).inv, inv)
         /\ Owned(inv) => Owned(DragAdd(inv, click).inv)
         /\ DragAdd(inv, click).slots = {}
<1> DEFINE c == Container(inv, click.container)
<1>1. Kin(inv, inv)
  BY Kinship
<1>2. CASE DragAdd(inv, click) = Refused(inv)
  BY <1>1, <1>2 DEF Refused
<1>3. CASE /\ Known(inv, click.container) /\ click.slot \in DOMAIN c.slots
           /\ Matches(inv.drag, click)
           /\ DragAdd(inv, click)
                = [ok |-> TRUE, slots |-> {},
                   inv |-> IF Eligible(c, click.slot, c.carried)
                           THEN [inv EXCEPT !.drag.slots = @ \cup {click.slot}] ELSE inv]
  <2> DEFINE drag == [inv.drag EXCEPT !.slots = @ \cup {click.slot}]
             new == [inv EXCEPT !.drag = drag]
  <2>1. inv.drag # None /\ inv.drag \in Gestures /\ inv.drag.container = click.container
    BY <1>3 DEF Matches, InventoryFit, DragFit
  <2>2. click.slot \in Int
    BY DEF ClickFit
  <2>3. /\ drag \in Gestures /\ drag.container = inv.drag.container /\ drag.state = inv.drag.state
        /\ drag.slots = inv.drag.slots \cup {click.slot}
    BY <2>1, <2>2 DEF Gestures
  <2>4. DragFit(inv.player, inv.open, drag)
    <3> HIDE DEF drag
    <3> QED BY <1>3, <2>1, <2>3 DEF DragFit, InventoryFit, Container
  <2>5. [inv EXCEPT !.drag.slots = @ \cup {click.slot}] = new
    OBVIOUS
  <2> HIDE DEF drag
  <2>6. Kin(new, inv) /\ new.player = inv.player /\ new.open = inv.open /\ new.drag = drag
    BY <2>4, DragReplaced
  <2>7. Owned(inv) => Owned(new)
    <3> HIDE DEF new
    <3> QED BY <2>1, <2>3, <2>6 DEF Owned, Container
  <2> HIDE DEF new
  <2>8. DragAdd(inv, click).slots = {} /\ DragAdd(inv, click).inv \in {inv, new}
    BY <1>3, <2>5
  <2> QED BY <1>1, <2>6, <2>7, <2>8
<1> QED BY <1>2, <1>3 DEF DragAdd

LEMMA DragEndFits ==
  ASSUME NEW inv, InventoryFit(inv), NEW click, ClickFit(click)
  PROVE  /\ Kin(DragEnd(inv, click).inv, inv) /\ Owned(DragEnd(inv, click).inv)
         /\ DragEnd(inv, click).slots \subseteq DOMAIN Container(inv, click.container).slots
<1> DEFINE done == [inv EXCEPT !.drag = None]
           c == Container(inv, click.container)
<1>1. Kin(done, inv) /\ done.player = inv.player /\ done.open = inv.open /\ done.drag = None
  BY DragReplaced DEF DragFit
<1>2. Owned(done) /\ InventoryFit(done)
  BY <1>1 DEF Owned, Kin
<1>3. CASE DragEnd(inv, click) = Refused(done)
  BY <1>1, <1>2, <1>3 DEF Refused
<1>4. CASE /\ Matches(inv.drag, click) /\ Known(inv, click.container)
           /\ DragEnd(inv, click) = Accepted(done, Spread(c, inv.drag))
  <2>1. ContainerFit(c) /\ c.id = click.container
    BY <1>4, ContainerOf
  <2>2. inv.drag.kind \in {0, 1, 2} /\ inv.drag.slots \subseteq DOMAIN c.slots
    <3>1. inv.drag # None /\ inv.drag.container = click.container
      BY <1>4 DEF Matches
    <3> QED BY <3>1 DEF InventoryFit, DragFit, Gestures, Container
  <2>3. Reslotted(Spread(c, inv.drag), c)
    BY <2>1, <2>2, SpreadFits
  <2> DEFINE s == Spread(c, inv.drag)
  <2>4. s.id = c.id
    BY <2>3 DEF Reslotted, Alike
  <2> HIDE DEF done
  <2>5. Known(done, s.id) /\ Container(done, s.id) = c
    BY <1>1, <1>4, <2>1, <2>4 DEF Known, Container
  <2> HIDE DEF s, c
  <2>6. Reslotted(s, Container(done, s.id))
    BY <2>3, <2>5 DEF s
  <2>7. Undisturbed(Accepted(done, s).inv, done)
        /\ Accepted(done, s).slots \subseteq DOMAIN Container(done, s.id).slots
    BY <1>2, <2>5, <2>6, AcceptedFits
  <2>8. Owned(Accepted(done, s).inv)
    BY <1>2, <2>7, UndisturbedOwned
  <2>9. Kin(Accepted(done, s).inv, inv)
    BY <1>1, <2>7, Kinship
  <2> QED BY <1>4, <2>5, <2>7, <2>8, <2>9 DEF s, c
<1> QED BY <1>3, <1>4 DEF DragEnd

LEMMA ApplyClickFits ==
  ASSUME NEW inv, InventoryFit(inv), NEW click, ClickFit(click)
  PROVE  /\ Kin(ApplyClick(inv, click).inv, inv)
         /\ Owned(inv) => Owned(ApplyClick(inv, click).inv)
         /\ ApplyClick(inv, click).slots \subseteq DOMAIN Container(inv, click.container).slots
<1>1. CASE click.kind = "drag_start"
  BY <1>1, DragStartFits DEF ApplyClick
<1>2. CASE click.kind = "drag_add"
  BY <1>2, DragAddFits DEF ApplyClick
<1>3. CASE click.kind = "drag_end"
  BY <1>3, DragEndFits DEF ApplyClick
<1>4. CASE click.kind \notin {"drag_start", "drag_add", "drag_end"}
  <2> DEFINE free == [inv EXCEPT !.drag = None]
             c == Container(inv, click.container)
             valid == \/ click.kind = "pickup_all" \/ click.slot \in DOMAIN c.slots
                      \/ click.kind = "pickup" /\ click.slot = Outside
             new == CASE click.kind = "pickup" -> Pickup(c, click.slot, click.button)
                      [] click.kind = "quick_move" -> QuickMove(c, click.slot)
                      [] click.kind = "swap" -> SwapHotbar(c, click.slot, click.button)
                      [] click.kind = "clone" -> CloneStack(c, click.slot)
                      [] click.kind = "throw" -> Throw(c, click.slot, click.button)
                      [] click.kind = "pickup_all" -> PickupAll(c)
  <2>1. Kin(free, inv) /\ free.player = inv.player /\ free.open = inv.open /\ free.drag = None
    BY DragReplaced DEF DragFit
  <2>2. Owned(free) /\ InventoryFit(free)
    BY <2>1 DEF Owned, Kin
  <2>3. ApplyClick(inv, click) = IF ~(Current(inv, click) /\ valid) THEN Refused(free)
                                 ELSE Accepted(free, new)
    BY <1>4 DEF ApplyClick
  <2>4. CASE ~(Current(inv, click) /\ valid)
    BY <2>1, <2>2, <2>3, <2>4 DEF Refused
  <2>5. CASE Current(inv, click) /\ valid
    <3>1. ContainerFit(c) /\ c.id = click.container /\ Known(inv, click.container)
      BY <2>5, ContainerOf DEF Current
    <3>2. click.kind \in ClickKinds /\ (click.kind = "swap" => click.button \in 0 .. HotbarSize - 1)
      BY DEF ClickFit, Selections
    <3>3. Reslotted(new, c)
      <4>1. CASE click.kind = "pickup"
        BY <2>5, <3>1, <4>1, PickupFits
      <4>2. CASE click.kind = "quick_move"
        BY <2>5, <3>1, <4>2, QuickMoveFits
      <4>3. CASE click.kind = "swap"
        BY <2>5, <3>1, <3>2, <4>3, SwapFits
      <4>4. CASE click.kind = "clone"
        BY <2>5, <3>1, <4>4, CloneFits
      <4>5. CASE click.kind = "throw"
        BY <2>5, <3>1, <4>5, ThrowFits
      <4>6. CASE click.kind = "pickup_all"
        BY <2>5, <3>1, <4>6, PickupAllFits
      <4> QED BY <1>4, <3>2, <4>1, <4>2, <4>3, <4>4, <4>5, <4>6 DEF ClickKinds
    <3>4. new.id = c.id
      BY <3>3 DEF Reslotted, Alike
    <3>5. ApplyClick(inv, click) = Accepted(free, new)
      BY <2>3, <2>5
    <3> HIDE DEF free, new
    <3>6. Known(free, new.id) /\ Container(free, new.id) = c
      BY <2>1, <3>1, <3>4 DEF Known, Container
    <3> HIDE DEF c
    <3>7. Reslotted(new, Container(free, new.id))
      BY <3>3, <3>6
    <3>8. Undisturbed(Accepted(free, new).inv, free)
          /\ Accepted(free, new).slots \subseteq DOMAIN Container(free, new.id).slots
      BY <2>2, <3>6, <3>7, AcceptedFits
    <3>9. Owned(Accepted(free, new).inv)
      BY <2>2, <3>8, UndisturbedOwned
    <3>10. Kin(Accepted(free, new).inv, inv)
      BY <2>1, <3>8, Kinship
    <3> QED BY <3>5, <3>6, <3>8, <3>9, <3>10 DEF c
  <2> QED BY <2>4, <2>5
<1> QED BY <1>1, <1>2, <1>3, <1>4

-----------------------------------------------------------------------------
\* Packets and commands on an inventory.

\* A container is stored, a gesture of another state of it ends, the rest is synchronised.
LEMMA StoredFits ==
  ASSUME NEW inv, InventoryFit(inv), NEW c, Known(inv, c.id), Alike(c, Container(inv, c.id)),
         NEW new, new = Synchronized([SetContainer(inv, c) EXCEPT
                                        !.drag = DragAfter(inv, c.id, c.state)], c.id)
  PROVE  /\ Kin(new, inv)
         /\ Owned(inv) => Owned(new)
         /\ c.id # PlayerId => DOMAIN c.slots \subseteq DOMAIN new.open.slots
<1> DEFINE set == SetContainer(inv, c)
           drag == DragAfter(inv, c.id, c.state)
           mid == [set EXCEPT !.drag = drag]
<1>1. /\ Kin(set, inv) /\ Container(set, c.id) = c /\ set.drag = inv.drag
      /\ c.id = PlayerId => set.open = inv.open
      /\ c.id # PlayerId => set.player = inv.player
  BY SetContainerFits
<1>2. new = Synchronized(mid, c.id)
  OBVIOUS
<1> HIDE DEF set
<1>3. InventoryFit(set) /\ drag \in {None, inv.drag}
  BY <1>1 DEF Kin, DragAfter
<1>4. DragFit(set.player, set.open, drag)
  BY <1>1, <1>3 DEF InventoryFit, DragFit
<1>5. drag # None => drag = inv.drag /\ (drag.container = c.id => drag.state = c.state)
  BY DEF DragAfter
<1> HIDE DEF drag
<1>6. Kin(mid, set) /\ mid.player = set.player /\ mid.open = set.open /\ mid.drag = drag
  BY <1>3, <1>4, DragReplaced
<1> HIDE DEF mid
<1>7. InventoryFit(mid) /\ Undisturbed(new, mid)
  BY <1>2, <1>6, SynchronizedFits DEF Kin
<1>8. ASSUME Owned(inv) PROVE Owned(new)
  <2>1. Owned(mid)
    <3>1. CASE drag = None
      BY <1>6, <3>1 DEF Owned
    <3>2. CASE drag # None
      <4> DEFINE k == drag.container
      <4>1. drag = inv.drag /\ drag.state = Container(inv, k).state
        BY <1>5, <1>8, <3>2 DEF Owned
      <4>2. k # PlayerId => inv.open # None /\ inv.open.id = k
        BY <3>2, <4>1 DEF InventoryFit, DragFit
      <4>3. CASE k = c.id
        <5>1. Container(mid, k) = c
          BY <1>1, <1>6, <4>3 DEF Container
        <5> QED BY <1>5, <1>6, <3>2, <4>3, <5>1 DEF Owned
      <4>4. CASE k # c.id
        <5>1. Container(mid, k) = Container(inv, k)
          BY <1>1, <1>6, <4>2, <4>4 DEF Container, Known
        <5> QED BY <1>6, <4>1, <5>1 DEF Owned
      <4> QED BY <4>3, <4>4
    <3> QED BY <3>1, <3>2
  <2> QED BY <1>7, <2>1, UndisturbedOwned
<1>9. Kin(new, inv)
  BY <1>1, <1>6, <1>7, Kinship
<1>10. c.id # PlayerId => DOMAIN c.slots \subseteq DOMAIN new.open.slots
  <2>1. c.id # PlayerId => mid.open = c /\ inv.open # None
    BY <1>1, <1>6 DEF Container, Known
  <2>2. inv.open # None => mid.open # None
    BY <1>1, <1>6 DEF Kin
  <2> QED BY <1>7, <2>1, <2>2 DEF Undisturbed, Kin
<1> QED BY <1>8, <1>9, <1>10

\* A container with another state and other slots.
LEMMA Restated ==
  ASSUME NEW c, ContainerFit(c), NEW state, NEW slots
  PROVE  [c EXCEPT !.state = state, !.slots = slots]
           = [id |-> c.id, menu |-> c.menu, state |-> state, carried |-> c.carried,
              slots |-> slots]
<1> DEFINE Made(z, s, k) == [id |-> c.id, menu |-> c.menu, state |-> z, carried |-> k, slots |-> s]
<1>1. c = Made(c.state, c.slots, c.carried)
  BY SlotsOf
<1> DEFINE a == [c EXCEPT !.state = state]
           b == [a EXCEPT !.slots = slots]
<1>2. [c EXCEPT !.state = state, !.slots = slots] = b
  OBVIOUS
<1>4. a = Made(state, c.slots, c.carried)
  BY <1>1
<1> HIDE DEF a
<1>5. b = Made(state, slots, c.carried)
  BY <1>4
<1> HIDE DEF b
<1> QED BY <1>2, <1>5

LEMMA SetSlotFits ==
  ASSUME NEW inv, InventoryFit(inv), NEW id, Known(inv, id), NEW state \in Nat,
         NEW slot \in DOMAIN Container(inv, id).slots, NEW stack \in Fitting
  PROVE  /\ Kin(SetSlot(inv, id, state, slot, stack), inv)
         /\ Owned(inv) => Owned(SetSlot(inv, id, state, slot, stack))
<1> DEFINE old == Container(inv, id)
           slots == [old.slots EXCEPT ![slot] = stack]
           c == [old EXCEPT !.state = state, !.slots = slots]
<1>1. ContainerFit(old) /\ old.id = id
  BY ContainerOf
<1>2. slots \in [DOMAIN old.slots -> Fitting] /\ old.carried \in Fitting
  BY <1>1, OneSlot, SlotsOf
<1>3. [old EXCEPT !.state = state, !.slots[slot] = stack] = c
  OBVIOUS
<1> HIDE DEF slots
<1>4. c = [id |-> old.id, menu |-> old.menu, state |-> state, carried |-> old.carried,
           slots |-> slots]
  BY <1>1, Restated
<1> HIDE DEF old
<1>5. Alike(c, old) /\ c.state = state
  BY <1>1, <1>2, <1>4, AlikeMade
<1>6. SetSlot(inv, id, state, slot, stack)
        = Synchronized([SetContainer(inv, c) EXCEPT !.drag = DragAfter(inv, id, state)], id)
  BY <1>3 DEF SetSlot, old
<1> HIDE DEF c
<1>7. c.id = id /\ Known(inv, c.id) /\ Alike(c, Container(inv, c.id))
  BY <1>1, <1>5 DEF Alike, old
<1>8. SetSlot(inv, id, state, slot, stack)
        = Synchronized([SetContainer(inv, c) EXCEPT !.drag = DragAfter(inv, c.id, c.state)], c.id)
  BY <1>5, <1>6, <1>7
<1> QED BY <1>7, <1>8, StoredFits

LEMMA ReplaceContentFits ==
  ASSUME NEW inv, InventoryFit(inv), NEW id, Known(inv, id), NEW state \in Nat,
         NEW slots \in Filled(Container(inv, id).menu), NEW carried \in Fitting
  PROVE  /\ Kin(ReplaceContent(inv, id, state, slots, carried), inv)
         /\ Owned(inv) => Owned(ReplaceContent(inv, id, state, slots, carried))
         /\ id # PlayerId =>
              DOMAIN slots \subseteq DOMAIN ReplaceContent(inv, id, state, slots, carried).open.slots
<1> DEFINE old == Container(inv, id)
           c == [old EXCEPT !.state = state, !.slots = slots, !.carried = carried]
<1>1. ContainerFit(old) /\ old.id = id
  BY ContainerOf
<1>0. slots \in Filled(old.menu)
  OBVIOUS
<1> HIDE DEF old
<1>2. c = [id |-> old.id, menu |-> old.menu, state |-> state, carried |-> carried, slots |-> slots]
  <2> DEFINE a == [old EXCEPT !.state = state]
             b == [a EXCEPT !.slots = slots]
             d == [b EXCEPT !.carried = carried]
  <2>1. c = d
    OBVIOUS
  <2>2. b = [old EXCEPT !.state = state, !.slots = slots]
    OBVIOUS
  <2>3. b = [id |-> old.id, menu |-> old.menu, state |-> state, carried |-> old.carried,
             slots |-> slots]
    BY <1>1, <2>2, Restated
  <2> HIDE DEF b, c
  <2> QED BY <2>1, <2>3
<1>3. slots \in Filled(old.menu) /\ old.id \in Nat /\ old.menu \in Menus \cup {"player"}
  BY <1>0, <1>1, SlotsOf
<1>4. Alike(c, old) /\ c.state = state /\ c.slots = slots
  <2>1. /\ c.id = old.id /\ c.menu = old.menu /\ c.state = state /\ c.slots = slots
        /\ c \in Containers
    BY <1>2, <1>3 DEF Containers, Menus
  <2>2. DOMAIN old.slots \subseteq DOMAIN slots
    BY <1>1, <1>3 DEF ContainerFit, Filled, NoSlots
  <2> QED BY <1>3, <2>1, <2>2 DEF Alike, ContainerFit
<1>5. ReplaceContent(inv, id, state, slots, carried)
        = Synchronized([SetContainer(inv, c) EXCEPT !.drag = DragAfter(inv, id, state)], id)
  BY DEF ReplaceContent, old
<1> HIDE DEF c
<1>6. c.id = id /\ Known(inv, c.id) /\ Alike(c, Container(inv, c.id))
  BY <1>1, <1>4 DEF Alike, old
<1>7. ReplaceContent(inv, id, state, slots, carried)
        = Synchronized([SetContainer(inv, c) EXCEPT !.drag = DragAfter(inv, c.id, c.state)], c.id)
  BY <1>4, <1>5, <1>6
<1> QED BY <1>4, <1>6, <1>7, StoredFits

LEMMA SetCarriedFits ==
  ASSUME NEW inv, InventoryFit(inv), NEW stack \in Fitting
  PROVE  Undisturbed(SetCarried(inv, stack), inv)
<1> DEFINE mid == [inv EXCEPT !.player.carried = stack]
<1>1. Undisturbed(mid, inv) /\ mid.open = inv.open
  BY PlayerCursorPut
<1>2. InventoryFit(mid)
  BY <1>1 DEF Undisturbed, Kin
<1>3. SetCarried(inv, stack) = [mid EXCEPT !.open = IF inv.open = None THEN None
                                                    ELSE [inv.open EXCEPT !.carried = stack]]
  BY <1>1 DEF SetCarried
<1> HIDE DEF mid
<1>4. CASE inv.open = None
  <2>1. [mid EXCEPT !.open = None]
          = [player |-> mid.player, open |-> mid.open, selected |-> mid.selected, drag |-> mid.drag]
    BY <1>1, <1>2, <1>4, InventoryParts
  <2>2. SetCarried(inv, stack) = mid
    BY <1>2, <1>3, <1>4, <2>1 DEF InventoryFit
  <2> QED BY <1>1, <2>2
<1>5. CASE inv.open # None
  <2>1. SetCarried(inv, stack) = [mid EXCEPT !.open.carried = stack]
    BY <1>1, <1>3, <1>5
  <2>2. Undisturbed([mid EXCEPT !.open.carried = stack], mid)
    BY <1>1, <1>2, <1>5, OpenCursorPut
  <2> QED BY <1>1, <2>1, <2>2, Kinship
<1> QED BY <1>4, <1>5

PlayerSlots == 0 .. Offhand
LEMMA PlayerSlotsOf ==
  ASSUME NEW inv, InventoryFit(inv)
  PROVE  /\ DOMAIN inv.player.slots = PlayerSlots /\ inv.player.slots \in [PlayerSlots -> Fitting]
         /\ ContainerFit(inv.player) /\ inv.player.carried \in Fitting /\ inv.player.state \in Nat
<1>1. PlayerFit(inv.player)
  BY DEF InventoryFit
<1>2. SizeOf("player") - 1 = Offhand
  <2>1. SizeOf("player") = Offhand + 1 /\ Offhand \in Int
    BY Sizes
  <2> QED BY <2>1
<1>3. DOMAIN inv.player.slots = PlayerSlots /\ inv.player.slots \in [PlayerSlots -> Fitting]
  BY <1>1, <1>2 DEF PlayerFit, Filled, PlayerSlots
<1> QED BY <1>1, <1>3, SlotsOf DEF PlayerFit

LEMMA SetCreativeSlotFits ==
  ASSUME NEW inv, InventoryFit(inv), NEW slot \in {-1} \cup PlayerSlots, NEW stack \in Fitting
  PROVE  Undisturbed(SetCreativeSlot(inv, slot, stack), inv)
<1>1. CASE slot = -1
  <2>1. SetCreativeSlot(inv, slot, stack) = inv
    BY <1>1 DEF SetCreativeSlot
  <2> QED BY <2>1, Kinship
<1>2. CASE slot # -1
  <2> DEFINE slots == [inv.player.slots EXCEPT ![slot] = stack]
  <2>1. slots \in [DOMAIN inv.player.slots -> Fitting]
    BY PlayerSlotsOf
  <2>2. SetCreativeSlot(inv, slot, stack) = [inv EXCEPT !.player.slots = slots]
    BY <1>2 DEF SetCreativeSlot
  <2> HIDE DEF slots
  <2>3. Undisturbed([inv EXCEPT !.player.slots = slots], inv)
    BY <2>1, TailPut
  <2> QED BY <2>2, <2>3
<1> QED BY <1>1, <1>2

LEMMA OpenedFits ==
  ASSUME NEW inv, InventoryFit(inv), NEW c, ContainerFit(c), c.id # PlayerId, c.menu \in Menus
  PROVE  /\ InventoryFit(OpenContainer(inv, c)) /\ OpenContainer(inv, c).open = c
         /\ OpenContainer(inv, c).drag = None
         /\ OpenContainer(inv, c).player = inv.player
         /\ inv.drag = None => OpenContainer(inv, c) = [inv EXCEPT !.open = c]
<1> DEFINE new == [player |-> inv.player, open |-> c, selected |-> inv.selected, drag |-> None]
           mid == [inv EXCEPT !.open = c]
<1>1. mid = [player |-> inv.player, open |-> c, selected |-> inv.selected, drag |-> inv.drag]
  BY InventoryParts
<1>2. OpenContainer(inv, c) = [mid EXCEPT !.drag = None]
  BY DEF OpenContainer
<1> HIDE DEF mid
<1>3. OpenContainer(inv, c) = new
  BY <1>1, <1>2
<1>4. PlayerFit(inv.player) /\ OpenFit(c) /\ inv.selected \in Selections
      /\ DragFit(inv.player, c, None)
  BY DEF InventoryFit, OpenFit, DragFit
<1>5. InventoryFit(new) /\ new.open = c /\ new.drag = None /\ new.player = inv.player
  BY <1>4, InventoryMade
<1>6. inv.drag = None => mid = new
  BY <1>1
<1> HIDE DEF new
<1> QED BY <1>3, <1>5, <1>6 DEF mid

LEMMA ClosedContainerFits ==
  ASSUME NEW inv, InventoryFit(inv)
  PROVE  /\ InventoryFit(CloseContainer(inv)) /\ CloseContainer(inv).open = None
         /\ CloseContainer(inv).drag = None /\ CloseContainer(inv).player = inv.player
         /\ CloseContainer(inv).selected = inv.selected
<1> DEFINE new == [player |-> inv.player, open |-> None, selected |-> inv.selected, drag |-> None]
           mid == [inv EXCEPT !.open = None]
<1>1. mid = [player |-> inv.player, open |-> None, selected |-> inv.selected, drag |-> inv.drag]
  BY InventoryParts
<1>2. CloseContainer(inv) = [mid EXCEPT !.drag = None]
  BY DEF CloseContainer
<1> HIDE DEF mid
<1>3. CloseContainer(inv) = new
  BY <1>1, <1>2
<1>4. PlayerFit(inv.player) /\ OpenFit(None) /\ inv.selected \in Selections
      /\ DragFit(inv.player, None, None)
  BY DEF InventoryFit, OpenFit, DragFit
<1>5. InventoryFit(new) /\ new.open = None /\ new.drag = None /\ new.player = inv.player
      /\ new.selected = inv.selected
  BY <1>4, InventoryMade
<1> HIDE DEF new
<1> QED BY <1>3, <1>5

LEMMA SelectedFits ==
  ASSUME NEW inv, InventoryFit(inv), NEW s \in Selections
  PROVE  /\ Kin([inv EXCEPT !.selected = s], inv)
         /\ Owned(inv) => Owned([inv EXCEPT !.selected = s])
<1> DEFINE new == [inv EXCEPT !.selected = s]
<1>1. /\ new = [player |-> inv.player, open |-> inv.open, selected |-> s, drag |-> inv.drag]
      /\ new.player = inv.player /\ new.open = inv.open /\ new.drag = inv.drag
  <2>1. new = [player |-> inv.player, open |-> inv.open, selected |-> s, drag |-> inv.drag]
    BY InventoryParts
  <2> HIDE DEF new
  <2> QED BY <2>1
<1>2. PlayerFit(inv.player) /\ OpenFit(inv.open) /\ DragFit(inv.player, inv.open, inv.drag)
  BY DEF InventoryFit
<1> HIDE DEF new
<1>3. InventoryFit(new)
  BY <1>1, <1>2, InventoryMade
<1> QED BY <1>1, <1>3 DEF new, Kin, Owned, Container

\* The server closes a menu: the cursor's items go to a free slot.
LEMMA ClosedFits ==
  ASSUME NEW inv, InventoryFit(inv)
  PROVE  /\ InventoryFit(Closed(inv).inv) /\ Closed(inv).inv.open = None
         /\ Closed(inv).inv.drag = None
         /\ \/ Closed(inv).out = <<>>
            \/ \E slot \in PlayerSlots, state \in Nat, stack \in Fitting :
                 Closed(inv).out = <<[kind |-> "slot", id |-> PlayerId, slot |-> slot,
                                      state |-> state, stack |-> stack]>>
<1> DEFINE free == {i \in PlayerMain .. Offhand : inv.player.slots[i] = Empty}
           slot == Min(free)
           held == inv.player.carried
           bare == [inv EXCEPT !.open = None, !.drag = None]
           put == [bare EXCEPT !.player.slots[slot] = held, !.player.carried = Empty,
                               !.player.state = @ + 1]
<1>1. bare = CloseContainer(inv)
  BY DEF CloseContainer
<1>2. InventoryFit(bare) /\ bare.open = None /\ bare.drag = None /\ bare.player = inv.player
  BY <1>1, ClosedContainerFits
<1>3. held \in Fitting
  BY PlayerSlotsOf
<1> HIDE DEF bare
<1>4. Closed(inv) = IF held = Empty \/ free = {} THEN [inv |-> bare, out |-> <<>>]
                    ELSE [inv |-> put, out |-> <<[kind |-> "slot", id |-> PlayerId, slot |-> slot,
                                                  state |-> put.player.state, stack |-> held]>>]
  BY DEF Closed, bare
<1>5. CASE held = Empty \/ free = {}
  <2> HIDE DEF free, held, put, slot
  <2>1. Closed(inv) = [inv |-> bare, out |-> <<>>]
    BY <1>4, <1>5
  <2>2. Closed(inv).inv = bare /\ Closed(inv).out = <<>>
    BY <2>1
  <2> QED BY <1>2, <2>2
<1>6. CASE ~(held = Empty \/ free = {})
  <2>1. slot \in PlayerSlots
    <3>1. PlayerMain \in Nat /\ Offhand \in Nat
      BY Sizes
    <3>2. free \subseteq PlayerSlots /\ free \subseteq Nat
      BY <3>1 DEF PlayerSlots
    <3> HIDE DEF free
    <3> QED BY <1>6, <3>2, Smallest
  <2> DEFINE p == bare.player
             slots == [p.slots EXCEPT ![slot] = held]
             c == [id |-> p.id, menu |-> p.menu, state |-> p.state + 1, carried |-> Empty,
                   slots |-> slots]
  <2> HIDE DEF slot, held
  <2>2. /\ ContainerFit(p) /\ slots \in [DOMAIN p.slots -> Fitting] /\ p.state + 1 \in Nat
    <3>1. ContainerFit(p) /\ p.slots \in [PlayerSlots -> Fitting] /\ DOMAIN p.slots = PlayerSlots
          /\ p.state \in Nat
      BY <1>2, PlayerSlotsOf
    <3> HIDE DEF p
    <3> QED BY <1>3, <2>1, <3>1
  <2>3. Alike(c, p) /\ c.state = p.state + 1
    <3> HIDE DEF p, slots
    <3> QED BY <2>2, EmptyFits, AlikeMade
  <2>4. put = [bare EXCEPT !.player = c]
    <3> DEFINE a == [p EXCEPT !.slots = slots]
               b == [a EXCEPT !.carried = Empty]
               d == [b EXCEPT !.state = b.state + 1]
    <3>1. put = [bare EXCEPT !.player = d]
      <4>1. /\ [bare EXCEPT !.player.slots[slot] = held] = [bare EXCEPT !.player = a]
            /\ put = [[[bare EXCEPT !.player.slots[slot] = held] EXCEPT !.player.carried = Empty]
                       EXCEPT !.player.state = @ + 1]
        BY <2>2
      <4> DEFINE r == bare.open
                 s == bare.selected
                 g == bare.drag
      <4>2. bare = [player |-> p, open |-> r, selected |-> s, drag |-> g]
        BY <1>2 DEF InventoryFit
      <4> DEFINE ba == [bare EXCEPT !.player = a]
                 bb == [ba EXCEPT !.player.carried = Empty]
      <4> HIDE DEF r, s, g, p, a
      <4>3. ba = [player |-> a, open |-> r, selected |-> s, drag |-> g]
        BY <4>2
      <4> HIDE DEF ba, b
      <4>4. bb = [player |-> [a EXCEPT !.carried = Empty], open |-> r, selected |-> s, drag |-> g]
        BY <4>3
      <4>5. bb = [player |-> b, open |-> r, selected |-> s, drag |-> g]
        BY <4>4 DEF b
      <4> HIDE DEF bb, d
      <4>6. [bb EXCEPT !.player.state = @ + 1]
              = [player |-> [b EXCEPT !.state = b.state + 1], open |-> r, selected |-> s, drag |-> g]
        BY <4>5
      <4>7. [bb EXCEPT !.player.state = @ + 1]
              = [player |-> d, open |-> r, selected |-> s, drag |-> g]
        BY <4>6 DEF d
      <4>8. [bare EXCEPT !.player = d] = [player |-> d, open |-> r, selected |-> s, drag |-> g]
        BY <4>2
      <4>9. put = [bb EXCEPT !.player.state = @ + 1]
        BY <4>1 DEF bb, ba
      <4> QED BY <4>7, <4>8, <4>9
    <3>2. p = [id |-> p.id, menu |-> p.menu, state |-> p.state, carried |-> p.carried,
               slots |-> p.slots]
      BY <2>2, SlotsOf
    <3> HIDE DEF put, p, slots
    <3>3. a = [id |-> p.id, menu |-> p.menu, state |-> p.state, carried |-> p.carried,
               slots |-> slots]
      BY <3>2
    <3> HIDE DEF a
    <3>4. b = [id |-> p.id, menu |-> p.menu, state |-> p.state, carried |-> Empty, slots |-> slots]
      BY <3>3
    <3> HIDE DEF b
    <3>5. d = c
      BY <3>4
    <3> HIDE DEF d, c
    <3> QED BY <3>1, <3>5
  <2> HIDE DEF put, p, c
  <2>5. Kin([bare EXCEPT !.player = c], bare) /\ [bare EXCEPT !.player = c].player = c
        /\ [bare EXCEPT !.player = c].open = bare.open /\ [bare EXCEPT !.player = c].drag = bare.drag
    BY <1>2, <2>3, PlayerReplaced DEF p
  <2>6. InventoryFit(put) /\ put.open = None /\ put.drag = None /\ put.player = c
    BY <1>2, <2>4, <2>5 DEF Kin
  <2>7. put.player.state \in Nat
    BY <2>2, <2>3, <2>6
  <2>8. Closed(inv).inv = put
        /\ Closed(inv).out = <<[kind |-> "slot", id |-> PlayerId, slot |-> slot,
                                state |-> put.player.state, stack |-> held]>>
    BY <1>4, <1>6
  <2> QED BY <1>3, <2>1, <2>6, <2>7, <2>8
<1> QED BY <1>5, <1>6
=============================================================================
