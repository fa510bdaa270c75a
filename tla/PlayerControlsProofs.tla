------------------------- MODULE PlayerControlsProofs -------------------------
(***************************************************************************)
(* Proofs about the player's tick.  The controls: for every set of keys,   *)
(* every capacity of the journal and the command mailbox, every turn,      *)
(* track and step, and every threshold and interval of the movement        *)
(* packets.  Collision: for every world of cells, every size of the cells  *)
(* and the player, every step height and every displacement.               *)
(***************************************************************************)
EXTENDS MCMovement, SequenceTheorems, WellFoundedInduction, TLAPS

-----------------------------------------------------------------------------
(* The controls.                                                           *)

Poses == [pos : Positions, yaw : Yaws]

Mailboxes ==
  [input : Inputs, sequence : 0..MaxActions, journal : Seq(Inputs), coalesced : Nat, pending : Yaws,
   intended : Yaws \cup {None}, commands : 0..CommandCapacity]

Trackers == [pose : Poses \cup {None}, input : Inputs, sprinting : BOOLEAN, reminder : 0..ForcedInterval]

Tolds ==
  [input : Inputs, sprinting : BOOLEAN, pos : Positions \cup {None}, yaw : Yaws \cup {None},
   age : 0..ForcedInterval, displaced : BOOLEAN, rebased : BOOLEAN]

Types ==
  /\ ui \in [held : Inputs, sequence : 0..MaxActions, actions : 0..MaxActions, resets : 0..MaxResets]
  /\ mailbox \in Mailboxes /\ Len(mailbox.journal) <= JournalCapacity
  /\ body \in Poses \cup {None}
  /\ tracker \in Trackers /\ told \in Tolds
  /\ commands \in [accepted : Nat, served : Nat]

\* Every input the window numbers is an action of the user.
Numbered == mailbox.sequence <= ui.sequence /\ ui.sequence <= ui.actions

\* The baselines of the keys and of the sprint are what was told.
SameKeys == tracker.input = told.input /\ tracker.sprinting = told.sprinting

\* While the simulation runs its yaw is the baseline and was told; the position told is
\* the baseline unless a rotation moved that; both count the same ticks.
SamePose ==
  body # None =>
    /\ tracker.pose # None /\ tracker.pose.yaw = body.yaw /\ told.yaw = body.yaw
    /\ told.pos # None /\ (~told.rebased => told.pos = tracker.pose.pos)
    /\ told.age = tracker.reminder /\ tracker.reminder < ForcedInterval
    /\ ~told.displaced /\ ~told.rebased => Distance(told.pos, body.pos) <= Epsilon

IInv == Types /\ Numbered /\ SameKeys /\ SamePose /\ LookExact

-----------------------------------------------------------------------------
(* Angles.                                                                 *)

LEMMA Modulo ==
  ASSUME NEW n \in Nat
  PROVE  /\ n % Turn \in Yaws
         /\ n < Turn => n % Turn = n
         /\ Turn <= n /\ n < Turn + Turn => n % Turn = n - Turn
<1>1. Turn \in Nat /\ Turn >= 1
  BY ControlsAssumption
<1>2. n % Turn \in Nat /\ n % Turn < Turn
  BY <1>1
<1>3. n < Turn => n % Turn = n
  BY <1>1
<1>4. Turn <= n /\ n < Turn + Turn => n % Turn = n - Turn
  BY <1>1
<1> QED BY <1>1, <1>2, <1>3, <1>4 DEF Yaws

\* Turning by two deltas, one after the other or both at once.
LEMMA TurnTwice ==
  ASSUME NEW yaw \in Yaws, NEW pending \in Yaws, NEW delta \in Yaws
  PROVE  (((yaw + pending) % Turn) + delta) % Turn = (yaw + ((pending + delta) % Turn)) % Turn
<1>1. Turn \in Nat /\ yaw \in Nat /\ pending \in Nat /\ delta \in Nat /\ yaw < Turn /\ pending < Turn /\ delta < Turn
  BY ControlsAssumption DEF Yaws
<1>2. PICK a, b : a = (yaw + pending) % Turn /\ b = (pending + delta) % Turn
  OBVIOUS
<1>3. a = IF yaw + pending < Turn THEN yaw + pending ELSE (yaw + pending) - Turn
  BY <1>1, <1>2, Modulo
<1>4. b = IF pending + delta < Turn THEN pending + delta ELSE (pending + delta) - Turn
  BY <1>1, <1>2, Modulo
<1>5. a \in Nat /\ b \in Nat /\ a < Turn /\ b < Turn
  BY <1>1, <1>3, <1>4
<1>6. (a + delta) % Turn = IF a + delta < Turn THEN a + delta ELSE (a + delta) - Turn
  BY <1>1, <1>5, Modulo
<1>7. (yaw + b) % Turn = IF yaw + b < Turn THEN yaw + b ELSE (yaw + b) - Turn
  BY <1>1, <1>5, Modulo
<1>8. (a + delta) % Turn = (yaw + b) % Turn
  <2>1. PICK c, d : c = (a + delta) % Turn /\ d = (yaw + b) % Turn
    OBVIOUS
  <2>2. /\ c = IF a + delta < Turn THEN a + delta ELSE (a + delta) - Turn
        /\ d = IF yaw + b < Turn THEN yaw + b ELSE (yaw + b) - Turn
    BY <1>6, <1>7, <2>1
  <2>3. c = d
    BY <1>1, <1>3, <1>4, <1>5, <2>2
  <2> QED BY <2>1, <2>3
<1> QED BY <1>2, <1>8

\* A yaw with nothing pending is the yaw.
LEMMA TurnNone ==
  ASSUME NEW yaw \in Yaws
  PROVE  0 \in Yaws /\ yaw = (yaw + 0) % Turn
<1>1. Turn \in Nat /\ Turn >= 1 /\ yaw \in Nat /\ yaw < Turn
  BY ControlsAssumption DEF Yaws
<1>2. yaw + 0 = yaw /\ 0 \in Yaws
  BY <1>1 DEF Yaws
<1>3. yaw % Turn = yaw
  BY <1>1, Modulo
<1> QED BY <1>2, <1>3

-----------------------------------------------------------------------------
(* The window thread.                                                      *)

\* What the window writes touches neither the simulation nor the baselines.
LEMMA WindowStep ==
  ASSUME IInv, UNCHANGED <<body, tracker, told>>,
         ui' \in [held : Inputs, sequence : 0..MaxActions, actions : 0..MaxActions, resets : 0..MaxResets],
         mailbox' \in Mailboxes, Len(mailbox'.journal) <= JournalCapacity, Numbered',
         commands' \in [accepted : Nat, served : Nat], LookExact'
  PROVE  IInv'
<1>1. Types /\ SameKeys /\ SamePose
  BY DEF IInv
<1>2. Types'
  BY <1>1 DEF Types
<1>3. SameKeys' /\ SamePose'
  BY <1>1 DEF SameKeys, SamePose
<1> QED BY <1>2, <1>3 DEF IInv

LEMMA RecordedLemma ==
  ASSUME NEW m \in Mailboxes, Len(m.journal) <= JournalCapacity, NEW sequence \in 0..MaxActions, NEW k \in Inputs
  PROVE  LET r == Recorded(m, sequence, k)
         IN  /\ r \in Mailboxes /\ Len(r.journal) <= JournalCapacity
             /\ r.sequence = m.sequence \/ r.sequence = sequence
             /\ r.pending = m.pending /\ r.intended = m.intended
<1>1. PICK r : r = Recorded(m, sequence, k)
  OBVIOUS
<1>2. CASE sequence <= m.sequence
  <2>1. r = m
    BY <1>1, <1>2 DEF Recorded
  <2> QED BY <1>1, <2>1
<1>3. CASE ~(sequence <= m.sequence) /\ m.input = k
  <2>1. r = [m EXCEPT !.sequence = sequence]
    BY <1>1, <1>3 DEF Recorded
  <2>2. /\ r \in Mailboxes /\ r.sequence = sequence /\ r.journal = m.journal
        /\ r.pending = m.pending /\ r.intended = m.intended
    BY <2>1 DEF Mailboxes
  <2> QED BY <1>1, <2>2
<1>4. CASE ~(sequence <= m.sequence) /\ m.input # k
  <2>1. PICK n, kept, journal, coalesced :
          /\ n = Len(m.journal)
          /\ kept = (IF n = JournalCapacity THEN Tail(m.journal) ELSE m.journal)
          /\ journal = Append(kept, k)
          /\ coalesced = (IF n = JournalCapacity THEN m.coalesced + 1 ELSE m.coalesced)
    OBVIOUS
  <2>2. m.journal \in Seq(Inputs) /\ n \in Nat /\ JournalCapacity \in Nat /\ JournalCapacity >= 1 /\ n <= JournalCapacity
    BY <2>1, ControlsAssumption, LenProperties DEF Mailboxes
  <2>3. kept \in Seq(Inputs) /\ Len(kept) <= JournalCapacity - 1
    <3>1. CASE n = JournalCapacity
      <4>1. m.journal # <<>>
        <5>1. Len(m.journal) # 0 /\ Len(m.journal) \in Nat
          BY <2>1, <2>2, <3>1
        <5> QED BY <2>2, <5>1, EmptySeq
      <4>2. Tail(m.journal) \in Seq(Inputs) /\ Len(Tail(m.journal)) = n - 1
        BY <2>1, <2>2, <4>1, HeadTailProperties
      <4> QED BY <2>1, <2>2, <3>1, <4>2
    <3>2. CASE n # JournalCapacity
      BY <2>1, <2>2, <3>2
    <3> QED BY <3>1, <3>2
  <2>4. journal \in Seq(Inputs) /\ Len(journal) <= JournalCapacity
    <3>1. Len(kept) \in Nat /\ journal \in Seq(Inputs) /\ Len(journal) = Len(kept) + 1
      BY <2>1, <2>3, AppendProperties, LenProperties
    <3> QED BY <2>2, <2>3, <3>1
  <2>5. coalesced \in Nat
    BY <2>1 DEF Mailboxes
  <2>6. r = [m EXCEPT !.sequence = sequence, !.input = k, !.journal = journal, !.coalesced = coalesced]
    BY <1>1, <1>4, <2>1 DEF Recorded, Mailboxes
  <2>7. PICK a, b, c : /\ a = [m EXCEPT !.sequence = sequence] /\ b = [a EXCEPT !.input = k]
                       /\ c = [b EXCEPT !.journal = journal]
    OBVIOUS
  <2>8. a \in Mailboxes /\ a.sequence = sequence /\ a.pending = m.pending /\ a.intended = m.intended
    BY <2>7 DEF Mailboxes
  <2>9. b \in Mailboxes /\ b.sequence = sequence /\ b.pending = m.pending /\ b.intended = m.intended
    BY <2>7, <2>8 DEF Mailboxes
  <2>10. /\ c \in Mailboxes /\ c.sequence = sequence /\ c.pending = m.pending /\ c.intended = m.intended
         /\ c.journal = journal
    BY <2>4, <2>7, <2>9 DEF Mailboxes
  <2>11. r = [c EXCEPT !.coalesced = coalesced]
    BY <2>6, <2>7 DEF Mailboxes
  <2>12. /\ r \in Mailboxes /\ r.sequence = sequence /\ r.pending = m.pending /\ r.intended = m.intended
         /\ r.journal = journal
    BY <2>5, <2>10, <2>11 DEF Mailboxes
  <2> QED BY <1>1, <2>4, <2>12
<1> QED BY <1>2, <1>3, <1>4

LEMMA SetInputKeeps ==
  ASSUME IInv, NEW k \in Inputs, SetInput(k)
  PROVE  IInv'
<1>1. Types /\ Numbered /\ LookExact
  BY DEF IInv
<1>2. PICK sequence, actions : sequence = ui.sequence + 1 /\ actions = ui.actions + 1
  OBVIOUS
<1>3. /\ ui' = [ui EXCEPT !.held = k, !.sequence = sequence, !.actions = actions]
      /\ mailbox' = Recorded(mailbox, sequence, k) /\ UNCHANGED <<body, tracker, told, commands>>
      /\ ui.actions < MaxActions
  BY <1>1, <1>2 DEF SetInput, Acts, Types
<1>4. MaxActions \in Nat
  BY ControlsAssumption
<1>5. sequence \in 0..MaxActions /\ actions \in 0..MaxActions /\ sequence <= actions /\ mailbox.sequence <= sequence
  BY <1>1, <1>2, <1>3, <1>4 DEF Types, Numbered, Mailboxes
<1>6. /\ ui' \in [held : Inputs, sequence : 0..MaxActions, actions : 0..MaxActions, resets : 0..MaxResets]
      /\ ui'.sequence = sequence /\ ui'.actions = actions
  BY <1>1, <1>3, <1>5 DEF Types
<1>7. /\ mailbox' \in Mailboxes /\ Len(mailbox'.journal) <= JournalCapacity
      /\ mailbox'.sequence = mailbox.sequence \/ mailbox'.sequence = sequence
      /\ mailbox'.pending = mailbox.pending /\ mailbox'.intended = mailbox.intended
  BY <1>1, <1>3, <1>5, RecordedLemma DEF Types
<1>8. Numbered'
  <2>1. mailbox'.sequence <= sequence
    BY <1>5, <1>7
  <2> QED BY <1>5, <1>6, <2>1 DEF Numbered
<1>9. LookExact'
  BY <1>1, <1>3, <1>7 DEF LookExact
<1> QED BY <1>1, <1>3, <1>6, <1>7, <1>8, <1>9, WindowStep DEF Types

LEMMA AddLookKeeps ==
  ASSUME IInv, NEW delta \in Yaws, AddLook(delta)
  PROVE  IInv'
<1>1. Types /\ Numbered /\ LookExact
  BY DEF IInv
<1>2. PICK actions, pending, intended :
        /\ actions = ui.actions + 1 /\ pending = (mailbox.pending + delta) % Turn
        /\ intended = IF mailbox.intended = None THEN None ELSE (mailbox.intended + delta) % Turn
  OBVIOUS
<1>3. /\ ui' = [ui EXCEPT !.actions = actions]
      /\ mailbox' = [mailbox EXCEPT !.pending = pending, !.intended = intended]
      /\ UNCHANGED <<body, tracker, told, commands>> /\ ui.actions < MaxActions
  BY <1>1, <1>2 DEF AddLook, Acts, Types, Mailboxes
<1>4. MaxActions \in Nat /\ Yaws \subseteq Nat
  BY ControlsAssumption DEF Yaws
<1>5. mailbox.pending \in Yaws /\ mailbox.intended \in Yaws \cup {None}
  BY <1>1 DEF Types, Mailboxes
<1>6. pending \in Yaws /\ intended \in Yaws \cup {None}
  <2>1. ASSUME NEW yaw \in Yaws PROVE (yaw + delta) % Turn \in Yaws
    <3>1. yaw + delta \in Nat
      BY <1>4
    <3> QED BY <3>1, Modulo
  <2> QED BY <1>2, <1>5, <2>1
<1>7. actions \in 0..MaxActions /\ ui.actions <= actions
  BY <1>1, <1>2, <1>3, <1>4 DEF Types
<1>8. /\ ui' \in [held : Inputs, sequence : 0..MaxActions, actions : 0..MaxActions, resets : 0..MaxResets]
      /\ ui'.sequence = ui.sequence /\ ui'.actions = actions
  BY <1>1, <1>3, <1>7 DEF Types
<1>9. /\ mailbox' \in Mailboxes /\ mailbox'.journal = mailbox.journal /\ mailbox'.sequence = mailbox.sequence
      /\ mailbox'.pending = pending /\ mailbox'.intended = intended
  BY <1>1, <1>3, <1>6 DEF Types, Mailboxes
<1>10. Numbered'
  <2>1. ui.sequence \in Nat /\ ui.actions \in Nat /\ actions \in Nat
    BY <1>1, <1>7 DEF Types
  <2>2. ui.sequence <= actions
    BY <1>1, <1>7, <2>1 DEF Numbered
  <2> QED BY <1>1, <1>8, <1>9, <2>2 DEF Numbered
<1>11. LookExact'
  <2>1. SUFFICES ASSUME body # None PROVE intended = (body.yaw + pending) % Turn
    BY <1>3, <1>9 DEF LookExact
  <2>2. body.yaw \in Yaws
    BY <1>1, <2>1 DEF Types, Poses
  <2>3. mailbox.intended = (body.yaw + mailbox.pending) % Turn
    BY <1>1, <2>1 DEF LookExact
  <2>4. mailbox.intended # None
    <3>1. PICK yaw, old : yaw = body.yaw /\ old = mailbox.pending
      OBVIOUS
    <3>2. yaw + old \in Nat
      <4>1. yaw \in Yaws /\ old \in Yaws
        BY <1>5, <2>2, <3>1
      <4>2. yaw \in Nat /\ old \in Nat
        BY <1>4, <4>1
      <4> QED BY <4>2
    <3>3. mailbox.intended \in Yaws
      BY <2>3, <3>1, <3>2, Modulo
    <3> QED BY <3>3, ControlsAssumption
  <2>5. PICK yaw, old : yaw = body.yaw /\ old = mailbox.pending
    OBVIOUS
  <2>6. (((yaw + old) % Turn) + delta) % Turn = (yaw + ((old + delta) % Turn)) % Turn
    BY <1>5, <2>2, <2>5, TurnTwice
  <2> QED BY <1>2, <2>3, <2>4, <2>5, <2>6
<1> QED BY <1>1, <1>3, <1>8, <1>9, <1>10, <1>11, WindowStep DEF Types

LEMMA InventoryActionKeeps ==
  ASSUME IInv, InventoryAction
  PROVE  IInv'
<1>1. Types /\ Numbered /\ LookExact
  BY DEF IInv
<1>2. PICK actions, queued : actions = ui.actions + 1 /\ queued = mailbox.commands + 1
  OBVIOUS
<1>3. /\ ui' = [ui EXCEPT !.actions = actions] /\ UNCHANGED <<body, tracker, told>> /\ ui.actions < MaxActions
  BY <1>2 DEF InventoryAction, Acts
<1>4. MaxActions \in Nat /\ CommandCapacity \in Nat
  BY ControlsAssumption
<1>5. actions \in 0..MaxActions /\ ui.actions <= actions
  BY <1>1, <1>2, <1>3, <1>4 DEF Types
<1>6. /\ ui' \in [held : Inputs, sequence : 0..MaxActions, actions : 0..MaxActions, resets : 0..MaxResets]
      /\ ui'.sequence = ui.sequence /\ ui'.actions = actions
  BY <1>1, <1>3, <1>5 DEF Types
<1>7. /\ mailbox' \in Mailboxes /\ mailbox'.journal = mailbox.journal /\ mailbox'.sequence = mailbox.sequence
      /\ mailbox'.pending = mailbox.pending /\ mailbox'.intended = mailbox.intended
      /\ commands' \in [accepted : Nat, served : Nat]
  <2>1. CASE mailbox.commands = CommandCapacity
    BY <1>1, <2>1 DEF InventoryAction, Types
  <2>2. CASE mailbox.commands # CommandCapacity
    <3>1. mailbox' = [mailbox EXCEPT !.commands = queued]
      BY <1>1, <1>2, <2>2 DEF InventoryAction, Types, Mailboxes
    <3>2. queued \in 0..CommandCapacity
      BY <1>1, <1>2, <1>4, <2>2 DEF Types, Mailboxes
    <3>3. commands' \in [accepted : Nat, served : Nat]
      BY <1>1, <2>2 DEF InventoryAction, Types
    <3> QED BY <1>1, <3>1, <3>2, <3>3 DEF Types, Mailboxes
  <2> QED BY <2>1, <2>2
<1>8. Numbered'
  <2>1. ui.sequence \in Nat /\ ui.actions \in Nat /\ actions \in Nat
    BY <1>1, <1>5 DEF Types
  <2>2. ui.sequence <= actions
    BY <1>1, <1>5, <2>1 DEF Numbered
  <2> QED BY <1>1, <1>6, <1>7, <2>2 DEF Numbered
<1>9. LookExact'
  BY <1>1, <1>3, <1>7 DEF LookExact
<1> QED BY <1>1, <1>3, <1>6, <1>7, <1>8, <1>9, WindowStep DEF Types


-----------------------------------------------------------------------------
(* The network task.                                                       *)

LEMMA TakenLemma ==
  ASSUME NEW m \in Mailboxes
  PROVE  /\ Taken(m) \in Mailboxes /\ Len(Taken(m).journal) <= JournalCapacity
         /\ Taken(m).sequence = m.sequence /\ Taken(m).intended = m.intended /\ Taken(m).pending = 0
<1>1. PICK a, b, c, r : /\ a = [m EXCEPT !.journal = <<>>] /\ b = [a EXCEPT !.coalesced = 0]
                        /\ c = [b EXCEPT !.pending = 0] /\ r = [c EXCEPT !.commands = 0]
  OBVIOUS
<1>2. 0 \in Yaws /\ 0 \in 0..CommandCapacity /\ JournalCapacity \in Nat
  BY ControlsAssumption DEF Yaws
<1>3. a \in Mailboxes /\ a.sequence = m.sequence /\ a.intended = m.intended /\ a.journal = <<>>
  BY <1>1, EmptySeq DEF Mailboxes
<1>4. b \in Mailboxes /\ b.sequence = m.sequence /\ b.intended = m.intended /\ b.journal = <<>>
  BY <1>1, <1>3 DEF Mailboxes
<1>5. c \in Mailboxes /\ c.sequence = m.sequence /\ c.intended = m.intended /\ c.journal = <<>> /\ c.pending = 0
  BY <1>1, <1>2, <1>4 DEF Mailboxes
<1>6. r \in Mailboxes /\ r.sequence = m.sequence /\ r.intended = m.intended /\ r.journal = <<>> /\ r.pending = 0
  BY <1>1, <1>2, <1>5 DEF Mailboxes
<1>7. Taken(m) = r
  BY <1>1 DEF Taken, Mailboxes
<1>8. Len(r.journal) = 0
  BY <1>6, EmptySeq
<1> QED BY <1>2, <1>6, <1>7, <1>8

LEMMA IdleTickKeeps ==
  ASSUME IInv, IdleTick
  PROVE  IInv'
<1>1. Types /\ Numbered
  BY DEF IInv
<1>2. mailbox' = Taken(mailbox) /\ body = None /\ UNCHANGED <<ui, body, tracker, told, commands>>
  BY DEF IdleTick
<1>3. mailbox' \in Mailboxes /\ Len(mailbox'.journal) <= JournalCapacity /\ mailbox'.sequence = mailbox.sequence
  BY <1>1, <1>2, TakenLemma DEF Types
<1>4. Numbered'
  BY <1>1, <1>2, <1>3 DEF Numbered
<1>5. LookExact'
  BY <1>2 DEF LookExact
<1> QED BY <1>1, <1>2, <1>3, <1>4, <1>5, WindowStep DEF Types

\* What Tell makes of the baselines and of what was told.
Known(pos, yaw) ==
  /\ tracker' \in Trackers /\ told' \in Tolds /\ SameKeys'
  /\ tracker'.pose # None /\ tracker'.pose.yaw = yaw /\ told'.yaw = yaw
  /\ told'.pos # None /\ (~told'.rebased => told'.pos = tracker'.pose.pos)
  /\ told'.age = tracker'.reminder /\ tracker'.reminder < ForcedInterval
  /\ ~told'.displaced /\ ~told'.rebased => Distance(told'.pos, pos) <= Epsilon

LEMMA TellLemma ==
  ASSUME IInv, body # None, NEW pos \in Positions, NEW yaw \in Yaws, NEW sprinting \in BOOLEAN,
         Tell(pos, yaw, sprinting)
  PROVE  Known(pos, yaw)
<1>1. Types /\ SameKeys /\ SamePose
  BY DEF IInv
<1>2. /\ tracker \in Trackers /\ told \in Tolds /\ mailbox.input \in Inputs /\ mailbox.journal \in Seq(Inputs)
  BY <1>1 DEF Types, Mailboxes
<1>3. /\ tracker.pose \in Poses /\ tracker.pose.yaw = told.yaw /\ told.pos # None
      /\ (~told.rebased => told.pos = tracker.pose.pos)
      /\ told.age = tracker.reminder /\ tracker.reminder < ForcedInterval
  BY <1>1, <1>2 DEF SamePose, Trackers
<1>4. ForcedInterval \in Nat /\ ForcedInterval >= 1 /\ Epsilon \in Nat /\ None \notin Positions /\ None \notin Poses
  BY ControlsAssumption DEF Poses
<1>5. PICK due : due = PositionDue(pos)
  OBVIOUS
<1>6. due \in BOOLEAN
  BY <1>5 DEF PositionDue
<1>7. PICK told1, base, pose, age, reminder, input, sprint, where, look, rebased :
        /\ told1 = told.pos
        /\ base = (IF due THEN pos ELSE tracker.pose.pos) /\ pose = [pos |-> base, yaw |-> yaw]
        /\ reminder = (IF due THEN 0 ELSE tracker.reminder + 1)
        /\ input = (IF \E k \in Range(mailbox.journal) \cup {mailbox.input} : k # tracker.input
                    THEN mailbox.input ELSE told.input)
        /\ sprint = (IF sprinting # tracker.sprinting THEN sprinting ELSE told.sprinting)
        /\ where = (IF due THEN pos ELSE told.pos)
        /\ look = (IF yaw # tracker.pose.yaw THEN yaw ELSE told.yaw)
        /\ age = (IF due THEN 0 ELSE IF told.age < ForcedInterval THEN told.age + 1 ELSE told.age)
        /\ rebased = (told.rebased /\ ~due)
  OBVIOUS
<1>8. tracker' = [pose |-> pose, input |-> mailbox.input, sprinting |-> sprinting, reminder |-> reminder]
  BY <1>5, <1>7 DEF Tell
<1>9. told' = [input |-> input, sprinting |-> sprint, pos |-> where, yaw |-> look, age |-> age,
               displaced |-> FALSE, rebased |-> rebased]
  BY <1>5, <1>7 DEF Tell
<1>10. input = mailbox.input
  <2>1. tracker.input = told.input
    BY <1>1 DEF SameKeys
  <2> QED BY <1>7, <2>1
<1>11. sprint = sprinting
  <2>1. tracker.sprinting = told.sprinting
    BY <1>1 DEF SameKeys
  <2> QED BY <1>7, <2>1
<1>12. look = yaw
  BY <1>3, <1>7
<1>13. base \in Positions /\ pose \in Poses /\ pose.yaw = yaw /\ pose.pos = base
  BY <1>3, <1>7 DEF Poses
<1>14. where \in Positions
  <2>1. told.pos \in Positions
    BY <1>2, <1>3 DEF Tolds
  <2> QED BY <1>7, <2>1
<1>15. rebased \in BOOLEAN /\ (~rebased => where = base)
  <2>1. CASE due
    BY <1>7, <2>1
  <2>2. CASE ~due
    <3>1. told.rebased \in BOOLEAN
      BY <1>2 DEF Tolds
    <3> QED BY <1>3, <1>7, <2>2, <3>1
  <2> QED BY <1>6, <2>1, <2>2
<1>16. reminder \in 0..ForcedInterval /\ age = reminder /\ reminder < ForcedInterval
  <2>1. CASE due
    BY <1>4, <1>7, <2>1
  <2>2. CASE ~due
    <3>1. tracker.reminder \in 0..ForcedInterval
      BY <1>2 DEF Trackers
    <3>2. ~(tracker.reminder + 1 >= ForcedInterval)
      BY <1>5, <2>2 DEF PositionDue
    <3> QED BY <1>3, <1>4, <1>7, <2>2, <3>1, <3>2
  <2> QED BY <1>6, <2>1, <2>2
<1>17. ~rebased => Distance(where, pos) <= Epsilon
  <2>1. SUFFICES ASSUME ~rebased PROVE Distance(base, pos) <= Epsilon
    BY <1>15
  <2>2. pos \in Nat /\ base \in Nat
    BY <1>13, ControlsAssumption DEF Positions
  <2>3. CASE due
    BY <1>4, <1>7, <2>2, <2>3 DEF Distance
  <2>4. CASE ~due
    <3>1. ~(Distance(pos, base) > Epsilon)
      BY <1>5, <1>7, <2>4 DEF PositionDue
    <3> QED BY <1>4, <2>2, <3>1 DEF Distance
  <2> QED BY <1>6, <2>3, <2>4
<1>18. tracker' \in Trackers
  BY <1>2, <1>8, <1>13, <1>16 DEF Trackers
<1>19. told' \in Tolds
  BY <1>2, <1>9, <1>10, <1>11, <1>12, <1>14, <1>15, <1>16 DEF Tolds
<1>20. SameKeys'
  BY <1>8, <1>9, <1>10, <1>11 DEF SameKeys
<1>21. /\ tracker'.pose = pose /\ tracker'.reminder = reminder /\ told'.yaw = yaw /\ told'.pos = where
       /\ told'.age = age /\ told'.rebased = rebased /\ told'.displaced = FALSE
  BY <1>8, <1>9, <1>12
<1> QED BY <1>4, <1>13, <1>14, <1>15, <1>16, <1>17, <1>18, <1>19, <1>20, <1>21 DEF Known

\* A step that leaves the simulation at a position and a yaw that are known, with no look pending
\* that the yaw does not include.
LEMMA KnownStep ==
  ASSUME IInv, NEW pos \in Positions, NEW yaw \in Yaws, Known(pos, yaw),
         body' = [pos |-> pos, yaw |-> yaw], ui' = ui,
         mailbox' \in Mailboxes, Len(mailbox'.journal) <= JournalCapacity, mailbox'.sequence = mailbox.sequence,
         mailbox'.pending = 0, mailbox'.intended = yaw, commands' \in [accepted : Nat, served : Nat]
  PROVE  IInv'
<1>1. Types /\ Numbered
  BY DEF IInv
<1>2. body' \in Poses /\ body'.pos = pos /\ body'.yaw = yaw
  BY DEF Poses
<1>3. Types'
  BY <1>1, <1>2 DEF Types, Known
<1>4. Numbered'
  BY <1>1 DEF Numbered
<1>5. SameKeys' /\ SamePose'
  BY <1>2 DEF Known, SamePose
<1>6. LookExact'
  BY <1>2, TurnNone DEF LookExact
<1> QED BY <1>3, <1>4, <1>5, <1>6 DEF IInv

LEMMA TickKeeps ==
  ASSUME IInv, NEW pos \in Positions, NEW sprinting \in BOOLEAN, Tick(pos, sprinting)
  PROVE  IInv'
<1>1. Types /\ LookExact /\ body # None
  BY DEF IInv, Tick
<1>2. body \in Poses
  BY <1>1 DEF Types
<1>3. PICK yaw : yaw = SampledYaw
  OBVIOUS
<1>4. /\ mailbox' = Taken(mailbox) /\ body' = [pos |-> pos, yaw |-> yaw] /\ Tell(pos, yaw, sprinting) /\ ui' = ui
      /\ commands' = [commands EXCEPT !.served = @ + mailbox.commands]
  BY <1>3 DEF Tick
<1>5. mailbox.intended \in Yaws /\ yaw = mailbox.intended
  <2>1. PICK look, old : look = body.yaw /\ old = mailbox.pending
    OBVIOUS
  <2>2. look \in Yaws /\ old \in Yaws
    BY <1>1, <1>2, <2>1 DEF Types, Mailboxes, Poses
  <2>3. look \in Nat /\ old \in Nat
    BY <2>2 DEF Yaws
  <2>4. look + old \in Nat
    BY <2>3
  <2>5. mailbox.intended = (look + old) % Turn
    BY <1>1, <2>1 DEF LookExact
  <2>6. mailbox.intended \in Yaws
    BY <2>4, <2>5, Modulo
  <2>7. None \notin Yaws
    BY ControlsAssumption
  <2> QED BY <1>3, <2>6, <2>7 DEF SampledYaw
<1>6. Known(pos, yaw)
  BY <1>1, <1>4, <1>5, TellLemma
<1>7. /\ mailbox' \in Mailboxes /\ Len(mailbox'.journal) <= JournalCapacity
      /\ mailbox'.sequence = mailbox.sequence /\ mailbox'.intended = mailbox.intended /\ mailbox'.pending = 0
  BY <1>1, <1>4, TakenLemma DEF Types
<1>8. commands' \in [accepted : Nat, served : Nat]
  <2>1. mailbox.commands \in Nat
    BY <1>1 DEF Types, Mailboxes
  <2> QED BY <1>1, <1>4, <2>1 DEF Types
<1> QED BY <1>4, <1>5, <1>6, <1>7, <1>8, KnownStep

LEMMA RebasedLemma ==
  ASSUME NEW m \in Mailboxes, NEW yaw \in Yaws
  PROVE  /\ Rebased(m, yaw) \in Mailboxes /\ Rebased(m, yaw).journal = m.journal
         /\ Rebased(m, yaw).sequence = m.sequence /\ Rebased(m, yaw).intended = yaw /\ Rebased(m, yaw).pending = 0
<1>1. 0 \in Yaws
  BY TurnNone
<1>2. PICK a, r : a = [m EXCEPT !.pending = 0] /\ r = [a EXCEPT !.intended = yaw]
  OBVIOUS
<1>3. a \in Mailboxes /\ a.journal = m.journal /\ a.sequence = m.sequence /\ a.pending = 0
  BY <1>1, <1>2 DEF Mailboxes
<1>4. r \in Mailboxes /\ r.journal = m.journal /\ r.sequence = m.sequence /\ r.intended = yaw /\ r.pending = 0
  BY <1>2, <1>3 DEF Mailboxes
<1>5. Rebased(m, yaw) = r
  BY <1>2 DEF Rebased, Mailboxes
<1> QED BY <1>4, <1>5

LEMMA BaselineLemma ==
  ASSUME tracker \in Trackers, NEW pos \in Positions, NEW yaw \in Yaws
  PROVE  /\ Baseline(pos, yaw) \in Trackers /\ Baseline(pos, yaw).input = tracker.input
         /\ Baseline(pos, yaw).sprinting = tracker.sprinting /\ Baseline(pos, yaw).reminder = 0
         /\ Baseline(pos, yaw).pose = [pos |-> pos, yaw |-> yaw] /\ Baseline(pos, yaw).pose # None
<1>1. PICK pose, a, r : /\ pose = [pos |-> pos, yaw |-> yaw] /\ a = [tracker EXCEPT !.pose = pose]
                        /\ r = [a EXCEPT !.reminder = 0]
  OBVIOUS
<1>2. pose \in Poses /\ pose # None /\ 0 \in 0..ForcedInterval
  BY <1>1, ControlsAssumption DEF Poses
<1>3. a \in Trackers /\ a.input = tracker.input /\ a.sprinting = tracker.sprinting /\ a.pose = pose
  BY <1>1, <1>2 DEF Trackers
<1>4. r \in Trackers /\ r.input = tracker.input /\ r.sprinting = tracker.sprinting /\ r.pose = pose /\ r.reminder = 0
  BY <1>1, <1>2, <1>3 DEF Trackers
<1>5. Baseline(pos, yaw) = r
  BY <1>1 DEF Baseline, Trackers
<1> QED BY <1>1, <1>2, <1>4, <1>5


LEMMA TeleportKeeps ==
  ASSUME IInv, NEW pos \in Positions, NEW yaw \in Yaws, Teleport(pos, yaw)
  PROVE  IInv'
<1>1. Types /\ SameKeys
  BY DEF IInv
<1>2. /\ body' = [pos |-> pos, yaw |-> yaw] /\ mailbox' = Rebased(mailbox, yaw)
      /\ tracker' = Baseline(pos, yaw) /\ UNCHANGED <<ui, commands>>
      /\ told' = [told EXCEPT !.pos = pos, !.yaw = yaw, !.age = 0, !.displaced = FALSE, !.rebased = FALSE]
  BY DEF Teleport
<1>3. PICK a, b, c, d : /\ a = [told EXCEPT !.pos = pos] /\ b = [a EXCEPT !.yaw = yaw]
                        /\ c = [b EXCEPT !.age = 0] /\ d = [c EXCEPT !.displaced = FALSE]
  OBVIOUS
<1>4. told \in Tolds /\ 0 \in 0..ForcedInterval /\ Epsilon >= 0 /\ None \notin Positions /\ ForcedInterval > 0
  BY <1>1, ControlsAssumption DEF Types
<1>5. a \in Tolds /\ a.pos = pos /\ a.input = told.input /\ a.sprinting = told.sprinting
  BY <1>3, <1>4 DEF Tolds
<1>6. b \in Tolds /\ b.pos = pos /\ b.input = told.input /\ b.sprinting = told.sprinting /\ b.yaw = yaw
  BY <1>3, <1>5 DEF Tolds
<1>7. c \in Tolds /\ c.pos = pos /\ c.input = told.input /\ c.sprinting = told.sprinting /\ c.yaw = yaw /\ c.age = 0
  BY <1>3, <1>4, <1>6 DEF Tolds
<1>8. d \in Tolds /\ d.pos = pos /\ d.input = told.input /\ d.sprinting = told.sprinting /\ d.yaw = yaw /\ d.age = 0
  BY <1>3, <1>7 DEF Tolds
<1>9. told' = [d EXCEPT !.rebased = FALSE]
  BY <1>2, <1>3, <1>4 DEF Tolds
<1>10. /\ told' \in Tolds /\ told'.pos = pos /\ told'.input = told.input /\ told'.sprinting = told.sprinting
       /\ told'.yaw = yaw /\ told'.age = 0
  BY <1>8, <1>9 DEF Tolds
<1>11. /\ tracker' \in Trackers /\ tracker'.input = tracker.input /\ tracker'.sprinting = tracker.sprinting
       /\ tracker'.reminder = 0 /\ tracker'.pose = [pos |-> pos, yaw |-> yaw] /\ tracker'.pose # None
  BY <1>1, <1>2, BaselineLemma DEF Types
<1>12. Distance(pos, pos) <= Epsilon
  BY <1>4, ControlsAssumption DEF Distance, Positions
<1>13. SameKeys'
  BY <1>1, <1>10, <1>11 DEF SameKeys
<1>14. Known(pos, yaw)
  BY <1>4, <1>10, <1>11, <1>12, <1>13 DEF Known
<1>15. /\ mailbox' \in Mailboxes /\ mailbox'.journal = mailbox.journal /\ mailbox'.sequence = mailbox.sequence
       /\ mailbox'.intended = yaw /\ mailbox'.pending = 0
  BY <1>1, <1>2, RebasedLemma DEF Types
<1>16. Len(mailbox'.journal) <= JournalCapacity /\ commands' \in [accepted : Nat, served : Nat] /\ ui' = ui
  BY <1>1, <1>2, <1>15 DEF Types
<1> QED BY <1>2, <1>14, <1>15, <1>16, KnownStep

LEMMA RotateKeeps ==
  ASSUME IInv, NEW yaw \in Yaws, Rotate(yaw)
  PROVE  IInv'
<1>1. Types /\ SameKeys /\ SamePose /\ body # None
  BY DEF IInv, Rotate
<1>2. PICK pos, rebased : pos = body.pos /\ rebased = (told.rebased \/ told.pos # pos)
  OBVIOUS
<1>3. told \in Tolds /\ body \in Poses
  BY <1>1 DEF Types
<1>4. pos \in Positions /\ rebased \in BOOLEAN
  BY <1>2, <1>3 DEF Poses, Tolds
<1>5. /\ body' = [body EXCEPT !.yaw = yaw] /\ mailbox' = Rebased(mailbox, yaw)
      /\ tracker' = Baseline(pos, yaw) /\ UNCHANGED <<ui, commands>>
      /\ told' = [told EXCEPT !.yaw = yaw, !.age = 0, !.rebased = rebased]
  BY <1>2, <1>3 DEF Rotate, Tolds
<1>6. body' = [pos |-> pos, yaw |-> yaw]
  BY <1>2, <1>3, <1>5 DEF Poses
<1>7. PICK a, b : a = [told EXCEPT !.yaw = yaw] /\ b = [a EXCEPT !.age = 0]
  OBVIOUS
<1>8. 0 \in 0..ForcedInterval /\ Epsilon >= 0 /\ ForcedInterval > 0
  BY ControlsAssumption
<1>9. /\ a \in Tolds /\ a.yaw = yaw /\ a.input = told.input /\ a.sprinting = told.sprinting /\ a.pos = told.pos
  BY <1>3, <1>7 DEF Tolds
<1>10. /\ b \in Tolds /\ b.yaw = yaw /\ b.input = told.input /\ b.sprinting = told.sprinting /\ b.pos = told.pos
       /\ b.age = 0
  BY <1>7, <1>8, <1>9 DEF Tolds
<1>11. told' = [b EXCEPT !.rebased = rebased]
  BY <1>3, <1>5, <1>7 DEF Tolds
<1>12. /\ told' \in Tolds /\ told'.yaw = yaw /\ told'.input = told.input /\ told'.sprinting = told.sprinting
       /\ told'.pos = told.pos /\ told'.age = 0 /\ told'.rebased = rebased
  BY <1>4, <1>10, <1>11 DEF Tolds
<1>13. /\ tracker' \in Trackers /\ tracker'.input = tracker.input /\ tracker'.sprinting = tracker.sprinting
       /\ tracker'.reminder = 0 /\ tracker'.pose = [pos |-> pos, yaw |-> yaw] /\ tracker'.pose # None
  BY <1>1, <1>4, <1>5, BaselineLemma DEF Types
<1>14. told.pos # None
  BY <1>1 DEF SamePose
<1>15. ~rebased => told.pos = pos
  BY <1>2
<1>16. Distance(pos, pos) <= Epsilon
  BY <1>4, <1>8, ControlsAssumption DEF Distance, Positions
<1>17. SameKeys'
  BY <1>1, <1>12, <1>13 DEF SameKeys
<1>18. Known(pos, yaw)
  BY <1>8, <1>12, <1>13, <1>14, <1>15, <1>16, <1>17 DEF Known
<1>19. /\ mailbox' \in Mailboxes /\ mailbox'.journal = mailbox.journal /\ mailbox'.sequence = mailbox.sequence
       /\ mailbox'.intended = yaw /\ mailbox'.pending = 0
  BY <1>1, <1>5, RebasedLemma DEF Types
<1>20. Len(mailbox'.journal) <= JournalCapacity /\ commands' \in [accepted : Nat, served : Nat] /\ ui' = ui
  BY <1>1, <1>5, <1>19 DEF Types
<1> QED BY <1>4, <1>6, <1>18, <1>19, <1>20, KnownStep

LEMMA RollBackKeeps ==
  ASSUME IInv, NEW pos \in Positions, RollBack(pos)
  PROVE  IInv'
<1>1. Types /\ Numbered /\ SameKeys /\ SamePose /\ LookExact
  BY DEF IInv
<1>2. /\ body # None /\ body' = [body EXCEPT !.pos = pos] /\ told' = [told EXCEPT !.displaced = TRUE]
      /\ UNCHANGED <<ui, mailbox, tracker, commands>>
  BY DEF RollBack
<1>3. body' \in Poses /\ body'.yaw = body.yaw
  BY <1>1, <1>2 DEF Types, Poses
<1>4. /\ told' \in Tolds /\ told'.displaced /\ told'.input = told.input /\ told'.sprinting = told.sprinting
      /\ told'.yaw = told.yaw /\ told'.pos = told.pos /\ told'.age = told.age /\ told'.rebased = told.rebased
  BY <1>1, <1>2 DEF Types, Tolds
<1>5. Types'
  BY <1>1, <1>2, <1>3, <1>4 DEF Types
<1>6. Numbered' /\ SameKeys'
  BY <1>1, <1>2, <1>4 DEF Numbered, SameKeys
<1>7. SamePose'
  BY <1>1, <1>2, <1>3, <1>4 DEF SamePose
<1>8. LookExact'
  BY <1>1, <1>2, <1>3 DEF LookExact
<1> QED BY <1>5, <1>6, <1>7, <1>8 DEF IInv

LEMMA ResetKeeps ==
  ASSUME IInv, Reset
  PROVE  IInv'
<1>1. Types /\ Numbered
  BY DEF IInv
<1>2. PICK resets : resets = ui.resets + 1
  OBVIOUS
<1>3. /\ ui' = [ui EXCEPT !.resets = resets] /\ ui.resets < MaxResets /\ body' = None /\ tracker' = FreshTracker
      /\ mailbox' = [mailbox EXCEPT !.pending = 0, !.intended = None] /\ commands' = commands
      /\ told' = [input |-> {}, sprinting |-> FALSE, pos |-> None, yaw |-> None,
                  age |-> 0, displaced |-> FALSE, rebased |-> FALSE]
  BY <1>2 DEF Reset, TrackerAfterReset
<1>4. resets \in 0..MaxResets
  BY <1>1, <1>2, <1>3, ControlsAssumption DEF Types
<1>5. /\ ui' \in [held : Inputs, sequence : 0..MaxActions, actions : 0..MaxActions, resets : 0..MaxResets]
      /\ ui'.sequence = ui.sequence /\ ui'.actions = ui.actions
  BY <1>1, <1>3, <1>4 DEF Types
<1>6. PICK a : a = [mailbox EXCEPT !.pending = 0]
  OBVIOUS
<1>7. 0 \in Yaws /\ 0 \in 0..ForcedInterval
  BY ControlsAssumption DEF Yaws
<1>8. a \in Mailboxes /\ a.journal = mailbox.journal /\ a.sequence = mailbox.sequence
  BY <1>1, <1>6, <1>7 DEF Types, Mailboxes
<1>9. mailbox' = [a EXCEPT !.intended = None]
  BY <1>1, <1>3, <1>6 DEF Types, Mailboxes
<1>10. mailbox' \in Mailboxes /\ mailbox'.journal = mailbox.journal /\ mailbox'.sequence = mailbox.sequence
  BY <1>8, <1>9 DEF Mailboxes
<1>11. tracker' \in Trackers /\ told' \in Tolds /\ SameKeys'
  BY <1>3, <1>7 DEF Trackers, Tolds, FreshTracker, SameKeys, Inputs
<1>12. Types'
  BY <1>1, <1>3, <1>5, <1>10, <1>11 DEF Types
<1>13. Numbered'
  BY <1>1, <1>5, <1>10 DEF Numbered
<1>14. SamePose' /\ LookExact'
  BY <1>3 DEF SamePose, LookExact
<1> QED BY <1>11, <1>12, <1>13, <1>14 DEF IInv

-----------------------------------------------------------------------------
(* The theorems.                                                           *)

LEMMA InitInv ==
  Init => IInv
<1> SUFFICES ASSUME Init PROVE IInv
  OBVIOUS
<1>1. /\ 0 \in Yaws /\ 0 \in 0..ForcedInterval /\ 0 \in 0..MaxActions /\ 0 \in 0..MaxResets
      /\ 0 \in 0..CommandCapacity /\ 0 <= JournalCapacity /\ {} \in Inputs
  BY ControlsAssumption DEF Yaws, Inputs
<1>2. mailbox \in Mailboxes /\ mailbox.journal = <<>> /\ mailbox.sequence = 0
  BY <1>1, EmptySeq DEF Init, Mailboxes
<1>3. Len(mailbox.journal) = 0
  BY <1>2, EmptySeq
<1>4. tracker \in Trackers /\ told \in Tolds /\ SameKeys
  BY <1>1 DEF Init, FreshTracker, Trackers, Tolds, SameKeys
<1>5. /\ ui \in [held : Inputs, sequence : 0..MaxActions, actions : 0..MaxActions, resets : 0..MaxResets]
      /\ ui.sequence = 0 /\ ui.actions = 0
  BY <1>1 DEF Init
<1>6. body = None /\ commands \in [accepted : Nat, served : Nat]
  BY DEF Init
<1>7. Types /\ Numbered
  BY <1>1, <1>2, <1>3, <1>4, <1>5, <1>6 DEF Types, Numbered
<1>8. SamePose /\ LookExact
  BY <1>6 DEF SamePose, LookExact
<1> QED BY <1>4, <1>7, <1>8 DEF IInv

LEMMA NextInv ==
  IInv /\ [Next]_vars => IInv'
<1> SUFFICES ASSUME IInv, [Next]_vars PROVE IInv'
  OBVIOUS
<1>1. CASE User
  <2>1. CASE \E k \in Inputs : SetInput(k)
    BY <2>1, SetInputKeeps
  <2>2. CASE \E delta \in Yaws \ {0} : AddLook(delta)
    BY <2>2, AddLookKeeps
  <2>3. CASE InventoryAction
    BY <2>3, InventoryActionKeeps
  <2> QED BY <1>1, <2>1, <2>2, <2>3 DEF User
<1>2. CASE Ticks
  <2>1. CASE IdleTick
    BY <2>1, IdleTickKeeps
  <2>2. CASE \E pos \in Positions, sprinting \in BOOLEAN : Tick(pos, sprinting)
    BY <2>2, TickKeeps
  <2> QED BY <1>2, <2>1, <2>2 DEF Ticks
<1>3. CASE Reset
  BY <1>3, ResetKeeps
<1>4. CASE \E pos \in Positions, yaw \in Yaws : Teleport(pos, yaw)
  BY <1>4, TeleportKeeps
<1>5. CASE \E yaw \in Yaws : Rotate(yaw)
  BY <1>5, RotateKeeps
<1>6. CASE \E pos \in Positions : RollBack(pos)
  BY <1>6, RollBackKeeps
<1>7. CASE UNCHANGED vars
  BY <1>7 DEF vars, IInv, Types, Numbered, SameKeys, SamePose, LookExact
<1> QED BY <1>1, <1>2, <1>3, <1>4, <1>5, <1>6, <1>7 DEF Next

LEMMA ImpliesTypeOK == IInv => TypeOK
<1> SUFFICES ASSUME Types PROVE TypeOK
  BY DEF IInv
<1> QED BY DEF Types, TypeOK, Mailboxes, Trackers, Tolds, Poses

LEMMA ImpliesInformed == IInv => ServerInformed
<1> SUFFICES ASSUME SameKeys, SamePose, Types PROVE ServerInformed
  BY DEF IInv
<1>1. PositionKnown
  BY DEF SamePose, PositionKnown
<1>2. body # None => told.yaw = body.yaw /\ tracker.pose.yaw = body.yaw
  BY DEF SamePose
<1>3. tracker.input = told.input /\ tracker.sprinting = told.sprinting
  BY DEF SameKeys
<1> QED BY <1>1, <1>2, <1>3 DEF ServerInformed

\* The invariant of the controls: the window numbers its inputs, and while a simulation runs the
\* tracker's baselines are what the frames written so far have told the server.
THEOREM Inductive == Spec => []IInv
BY InitInv, NextInv, PTL DEF Spec

\* The journal and the command mailbox never exceed their capacities, the reminder never its
\* interval, and every angle stays within a turn.
THEOREM TypeCorrect == Spec => []TypeOK
BY ImpliesTypeOK, Inductive, PTL

\* No motion of the mouse is lost or applied twice: not by a tick, a correction or a reset, nor by
\* motion that comes between two of them.
THEOREM NoLookLost == Spec => []LookExact
<1>1. IInv => LookExact
  BY DEF IInv
<1> QED BY <1>1, Inductive, PTL

\* The server knows keys, sprint and look as they were sent, the position up to Epsilon, and is told
\* it again before ForcedInterval ticks have gone by.
THEOREM ServerStaysInformed == Spec => []ServerInformed
BY ImpliesInformed, Inductive, PTL

-----------------------------------------------------------------------------
(* Collision.                                                              *)

Vectors == [Axes -> Int]
Boxes == [lo : Vectors, hi : Vectors]

\* A displacement that goes no further than the one that was asked for.
Within(v, d) == v \in Int /\ (IF d > 0 THEN v \in 0 .. d ELSE v \in d .. 0)

LEMMA Smallest ==
  ASSUME NEW T, T \subseteq Nat, T # {}
  PROVE  Min(T) \in T /\ \A m \in T : Min(T) <= m
<1> DEFINE R == {ss \in Nat \X Nat : ss[1] < ss[2]}
<1>1. IsWellFoundedOn(R, Nat)
  BY NatLessThanWellFounded DEF OpToRel
<1> HIDE DEF R
<1>2. PICK n \in T : \A m \in T : ~(<<m, n>> \in R)
  BY <1>1, WFMin
<1>3. \A m \in T : n <= m
  <2> TAKE m \in T
  <2>1. <<m, n>> \notin R /\ m \in Nat /\ n \in Nat
    BY <1>2
  <2> QED BY <2>1 DEF R
<1> QED BY <1>3 DEF Min

LEMMA Greatest ==
  ASSUME NEW T, T \subseteq Int, \A t \in T : t <= 0, T # {}
  PROVE  Max(T) \in T /\ \A m \in T : m <= Max(T)
<1> DEFINE N == {-t : t \in T}
<1>1. N \subseteq Nat /\ N # {}
  <2>1. \A t \in T : -t \in Nat
    OBVIOUS
  <2> QED BY <2>1
<1>2. Min(N) \in N /\ \A m \in N : Min(N) <= m
  BY <1>1, Smallest
<1>3. PICK t \in T : Min(N) = -t
  BY <1>2
<1>4. \A m \in T : -t <= -m
  BY <1>2, <1>3
<1>5. \A m \in T : t >= m
  BY <1>4
<1> QED BY <1>5 DEF Max

LEMMA OfTwo ==
  ASSUME NEW a \in Int, NEW b \in Int
  PROVE  /\ Min({a, b}) = IF a <= b THEN a ELSE b
         /\ Max({a, b}) = IF a <= b THEN b ELSE a
<1> DEFINE n == IF a <= b THEN a ELSE b
<1> DEFINE x == IF a <= b THEN b ELSE a
<1>1. n \in {a, b} /\ \A y \in {a, b} : n <= y
  OBVIOUS
<1>2. \A m \in {a, b} : (\A y \in {a, b} : m <= y) => m = n
  OBVIOUS
<1>3. x \in {a, b} /\ \A y \in {a, b} : x >= y
  OBVIOUS
<1>4. \A m \in {a, b} : (\A y \in {a, b} : m >= y) => m = x
  OBVIOUS
<1> HIDE DEF n, x
<1>5. Min({a, b}) = n
  BY <1>1, <1>2 DEF Min
<1>6. Max({a, b}) = x
  BY <1>3, <1>4 DEF Max
<1> QED BY <1>5, <1>6 DEF n, x

LEMMA ThreeAxes == Axes = {1, 2, 3}
BY DEF Axes

LEMMA Triple ==
  ASSUME NEW x \in Int, NEW y \in Int, NEW z \in Int
  PROVE  <<x, y, z>> \in Vectors /\ <<x, y, z>>[1] = x /\ <<x, y, z>>[2] = y /\ <<x, y, z>>[3] = z
BY DEF Vectors, Axes

LEMMA PlusType ==
  ASSUME NEW u \in Vectors, NEW v \in Vectors
  PROVE  Plus(u, v) \in Vectors /\ \A a \in Axes : Plus(u, v)[a] = u[a] + v[a]
<1>1. /\ u[1] + v[1] \in Int /\ u[2] + v[2] \in Int /\ u[3] + v[3] \in Int
  BY DEF Vectors, Axes
<1> QED BY <1>1, Triple, ThreeAxes DEF Plus

LEMMA AlongType ==
  ASSUME NEW axis \in Axes, NEW delta \in Int
  PROVE  /\ Along(axis, delta) \in Vectors
         /\ \A a \in Axes : Along(axis, delta)[a] = IF a = axis THEN delta ELSE 0
BY Triple, ThreeAxes DEF Along, Vectors, Axes

LEMMA MovedType ==
  ASSUME NEW box \in Boxes, NEW d \in Vectors
  PROVE  /\ Moved(box, d) \in Boxes
         /\ \A a \in Axes : /\ Moved(box, d).lo[a] = box.lo[a] + d[a]
                            /\ Moved(box, d).hi[a] = box.hi[a] + d[a]
<1>1. box.lo \in Vectors /\ box.hi \in Vectors
  BY DEF Boxes
<1>2. Plus(box.lo, d) \in Vectors /\ \A a \in Axes : Plus(box.lo, d)[a] = box.lo[a] + d[a]
  BY <1>1, PlusType
<1>3. Plus(box.hi, d) \in Vectors /\ \A a \in Axes : Plus(box.hi, d)[a] = box.hi[a] + d[a]
  BY <1>1, PlusType
<1> QED BY <1>2, <1>3 DEF Moved, Boxes

LEMMA ResolveSound ==
  ASSUME NEW axis \in Axes, NEW box \in Boxes, NEW delta \in Int, NEW obstacles \in SUBSET Boxes
  PROVE  /\ Within(Resolve(axis, box, delta, obstacles), delta)
         /\ \A o \in obstacles :
              ~Inside(box, o) =>
                ~Inside(Moved(box, Along(axis, Resolve(axis, box, delta, obstacles))), o)
<1> DEFINE beside == {o \in obstacles : \A a \in Axes \ {axis} : Overlap(box, o, a)}
<1> DEFINE before == {b \in beside : box.hi[axis] <= b.lo[axis]}
<1> DEFINE behind == {b \in beside : box.lo[axis] >= b.hi[axis]}
<1> DEFINE P == {delta} \cup {o.lo[axis] - box.hi[axis] : o \in before}
<1> DEFINE N == {delta} \cup {o.hi[axis] - box.lo[axis] : o \in behind}
<1>1. Resolve(axis, box, delta, obstacles) = IF delta > 0 THEN Min(P) ELSE Max(N)
  BY DEF Resolve
<1>2. /\ box.lo[axis] \in Int /\ box.hi[axis] \in Int
      /\ \A o \in obstacles : o.lo[axis] \in Int /\ o.hi[axis] \in Int
  BY DEF Boxes, Vectors
<1>3. CASE delta > 0
  <2>1. P \subseteq Nat /\ P # {}
    BY <1>2, <1>3
  <2>2. Min(P) \in P /\ \A m \in P : Min(P) <= m
    BY <2>1, Smallest
  <2>3. PICK r \in Nat : r = Min(P)
    BY <2>1, <2>2
  <2>4. r <= delta /\ \A o \in before : r <= o.lo[axis] - box.hi[axis]
    BY <2>2, <2>3
  <2>5. Resolve(axis, box, delta, obstacles) = r
    BY <1>1, <1>3, <2>3
  <2>6. ASSUME NEW o \in obstacles, ~Inside(box, o)
        PROVE  ~Inside(Moved(box, Along(axis, r)), o)
    <3> DEFINE new == Moved(box, Along(axis, r))
    <3>1. \A a \in Axes : /\ new.lo[a] = box.lo[a] + (IF a = axis THEN r ELSE 0)
                          /\ new.hi[a] = box.hi[a] + (IF a = axis THEN r ELSE 0)
      <4>1. r \in Int
        OBVIOUS
      <4>2. /\ Along(axis, r) \in Vectors
            /\ \A a \in Axes : Along(axis, r)[a] = IF a = axis THEN r ELSE 0
        BY <4>1, AlongType
      <4> QED BY <4>2, MovedType
    <3>2. \A a \in Axes : box.lo[a] \in Int /\ box.hi[a] \in Int /\ o.lo[a] \in Int /\ o.hi[a] \in Int
      BY DEF Boxes, Vectors
    <3> HIDE DEF new
    <3>3. CASE o \in beside
      <4>1. ~Overlap(box, o, axis)
        BY <2>6, <3>3 DEF Inside
      <4>2. CASE box.hi[axis] <= o.lo[axis]
        <5>1. r <= o.lo[axis] - box.hi[axis]
          BY <2>4, <3>3, <4>2
        <5>2. ~Overlap(new, o, axis)
          BY <3>1, <3>2, <5>1 DEF Overlap
        <5> QED BY <5>2 DEF Inside, new
      <4>3. CASE box.lo[axis] >= o.hi[axis]
        <5>1. ~Overlap(new, o, axis)
          BY <3>1, <3>2, <4>3 DEF Overlap
        <5> QED BY <5>1 DEF Inside, new
      <4> QED BY <3>2, <4>1, <4>2, <4>3 DEF Overlap
    <3>4. CASE o \notin beside
      <4>1. PICK a \in Axes \ {axis} : ~Overlap(box, o, a)
        BY <3>4
      <4>2. ~Overlap(new, o, a)
        BY <3>1, <3>2, <4>1 DEF Overlap
      <4> QED BY <4>2 DEF Inside, new
    <3> QED BY <3>3, <3>4
  <2> QED BY <1>3, <2>3, <2>4, <2>5, <2>6 DEF Within
<1>4. CASE ~(delta > 0)
  <2>1. N \subseteq Int /\ N # {} /\ \A m \in N : m <= 0
    BY <1>2, <1>4
  <2>2. Max(N) \in N /\ \A m \in N : m <= Max(N)
    BY <2>1, Greatest
  <2>3. PICK r \in Int : r = Max(N)
    BY <2>1, <2>2
  <2>4. delta <= r /\ r <= 0 /\ \A o \in behind : o.hi[axis] - box.lo[axis] <= r
    BY <2>1, <2>2, <2>3
  <2>5. Resolve(axis, box, delta, obstacles) = r
    BY <1>1, <1>4, <2>3
  <2>6. ASSUME NEW o \in obstacles, ~Inside(box, o)
        PROVE  ~Inside(Moved(box, Along(axis, r)), o)
    <3> DEFINE new == Moved(box, Along(axis, r))
    <3>1. \A a \in Axes : /\ new.lo[a] = box.lo[a] + (IF a = axis THEN r ELSE 0)
                          /\ new.hi[a] = box.hi[a] + (IF a = axis THEN r ELSE 0)
      <4>1. r \in Int
        OBVIOUS
      <4>2. /\ Along(axis, r) \in Vectors
            /\ \A a \in Axes : Along(axis, r)[a] = IF a = axis THEN r ELSE 0
        BY <4>1, AlongType
      <4> QED BY <4>2, MovedType
    <3>2. \A a \in Axes : box.lo[a] \in Int /\ box.hi[a] \in Int /\ o.lo[a] \in Int /\ o.hi[a] \in Int
      BY DEF Boxes, Vectors
    <3> HIDE DEF new
    <3>3. CASE o \in beside
      <4>1. ~Overlap(box, o, axis)
        BY <2>6, <3>3 DEF Inside
      <4>2. CASE box.lo[axis] >= o.hi[axis]
        <5>1. o.hi[axis] - box.lo[axis] <= r
          BY <2>4, <3>3, <4>2
        <5>2. ~Overlap(new, o, axis)
          BY <3>1, <3>2, <5>1 DEF Overlap
        <5> QED BY <5>2 DEF Inside, new
      <4>3. CASE box.hi[axis] <= o.lo[axis]
        <5>1. ~Overlap(new, o, axis)
          BY <2>4, <3>1, <3>2, <4>3 DEF Overlap
        <5> QED BY <5>1 DEF Inside, new
      <4> QED BY <3>2, <4>1, <4>2, <4>3 DEF Overlap
    <3>4. CASE o \notin beside
      <4>1. PICK a \in Axes \ {axis} : ~Overlap(box, o, a)
        BY <3>4
      <4>2. ~Overlap(new, o, a)
        BY <3>1, <3>2, <4>1 DEF Overlap
      <4> QED BY <4>2 DEF Inside, new
    <3> QED BY <3>3, <3>4
  <2> QED BY <1>4, <2>3, <2>4, <2>5, <2>6 DEF Within
<1> QED BY <1>3, <1>4

\* Cells and lengths.
LEMMA CellBounds ==
  ASSUME NEW a \in Int, NEW q \in Int
  PROVE  /\ a \div Cell \in Int /\ q * Cell \in Int
         /\ q * Cell <= a <=> q <= a \div Cell
         /\ (q + 1) * Cell = q * Cell + Cell
<1>1. Cell \in Nat \ {0}
  BY MovementAssumption
<1> QED BY <1>1

LEMMA CellRange ==
  ASSUME NEW q \in Int, NEW lo \in Int, NEW hi \in Int, q * Cell <= hi, q * Cell + Cell > lo
  PROVE  q \in lo \div Cell .. hi \div Cell
<1>0. Cell \in Nat \ {0}
  BY MovementAssumption
<1>1. hi \div Cell \in Int /\ lo \div Cell \in Int
  BY CellBounds
<1>2. q <= hi \div Cell
  BY CellBounds
<1>3. q + 1 \in Int /\ ~((q + 1) * Cell <= lo)
  <2>1. (q + 1) * Cell = q * Cell + Cell /\ q * Cell \in Int
    BY CellBounds
  <2> QED BY <2>1, <1>0
<1>4. (q + 1) * Cell <= lo <=> q + 1 <= lo \div Cell
  BY <1>3, CellBounds
<1> QED BY <1>1, <1>2, <1>3, <1>4

LEMMA ObstacleShape ==
  ASSUME NEW x \in Int, NEW y \in Int, NEW z \in Int
  PROVE  LET o == Obstacle(<<x, y, z>>)
         IN  /\ o \in Boxes
             /\ o.lo[1] = x * Cell /\ o.hi[1] = x * Cell + Cell
             /\ y * Cell <= o.lo[2] /\ o.hi[2] <= y * Cell + Cell + Cell \div 2
             /\ o.lo[3] = z * Cell /\ o.hi[3] = z * Cell + Cell
<1>0. Cell \in Nat \ {0}
  BY MovementAssumption
<1>1. PICK X \in Int : X = x * Cell
  BY <1>0
<1>2. PICK Y \in Int : Y = y * Cell
  BY <1>0
<1>3. PICK Z \in Int : Z = z * Cell
  BY <1>0
<1>4. PICK b : b = ShapeBottom(ShapeAt(<<x, y, z>>))
  OBVIOUS
<1>5. PICK t : t = ShapeTop(ShapeAt(<<x, y, z>>))
  OBVIOUS
<1>6. b \in Int /\ 0 <= b
  BY <1>0, <1>4 DEF ShapeBottom
<1>7. t \in Int /\ t <= Cell + Cell \div 2
  BY <1>0, <1>5 DEF ShapeTop
<1>8. <<X, Y, Z>> \in Vectors /\ <<0, b, 0>> \in Vectors /\ <<Cell, t, Cell>> \in Vectors
  BY <1>0, <1>6, <1>7, Triple
<1>9. Obstacle(<<x, y, z>>) = [lo |-> Plus(<<X, Y, Z>>, <<0, b, 0>>), hi |-> Plus(<<X, Y, Z>>, <<Cell, t, Cell>>)]
  BY <1>1, <1>2, <1>3, <1>4, <1>5 DEF Obstacle
<1>10. /\ Plus(<<X, Y, Z>>, <<0, b, 0>>) \in Vectors
       /\ Plus(<<X, Y, Z>>, <<0, b, 0>>)[1] = X
       /\ Plus(<<X, Y, Z>>, <<0, b, 0>>)[2] = Y + b
       /\ Plus(<<X, Y, Z>>, <<0, b, 0>>)[3] = Z
  BY <1>6, <1>8, PlusType, ThreeAxes
<1>11. /\ Plus(<<X, Y, Z>>, <<Cell, t, Cell>>) \in Vectors
       /\ Plus(<<X, Y, Z>>, <<Cell, t, Cell>>)[1] = X + Cell
       /\ Plus(<<X, Y, Z>>, <<Cell, t, Cell>>)[2] = Y + t
       /\ Plus(<<X, Y, Z>>, <<Cell, t, Cell>>)[3] = Z + Cell
  BY <1>7, <1>8, PlusType, ThreeAxes
<1>12. Obstacle(<<x, y, z>>) \in Boxes
  BY <1>9, <1>10, <1>11 DEF Boxes
<1>13. Y <= Y + b /\ Y + t <= Y + Cell + Cell \div 2
  BY <1>0, <1>6, <1>7
<1> QED BY <1>1, <1>2, <1>3, <1>9, <1>10, <1>11, <1>12, <1>13

\* What overlaps a box is collected for it.
LEMMA Collected ==
  ASSUME NEW box \in Boxes, NEW x \in Int, NEW y \in Int, NEW z \in Int,
         ShapeAt(<<x, y, z>>) # "empty", Inside(box, Obstacle(<<x, y, z>>))
  PROVE  Obstacle(<<x, y, z>>) \in Obstacles(box)
<1> DEFINE o == Obstacle(<<x, y, z>>)
<1>0. Cell \in Nat \ {0} /\ Cell \div 2 \in Nat
  BY MovementAssumption
<1>1. \A a \in Axes : box.lo[a] \in Int /\ box.hi[a] \in Int
  BY DEF Boxes, Vectors
<1>2. /\ o \in Boxes
      /\ o.lo[1] = x * Cell /\ o.hi[1] = x * Cell + Cell
      /\ y * Cell <= o.lo[2] /\ o.hi[2] <= y * Cell + Cell + Cell \div 2
      /\ o.lo[3] = z * Cell /\ o.hi[3] = z * Cell + Cell
  BY ObstacleShape
<1>3. \A a \in Axes : o.lo[a] \in Int /\ o.hi[a] \in Int
  BY <1>2 DEF Boxes, Vectors
<1>4. \A a \in Axes : box.hi[a] > o.lo[a] /\ box.lo[a] < o.hi[a]
  BY DEF Inside, Overlap
<1> HIDE DEF o
<1>5. x \in SourceCells(box.lo[1], box.hi[1], 1)
  <2>1. PICK q \in Int : q = x * Cell
    BY CellBounds
  <2>2. q <= box.hi[1] /\ q + Cell > box.lo[1] - 1
    BY <1>0, <1>1, <1>2, <1>4, <2>1, ThreeAxes
  <2>3. box.lo[1] - 1 \in Int /\ box.hi[1] \in Int /\ box.lo[1] - 0 - 1 = box.lo[1] - 1
    BY <1>1, ThreeAxes
  <2>4. x \in (box.lo[1] - 1) \div Cell .. box.hi[1] \div Cell
    BY <2>1, <2>2, <2>3, CellRange
  <2> QED BY <2>3, <2>4 DEF SourceCells, Overhang
<1>6. z \in SourceCells(box.lo[3], box.hi[3], 3)
  <2>1. PICK q \in Int : q = z * Cell
    BY CellBounds
  <2>2. q <= box.hi[3] /\ q + Cell > box.lo[3] - 1
    BY <1>0, <1>1, <1>2, <1>4, <2>1, ThreeAxes
  <2>3. box.lo[3] - 1 \in Int /\ box.hi[3] \in Int /\ box.lo[3] - 0 - 1 = box.lo[3] - 1
    BY <1>1, ThreeAxes
  <2>4. z \in (box.lo[3] - 1) \div Cell .. box.hi[3] \div Cell
    BY <2>1, <2>2, <2>3, CellRange
  <2> QED BY <2>3, <2>4 DEF SourceCells, Overhang
<1>7. y \in SourceCells(box.lo[2], box.hi[2], 2)
  <2>0. PICK h \in Nat : h = Cell \div 2
    BY <1>0
  <2>1. PICK q \in Int : q = y * Cell
    BY CellBounds
  <2>2. q <= box.hi[2] /\ q + Cell > box.lo[2] - h - 1
    BY <1>0, <1>1, <1>2, <1>3, <1>4, <2>0, <2>1, ThreeAxes
  <2>3. box.lo[2] - h - 1 \in Int /\ box.hi[2] \in Int
    BY <1>1, ThreeAxes
  <2>4. y \in (box.lo[2] - h - 1) \div Cell .. box.hi[2] \div Cell
    BY <2>1, <2>2, <2>3, CellRange
  <2>5. Overhang(2) = h
    BY <2>0 DEF Overhang
  <2> QED BY <2>4, <2>5 DEF SourceCells
<1> QED BY <1>5, <1>6, <1>7 DEF Obstacles, o

\* No block anywhere reaches into the box.
Clear(box) ==
  \A x, y, z \in Int : ShapeAt(<<x, y, z>>) # "empty" => ~Inside(box, Obstacle(<<x, y, z>>))

LEMMA FreeIsClear ==
  ASSUME NEW box \in Boxes
  PROVE  Free(box) <=> Clear(box)
<1>0. Cell \in Nat \ {0} /\ Cell \div 2 \in Nat /\ Cell \div 2 < Cell
  BY MovementAssumption
<1>1. \A a \in Axes : box.lo[a] \in Int /\ box.hi[a] \in Int
  BY DEF Boxes, Vectors
<1>2. \A a \in Axes : box.lo[a] \div Cell \in Int /\ box.hi[a] \div Cell \in Int
  BY <1>1, CellBounds
<1>3. ASSUME Clear(box) PROVE Free(box)
  BY <1>2, <1>3, ThreeAxes DEF Free, Clear
<1>4. ASSUME Free(box), NEW x \in Int, NEW y \in Int, NEW z \in Int,
             ShapeAt(<<x, y, z>>) # "empty", Inside(box, Obstacle(<<x, y, z>>))
      PROVE  FALSE
  <2> DEFINE o == Obstacle(<<x, y, z>>)
  <2>1. /\ o \in Boxes
        /\ o.lo[1] = x * Cell /\ o.hi[1] = x * Cell + Cell
        /\ y * Cell <= o.lo[2] /\ o.hi[2] <= y * Cell + Cell + Cell \div 2
        /\ o.lo[3] = z * Cell /\ o.hi[3] = z * Cell + Cell
    BY ObstacleShape
  <2>2. \A a \in Axes : o.lo[a] \in Int /\ o.hi[a] \in Int
    BY <2>1 DEF Boxes, Vectors
  <2>3. \A a \in Axes : box.hi[a] > o.lo[a] /\ box.lo[a] < o.hi[a]
    BY <1>4 DEF Inside, Overlap
  <2> HIDE DEF o
  <2>4. x \in box.lo[1] \div Cell .. box.hi[1] \div Cell
    <3>1. PICK q \in Int : q = x * Cell
      BY CellBounds
    <3>2. q <= box.hi[1] /\ q + Cell > box.lo[1]
      BY <1>0, <1>1, <2>1, <2>3, <3>1, ThreeAxes
    <3> QED BY <1>1, <3>1, <3>2, CellRange, ThreeAxes
  <2>5. z \in box.lo[3] \div Cell .. box.hi[3] \div Cell
    <3>1. PICK q \in Int : q = z * Cell
      BY CellBounds
    <3>2. q <= box.hi[3] /\ q + Cell > box.lo[3]
      BY <1>0, <1>1, <2>1, <2>3, <3>1, ThreeAxes
    <3> QED BY <1>1, <3>1, <3>2, CellRange, ThreeAxes
  <2>6. y \in box.lo[2] \div Cell - 1 .. box.hi[2] \div Cell
    <3>1. PICK q \in Int : q = y * Cell
      BY CellBounds
    <3>2. (y + 1) * Cell = q + Cell
      BY <3>1, CellBounds
    <3>3. q <= box.hi[2] /\ q + Cell + Cell > box.lo[2]
      BY <1>0, <1>1, <2>1, <2>2, <2>3, <3>1, ThreeAxes
    <3>4. y <= box.hi[2] \div Cell
      BY <1>1, <3>1, <3>3, CellBounds, ThreeAxes
    <3>5. PICK p \in Int : p = y + 1
      OBVIOUS
    <3>6. PICK top \in Int : top = q + Cell
      BY <1>0
    <3>7. p * Cell <= top /\ p * Cell + Cell > box.lo[2] /\ box.lo[2] \in Int
      BY <1>0, <1>1, <3>2, <3>3, <3>5, <3>6, ThreeAxes
    <3>8. p \in box.lo[2] \div Cell .. top \div Cell
      BY <3>7, CellRange
    <3> QED BY <1>2, <3>4, <3>5, <3>8, ThreeAxes
  <2> QED BY <1>4, <2>4, <2>5, <2>6 DEF Free
<1> QED BY <1>3, <1>4 DEF Clear

\* Two boxes with the same corners are inside the same obstacles.
LEMMA MovedTwice ==
  ASSUME NEW box \in Boxes, NEW u \in Vectors, NEW v \in Vectors, NEW w \in Vectors,
         \A a \in Axes : w[a] = u[a] + v[a], NEW o
  PROVE  Inside(Moved(Moved(box, u), v), o) <=> Inside(Moved(box, w), o)
<1> DEFINE two == Moved(Moved(box, u), v)
<1> DEFINE one == Moved(box, w)
<1>1. /\ Moved(box, u) \in Boxes
      /\ \A a \in Axes : /\ Moved(box, u).lo[a] = box.lo[a] + u[a]
                         /\ Moved(box, u).hi[a] = box.hi[a] + u[a]
  BY MovedType
<1>2. \A a \in Axes : /\ two.lo[a] = Moved(box, u).lo[a] + v[a]
                      /\ two.hi[a] = Moved(box, u).hi[a] + v[a]
  BY <1>1, MovedType
<1>3. \A a \in Axes : one.lo[a] = box.lo[a] + w[a] /\ one.hi[a] = box.hi[a] + w[a]
  BY MovedType
<1>4. \A a \in Axes : box.lo[a] \in Int /\ box.hi[a] \in Int /\ u[a] \in Int /\ v[a] \in Int
  BY DEF Boxes, Vectors
<1> HIDE DEF one, two
<1>5. \A a \in Axes : two.lo[a] = one.lo[a] /\ two.hi[a] = one.hi[a]
  BY <1>1, <1>2, <1>3, <1>4
<1>6. Inside(two, o) <=> Inside(one, o)
  BY <1>5 DEF Inside, Overlap
<1> QED BY <1>6 DEF one, two

\* Horizontal motion keeps out of every obstacle that the box was out of.
LEMMA HorizontalSound ==
  ASSUME NEW box \in Boxes, NEW x \in Int, NEW z \in Int, NEW obstacles \in SUBSET Boxes
  PROVE  LET d == ResolveHorizontal(box, x, z, obstacles)
         IN  /\ d \in Vectors /\ Within(d[1], x) /\ d[2] = 0 /\ Within(d[3], z)
             /\ \A o \in obstacles : ~Inside(box, o) => ~Inside(Moved(box, d), o)
<1>1. PICK first \in {1, 3} : first = IF Abs(x) >= Abs(z) THEN 1 ELSE 3
  OBVIOUS
<1>2. PICK second \in {1, 3} : second = 4 - first /\ second # first
  BY <1>1
<1> DEFINE Want(axis) == IF axis = 1 THEN x ELSE z
<1>3. Want(first) \in Int /\ Want(second) \in Int /\ first \in Axes /\ second \in Axes
  BY ThreeAxes
<1> DEFINE one == Resolve(first, box, Want(first), obstacles)
<1> DEFINE there == Moved(box, Along(first, one))
<1> DEFINE two == Resolve(second, there, Want(second), obstacles)
<1> DEFINE d == [<<0, 0, 0>> EXCEPT ![first] = one, ![second] = two]
<1>4. ResolveHorizontal(box, x, z, obstacles) = d
  BY <1>1, <1>2 DEF ResolveHorizontal
<1>5. /\ Within(one, Want(first))
      /\ \A o \in obstacles : ~Inside(box, o) => ~Inside(there, o)
  BY <1>3, ResolveSound
<1>6. /\ one \in Int /\ Along(first, one) \in Vectors
      /\ \A a \in Axes : Along(first, one)[a] = IF a = first THEN one ELSE 0
  BY <1>3, <1>5, AlongType DEF Within
<1>7. there \in Boxes
  BY <1>6, MovedType
<1>8. /\ Within(two, Want(second))
      /\ \A o \in obstacles : ~Inside(there, o) => ~Inside(Moved(there, Along(second, two)), o)
  BY <1>3, <1>7, ResolveSound
<1>9. /\ two \in Int /\ Along(second, two) \in Vectors
      /\ \A a \in Axes : Along(second, two)[a] = IF a = second THEN two ELSE 0
  BY <1>3, <1>8, AlongType DEF Within
<1>10. /\ d \in Vectors
       /\ \A a \in Axes : d[a] = IF a = second THEN two ELSE IF a = first THEN one ELSE 0
  <2>1. <<0, 0, 0>> \in Vectors /\ \A a \in Axes : <<0, 0, 0>>[a] = 0
    BY Triple, ThreeAxes
  <2> HIDE DEF one, two
  <2> QED BY <1>3, <1>6, <1>9, <2>1 DEF Vectors
<1> HIDE DEF d, one, two
<1>11. \A a \in Axes : d[a] = Along(first, one)[a] + Along(second, two)[a]
  BY <1>2, <1>6, <1>9, <1>10
<1>12. \A o \in obstacles : ~Inside(box, o) => ~Inside(Moved(box, d), o)
  BY <1>5, <1>6, <1>8, <1>9, <1>10, <1>11, MovedTwice
<1>13. Within(d[1], x) /\ d[2] = 0 /\ Within(d[3], z)
  <2>1. CASE first = 1
    BY <1>2, <1>5, <1>8, <1>10, <2>1, ThreeAxes
  <2>2. CASE first = 3
    BY <1>2, <1>5, <1>8, <1>10, <2>2, ThreeAxes
  <2> QED BY <2>1, <2>2
<1> QED BY <1>4, <1>10, <1>12, <1>13

LEMMA ObstaclesType ==
  ASSUME NEW box \in Boxes
  PROVE  Obstacles(box) \in SUBSET Boxes
<1>1. \A a \in Axes : SourceCells(box.lo[a], box.hi[a], a) \subseteq Int
  BY DEF SourceCells
<1>2. \A x, y, z \in Int : Obstacle(<<x, y, z>>) \in Boxes
  BY ObstacleShape
<1> QED BY <1>1, <1>2, ThreeAxes DEF Obstacles

\* What a tick looks at: wherever the requested displacement may lead, and a step above it.
Reach(box, requested) == [Swept(box, requested) EXCEPT !.hi[2] = @ + StepHeight]

LEMMA ReachType ==
  ASSUME NEW box \in Boxes, NEW d \in Vectors
  PROVE  LET r == Reach(box, d)
         IN  /\ r \in Boxes
             /\ \A a \in Axes :
                  /\ r.lo[a] = box.lo[a] + (IF d[a] <= 0 THEN d[a] ELSE 0)
                  /\ r.hi[a] = box.hi[a] + (IF d[a] <= 0 THEN 0 ELSE d[a]) + (IF a = 2 THEN StepHeight ELSE 0)
<1>0. StepHeight \in Nat /\ 0 \in Int
  BY MovementAssumption
<1>1. d[1] \in Int /\ d[2] \in Int /\ d[3] \in Int
  BY DEF Vectors, Axes
<1> DEFINE low == <<Min({d[1], 0}), Min({d[2], 0}), Min({d[3], 0})>>
<1> DEFINE high == <<Max({d[1], 0}), Max({d[2], 0}), Max({d[3], 0})>>
<1>2. \A n \in Int : Min({n, 0}) = (IF n <= 0 THEN n ELSE 0) /\ Max({n, 0}) = (IF n <= 0 THEN 0 ELSE n)
  BY OfTwo, <1>0
<1>3. low \in Vectors /\ \A a \in Axes : low[a] = IF d[a] <= 0 THEN d[a] ELSE 0
  <2>1. /\ Min({d[1], 0}) = (IF d[1] <= 0 THEN d[1] ELSE 0)
        /\ Min({d[2], 0}) = (IF d[2] <= 0 THEN d[2] ELSE 0)
        /\ Min({d[3], 0}) = (IF d[3] <= 0 THEN d[3] ELSE 0)
    BY <1>1, <1>2
  <2>2. Min({d[1], 0}) \in Int /\ Min({d[2], 0}) \in Int /\ Min({d[3], 0}) \in Int
    BY <1>1, <2>1
  <2>3. low \in Vectors /\ low[1] = Min({d[1], 0}) /\ low[2] = Min({d[2], 0}) /\ low[3] = Min({d[3], 0})
    BY <2>2, Triple
  <2> HIDE DEF low
  <2> QED BY <2>1, <2>3, ThreeAxes
<1>4. high \in Vectors /\ \A a \in Axes : high[a] = IF d[a] <= 0 THEN 0 ELSE d[a]
  <2>1. /\ Max({d[1], 0}) = (IF d[1] <= 0 THEN 0 ELSE d[1])
        /\ Max({d[2], 0}) = (IF d[2] <= 0 THEN 0 ELSE d[2])
        /\ Max({d[3], 0}) = (IF d[3] <= 0 THEN 0 ELSE d[3])
    BY <1>1, <1>2
  <2>2. Max({d[1], 0}) \in Int /\ Max({d[2], 0}) \in Int /\ Max({d[3], 0}) \in Int
    BY <1>1, <2>1
  <2>3. high \in Vectors /\ high[1] = Max({d[1], 0}) /\ high[2] = Max({d[2], 0}) /\ high[3] = Max({d[3], 0})
    BY <2>2, Triple
  <2> HIDE DEF high
  <2> QED BY <2>1, <2>3, ThreeAxes
<1>5. Swept(box, d) = [lo |-> Plus(box.lo, low), hi |-> Plus(box.hi, high)]
  BY DEF Swept
<1> HIDE DEF low, high
<1>6. box.lo \in Vectors /\ box.hi \in Vectors
  BY DEF Boxes
<1>7. Plus(box.lo, low) \in Vectors /\ \A a \in Axes : Plus(box.lo, low)[a] = box.lo[a] + low[a]
  BY <1>3, <1>6, PlusType
<1>8. Plus(box.hi, high) \in Vectors /\ \A a \in Axes : Plus(box.hi, high)[a] = box.hi[a] + high[a]
  BY <1>4, <1>6, PlusType
<1>9. PICK h \in Vectors : h = Plus(box.hi, high)
  BY <1>8
<1>10. /\ Reach(box, d).lo = Plus(box.lo, low)
       /\ Reach(box, d).hi = [h EXCEPT ![2] = @ + StepHeight]
       /\ Reach(box, d) = [lo |-> Plus(box.lo, low), hi |-> [h EXCEPT ![2] = @ + StepHeight]]
  BY <1>5, <1>9 DEF Reach
<1>11. /\ [h EXCEPT ![2] = @ + StepHeight] \in Vectors
       /\ \A a \in Axes : [h EXCEPT ![2] = @ + StepHeight][a] = h[a] + (IF a = 2 THEN StepHeight ELSE 0)
  BY <1>0, ThreeAxes DEF Vectors
<1>12. Reach(box, d) \in Boxes
  BY <1>7, <1>10, <1>11 DEF Boxes
<1>13. \A a \in Axes : Reach(box, d).lo[a] = box.lo[a] + (IF d[a] <= 0 THEN d[a] ELSE 0)
  BY <1>3, <1>7, <1>10
<1>14. \A a \in Axes : Reach(box, d).hi[a] = box.hi[a] + (IF d[a] <= 0 THEN 0 ELSE d[a]) + (IF a = 2 THEN StepHeight ELSE 0)
  BY <1>4, <1>8, <1>9, <1>10, <1>11
<1> QED BY <1>12, <1>13, <1>14

\* A box within reach that is out of all that was collected is out of everything.
LEMMA ClearWithinReach ==
  ASSUME NEW box \in Boxes, NEW final \in Boxes, NEW reach \in Boxes, Clear(box),
         \A a \in Axes : reach.lo[a] <= final.lo[a] /\ final.hi[a] <= reach.hi[a],
         \A o \in Obstacles(reach) : ~Inside(box, o) => ~Inside(final, o)
  PROVE  Clear(final)
<1> SUFFICES ASSUME NEW x \in Int, NEW y \in Int, NEW z \in Int,
                    ShapeAt(<<x, y, z>>) # "empty", Inside(final, Obstacle(<<x, y, z>>))
             PROVE  FALSE
  BY DEF Clear
<1> DEFINE o == Obstacle(<<x, y, z>>)
<1>1. o \in Boxes
  BY ObstacleShape
<1>2. \A a \in Axes : /\ final.lo[a] \in Int /\ final.hi[a] \in Int /\ reach.lo[a] \in Int
                      /\ reach.hi[a] \in Int /\ o.lo[a] \in Int /\ o.hi[a] \in Int
  BY <1>1 DEF Boxes, Vectors
<1>3. Inside(final, o)
  OBVIOUS
<1>4. ~Inside(box, o)
  BY DEF Clear
<1> HIDE DEF o
<1>5. Inside(reach, o)
  BY <1>2, <1>3 DEF Inside, Overlap
<1>6. o \in Obstacles(reach)
  BY <1>5, Collected DEF o
<1> QED BY <1>3, <1>4, <1>6

\* A tick's displacement is no longer than requested but for the step, and leads into no
\* obstacle that the box was out of.
LEMMA CollidedSound ==
  ASSUME NEW box \in Boxes, NEW requested \in Vectors, NEW grounded \in BOOLEAN
  PROVE  LET result == Collided(box, requested, grounded)
         IN  /\ result.applied \in Vectors /\ result.landed \in BOOLEAN
             /\ Clear(box) => Clear(Moved(box, result.applied))
<1> DEFINE reach == Reach(box, requested)
<1> DEFINE obstacles == Obstacles(reach)
<1> DEFINE y == Resolve(2, box, requested[2], obstacles)
<1> DEFINE low == Moved(box, Along(2, y))
<1> DEFINE flat == ResolveHorizontal(low, requested[1], requested[3], obstacles)
<1> DEFINE landed == requested[2] <= 0 /\ Touches(box, requested[2], obstacles)
<1> DEFINE direct == [applied |-> [flat EXCEPT ![2] = y], landed |-> landed]
<1> DEFINE up == Resolve(2, box, StepHeight, obstacles)
<1> DEFINE raised == Moved(box, Along(2, up))
<1> DEFINE over == ResolveHorizontal(raised, requested[1], requested[3], obstacles)
<1> DEFINE above == Moved(raised, over)
<1> DEFINE down == Resolve(2, above, requested[2] - up, obstacles)
<1> DEFINE stepped == [applied |-> [over EXCEPT ![2] = up + down],
                       landed |-> requested[2] <= 0 /\ Touches(above, requested[2] - up, obstacles)]
<1>1. Collided(box, requested, grounded) \in {direct, stepped}
  BY DEF Collided, Reach
<1>2. requested[1] \in Int /\ requested[2] \in Int /\ requested[3] \in Int /\ StepHeight \in Nat
      /\ 2 \in Axes
  BY MovementAssumption DEF Vectors, Axes
<1>3. /\ reach \in Boxes
      /\ \A a \in Axes :
           /\ reach.lo[a] = box.lo[a] + (IF requested[a] <= 0 THEN requested[a] ELSE 0)
           /\ reach.hi[a] = box.hi[a] + (IF requested[a] <= 0 THEN 0 ELSE requested[a])
                           + (IF a = 2 THEN StepHeight ELSE 0)
  BY ReachType
<1>4. obstacles \in SUBSET Boxes
  BY <1>3, ObstaclesType
<1> HIDE DEF reach, obstacles
<1>5. /\ direct.applied \in Vectors
      /\ Clear(box) => Clear(Moved(box, direct.applied))
  <2>1. /\ Within(y, requested[2])
        /\ \A o \in obstacles : ~Inside(box, o) => ~Inside(low, o)
    BY <1>2, <1>4, ResolveSound
  <2>2. /\ y \in Int /\ Along(2, y) \in Vectors
        /\ \A a \in Axes : Along(2, y)[a] = IF a = 2 THEN y ELSE 0
    BY <1>2, <2>1, AlongType DEF Within
  <2>3. low \in Boxes
    BY <2>2, MovedType
  <2>4. /\ flat \in Vectors /\ Within(flat[1], requested[1]) /\ flat[2] = 0
        /\ Within(flat[3], requested[3])
        /\ \A o \in obstacles : ~Inside(low, o) => ~Inside(Moved(low, flat), o)
    BY <1>2, <1>4, <2>3, HorizontalSound
  <2> HIDE DEF y, flat
  <2> DEFINE d == [flat EXCEPT ![2] = y]
  <2>5. d \in Vectors /\ d[1] = flat[1] /\ d[2] = y /\ d[3] = flat[3]
    BY <2>2, <2>4 DEF Vectors, Axes
  <2> HIDE DEF d
  <2>6. \A a \in Axes : d[a] = Along(2, y)[a] + flat[a]
    <3>1. flat[1] \in Int /\ flat[3] \in Int
      BY <2>4 DEF Within
    <3> QED BY <2>2, <2>4, <2>5, <3>1, ThreeAxes
  <2>7. \A o \in obstacles : ~Inside(box, o) => ~Inside(Moved(box, d), o)
    BY <2>1, <2>2, <2>4, <2>5, <2>6, MovedTwice
  <2>8. /\ Moved(box, d) \in Boxes
        /\ \A a \in Axes : /\ Moved(box, d).lo[a] = box.lo[a] + d[a]
                           /\ Moved(box, d).hi[a] = box.hi[a] + d[a]
    BY <2>5, MovedType
  <2>9. \A a \in Axes : box.lo[a] \in Int /\ box.hi[a] \in Int /\ requested[a] \in Int
    BY DEF Boxes, Vectors
  <2>10. \A a \in Axes : Within(d[a], requested[a])
    BY <2>1, <2>4, <2>5, ThreeAxes
  <2>11. \A a \in Axes : reach.lo[a] <= Moved(box, d).lo[a] /\ Moved(box, d).hi[a] <= reach.hi[a]
    BY <1>2, <1>3, <2>8, <2>9, <2>10 DEF Within
  <2>12. Clear(box) => Clear(Moved(box, d))
    BY <1>3, <2>7, <2>8, <2>11, ClearWithinReach DEF obstacles
  <2> QED BY <2>5, <2>12 DEF d
<1>6. /\ stepped.applied \in Vectors
      /\ Clear(box) => Clear(Moved(box, stepped.applied))
  <2>1. /\ Within(up, StepHeight)
        /\ \A o \in obstacles : ~Inside(box, o) => ~Inside(raised, o)
    BY <1>2, <1>4, ResolveSound
  <2>2. /\ up \in Int /\ Along(2, up) \in Vectors
        /\ \A a \in Axes : Along(2, up)[a] = IF a = 2 THEN up ELSE 0
    BY <1>2, <2>1, AlongType DEF Within
  <2>3. raised \in Boxes
    BY <2>2, MovedType
  <2>4. /\ over \in Vectors /\ Within(over[1], requested[1]) /\ over[2] = 0
        /\ Within(over[3], requested[3])
        /\ \A o \in obstacles : ~Inside(raised, o) => ~Inside(above, o)
    BY <1>2, <1>4, <2>3, HorizontalSound
  <2>5. above \in Boxes
    BY <2>3, <2>4, MovedType
  <2>6. requested[2] - up \in Int
    BY <1>2, <2>2
  <2>7. /\ Within(down, requested[2] - up)
        /\ \A o \in obstacles : ~Inside(above, o) => ~Inside(Moved(above, Along(2, down)), o)
    BY <1>2, <1>4, <2>5, <2>6, ResolveSound
  <2>8. /\ down \in Int /\ Along(2, down) \in Vectors
        /\ \A a \in Axes : Along(2, down)[a] = IF a = 2 THEN down ELSE 0
    BY <1>2, <2>7, AlongType DEF Within
  <2> HIDE DEF up, over, down
  <2> DEFINE d == [over EXCEPT ![2] = up + down]
  <2> DEFINE e == [over EXCEPT ![2] = up]
  <2>9. /\ d \in Vectors /\ d[1] = over[1] /\ d[2] = up + down /\ d[3] = over[3]
        /\ e \in Vectors /\ e[1] = over[1] /\ e[2] = up /\ e[3] = over[3]
        /\ over[1] \in Int /\ over[3] \in Int
    BY <2>2, <2>4, <2>8 DEF Vectors, Axes
  <2> HIDE DEF d, e
  <2>10. \A a \in Axes : e[a] = Along(2, up)[a] + over[a]
    BY <2>2, <2>4, <2>9, ThreeAxes
  <2>11. \A a \in Axes : d[a] = e[a] + Along(2, down)[a]
    BY <2>2, <2>8, <2>9, ThreeAxes
  <2>12. \A o \in obstacles : ~Inside(box, o) => ~Inside(Moved(box, d), o)
    <3> TAKE o \in obstacles
    <3> HAVE ~Inside(box, o)
    <3>1. ~Inside(above, o) /\ ~Inside(Moved(above, Along(2, down)), o)
      BY <2>1, <2>4, <2>7
    <3>2. \A a \in Axes : over[a] + Along(2, down)[a] = d[a] - Along(2, up)[a]
      BY <2>2, <2>4, <2>8, <2>9, ThreeAxes
    <3> DEFINE f == [over EXCEPT ![2] = down]
    <3>3. f \in Vectors /\ f[1] = over[1] /\ f[2] = down /\ f[3] = over[3]
      BY <2>4, <2>8 DEF Vectors, Axes
    <3> HIDE DEF f
    <3>4. \A a \in Axes : f[a] = over[a] + Along(2, down)[a] /\ d[a] = Along(2, up)[a] + f[a]
      BY <2>2, <2>4, <2>8, <2>9, <3>3, ThreeAxes
    <3>5. ~Inside(Moved(raised, f), o)
      BY <2>3, <2>4, <2>8, <3>1, <3>3, <3>4, MovedTwice
    <3>6. ~Inside(Moved(box, d), o)
      BY <2>2, <2>9, <3>3, <3>4, <3>5, MovedTwice
    <3> QED BY <3>6
  <2>13. /\ Moved(box, d) \in Boxes
         /\ \A a \in Axes : /\ Moved(box, d).lo[a] = box.lo[a] + d[a]
                            /\ Moved(box, d).hi[a] = box.hi[a] + d[a]
    BY <2>9, MovedType
  <2>14. \A a \in Axes : box.lo[a] \in Int /\ box.hi[a] \in Int
    BY DEF Boxes, Vectors
  <2>15. \A a \in Axes :
           /\ (IF requested[a] <= 0 THEN requested[a] ELSE 0) <= d[a]
           /\ d[a] <= (IF requested[a] <= 0 THEN 0 ELSE requested[a]) + (IF a = 2 THEN StepHeight ELSE 0)
    <3>1. /\ (IF requested[2] <= 0 THEN requested[2] ELSE 0) <= up + down
          /\ up + down <= (IF requested[2] <= 0 THEN 0 ELSE requested[2]) + StepHeight
      BY <1>2, <2>1, <2>2, <2>7, <2>8 DEF Within
    <3> QED BY <1>2, <2>4, <2>9, <3>1, ThreeAxes DEF Within
  <2>16. \A a \in Axes : d[a] \in Int /\ requested[a] \in Int
    BY <2>9 DEF Vectors
  <2>17. \A a \in Axes : reach.lo[a] <= Moved(box, d).lo[a] /\ Moved(box, d).hi[a] <= reach.hi[a]
    BY <1>2, <1>3, <2>13, <2>14, <2>15, <2>16
  <2>18. Clear(box) => Clear(Moved(box, d))
    BY <1>3, <2>12, <2>13, <2>17, ClearWithinReach DEF obstacles
  <2> QED BY <2>9, <2>18 DEF d
<1>7. direct.landed \in BOOLEAN /\ stepped.landed \in BOOLEAN
  OBVIOUS
<1> HIDE DEF direct, stepped
<1> QED BY <1>1, <1>5, <1>6, <1>7

\* A sneaking player's step back from an edge is a displacement.
LEMMA ReducedType ==
  ASSUME NEW n \in Int, NEW steps \in Int
  PROVE  Reduced(n, steps) \in Int /\ Abs(n) \in Nat /\ Reduced(n, Abs(n)) = 0
BY DEF Reduced, Abs

LEMMA BackedOffType ==
  ASSUME NEW box \in Boxes, NEW d \in Vectors
  PROVE  BackedOff(box, d) \in Vectors
<1>1. d[1] \in Int /\ d[2] \in Int /\ d[3] \in Int
  BY DEF Vectors, Axes
<1> DEFINE S1 == {s \in 0 .. Abs(d[1]) : Safe(box, Reduced(d[1], s), 0)}
<1> DEFINE S3 == {s \in 0 .. Abs(d[3]) : Safe(box, 0, Reduced(d[3], s))}
<1>2. Min(S1) \in S1
  <2>1. Abs(d[1]) \in Nat /\ Reduced(d[1], Abs(d[1])) = 0
    BY <1>1, ReducedType
  <2>2. Safe(box, Reduced(d[1], Abs(d[1])), 0)
    BY <2>1 DEF Safe
  <2>3. S1 \subseteq Nat /\ Abs(d[1]) \in S1
    BY <2>1, <2>2
  <2> HIDE DEF S1
  <2> QED BY <2>3, Smallest
<1>3. Min(S3) \in S3
  <2>1. Abs(d[3]) \in Nat /\ Reduced(d[3], Abs(d[3])) = 0
    BY <1>1, ReducedType
  <2>2. Safe(box, 0, Reduced(d[3], Abs(d[3])))
    BY <2>1 DEF Safe
  <2>3. S3 \subseteq Nat /\ Abs(d[3]) \in S3
    BY <2>1, <2>2
  <2> HIDE DEF S3
  <2> QED BY <2>3, Smallest
<1> DEFINE x == Reduced(d[1], Min(S1))
<1> DEFINE z == Reduced(d[3], Min(S3))
<1>4. x \in Int /\ z \in Int
  <2>1. Abs(d[1]) \in Nat /\ Abs(d[3]) \in Nat
    BY <1>1, ReducedType
  <2>2. Min(S1) \in Int /\ Min(S3) \in Int
    BY <1>2, <1>3, <2>1
  <2> HIDE DEF S1, S3
  <2> QED BY <1>1, <2>2, ReducedType
<1>5. BackedOff(box, d) =
        LET both == Min({s \in 0 .. Max({Abs(x), Abs(z)}) :
                           \/ Reduced(x, s) = 0 \/ Reduced(z, s) = 0
                           \/ Safe(box, Reduced(x, s), Reduced(z, s))})
        IN  <<Reduced(x, both), d[2], Reduced(z, both)>>
  BY DEF BackedOff
<1> HIDE DEF x, z
<1> DEFINE top == Max({Abs(x), Abs(z)})
<1> DEFINE S == {s \in 0 .. top : \/ Reduced(x, s) = 0 \/ Reduced(z, s) = 0
                                 \/ Safe(box, Reduced(x, s), Reduced(z, s))}
<1>6. top \in Nat /\ Abs(x) \in Nat /\ Abs(x) <= top
  <2>1. Abs(x) \in Int /\ Abs(z) \in Int /\ Abs(x) \in Nat /\ Abs(z) \in Nat
    BY <1>4, ReducedType
  <2>2. top = IF Abs(x) <= Abs(z) THEN Abs(z) ELSE Abs(x)
    BY <2>1, OfTwo
  <2> QED BY <2>1, <2>2
<1>7. Reduced(x, Abs(x)) = 0
  BY <1>4, ReducedType
<1>8. S \subseteq Nat /\ Abs(x) \in S
  BY <1>6, <1>7
<1>9. Min(S) \in S
  BY <1>8, Smallest
<1>10. Min(S) \in Int
  BY <1>8, <1>9
<1>11. PICK both \in Int : both = Min(S)
  BY <1>10
<1>12. BackedOff(box, d) = <<Reduced(x, both), d[2], Reduced(z, both)>>
  BY <1>5, <1>11
<1>13. Reduced(x, both) \in Int /\ Reduced(z, both) \in Int
  BY <1>4, ReducedType
<1> QED BY <1>1, <1>12, <1>13, Triple

\* The player's position and where it may walk.
Standing == player \in [at : Vectors, sneaking : BOOLEAN, ground : BOOLEAN, fall : 0 .. StepHeight]

LEMMA BoundsType ==
  ASSUME NEW at \in Vectors, NEW sneaking \in BOOLEAN
  PROVE  /\ Bounds(at, sneaking) \in Boxes
         /\ Bounds(at, sneaking).lo = at
         /\ \A a \in Axes : Bounds(at, sneaking).hi[a] =
              at[a] + (IF a = 2 THEN Height(sneaking) ELSE Width)
<1>1. Width \in Int /\ Height(sneaking) \in Int
  BY MovementAssumption DEF Height
<1> DEFINE size == <<Width, Height(sneaking), Width>>
<1>2. size \in Vectors /\ size[1] = Width /\ size[2] = Height(sneaking) /\ size[3] = Width
  BY <1>1, Triple
<1>3. Bounds(at, sneaking) = [lo |-> at, hi |-> Plus(at, size)]
  BY DEF Bounds
<1> HIDE DEF size
<1>4. Plus(at, size) \in Vectors /\ \A a \in Axes : Plus(at, size)[a] = at[a] + size[a]
  BY <1>2, PlusType
<1>5. Bounds(at, sneaking) \in Boxes
  BY <1>3, <1>4 DEF Boxes
<1> QED BY <1>2, <1>3, <1>4, <1>5, ThreeAxes

\* A tick leaves the player where collision put it, and the blocks as they were.
LEMMA WalkSound ==
  ASSUME Standing, NEW sneak \in BOOLEAN, NEW wanted \in Vectors, Walk(sneak, wanted)
  PROVE  /\ Standing' /\ player'.sneaking = sneak
         /\ Free(Bounds(player.at, sneak)) => Free(Bounds(player'.at, sneak))
<1> DEFINE box == Bounds(player.at, sneak)
<1>0. player.at \in Vectors /\ player.ground \in BOOLEAN /\ player.fall \in 0 .. StepHeight
      /\ StepHeight \in Nat
  BY MovementAssumption DEF Standing
<1>1. /\ box \in Boxes /\ box.lo = player.at
      /\ \A a \in Axes : box.hi[a] = player.at[a] + (IF a = 2 THEN Height(sneak) ELSE Width)
  BY <1>0, BoundsType
<1>2. PICK requested \in Vectors :
         LET result == Collided(box, requested, player.ground)
             fallen == Min({player.fall + Max({-result.applied[2], 0}), StepHeight})
         IN  player' = [at |-> Plus(player.at, result.applied), sneaking |-> sneak,
                        ground |-> result.landed,
                        fall |-> IF result.landed THEN 0 ELSE fallen]
  <2>1. BackedOff(box, wanted) \in Vectors
    BY <1>1, BackedOffType
  <2> QED BY <2>1 DEF Walk
<1> HIDE DEF box
<1>3. PICK result : result = Collided(box, requested, player.ground)
  OBVIOUS
<1>4. /\ result.applied \in Vectors /\ result.landed \in BOOLEAN
      /\ Clear(box) => Clear(Moved(box, result.applied))
  BY <1>0, <1>1, <1>3, CollidedSound
<1> DEFINE fallen == Min({player.fall + Max({-result.applied[2], 0}), StepHeight})
<1>5. player' = [at |-> Plus(player.at, result.applied), sneaking |-> sneak,
                 ground |-> result.landed, fall |-> IF result.landed THEN 0 ELSE fallen]
  BY <1>2, <1>3
<1>6. fallen \in 0 .. StepHeight
  <2>1. PICK n \in Int : n = -result.applied[2]
    BY <1>4 DEF Vectors, Axes
  <2>2. Max({n, 0}) = IF n <= 0 THEN 0 ELSE n
    BY OfTwo
  <2>3. PICK m \in Nat : m = player.fall + Max({n, 0})
    BY <1>0, <2>2
  <2>4. Min({m, StepHeight}) = IF m <= StepHeight THEN m ELSE StepHeight
    BY <1>0, OfTwo
  <2> QED BY <1>0, <2>1, <2>3, <2>4
<1> HIDE DEF fallen
<1>7. /\ Plus(player.at, result.applied) \in Vectors
      /\ \A a \in Axes : Plus(player.at, result.applied)[a] = player.at[a] + result.applied[a]
  BY <1>0, <1>4, PlusType
<1>8. player' \in [at : Vectors, sneaking : BOOLEAN, ground : BOOLEAN, fall : 0 .. StepHeight]
  BY <1>0, <1>4, <1>5, <1>6, <1>7
<1>9. player'.at = Plus(player.at, result.applied) /\ player'.sneaking = sneak
  BY <1>5
<1> DEFINE new == Bounds(player'.at, sneak)
<1> DEFINE moved == Moved(box, result.applied)
<1>10. /\ new \in Boxes /\ new.lo = player'.at
       /\ \A a \in Axes : new.hi[a] = player'.at[a] + (IF a = 2 THEN Height(sneak) ELSE Width)
  BY <1>7, <1>9, BoundsType
<1>11. /\ moved \in Boxes
       /\ \A a \in Axes : /\ moved.lo[a] = box.lo[a] + result.applied[a]
                          /\ moved.hi[a] = box.hi[a] + result.applied[a]
  BY <1>1, <1>4, MovedType
<1>12. \A a \in Axes : player.at[a] \in Int /\ result.applied[a] \in Int /\ box.hi[a] \in Int
  BY <1>0, <1>1, <1>4 DEF Boxes, Vectors
<1>13. Width \in Int /\ Height(sneak) \in Int
  BY MovementAssumption DEF Height
<1>14. \A a \in Axes : new.lo[a] = moved.lo[a] /\ new.hi[a] = moved.hi[a]
  BY <1>1, <1>7, <1>9, <1>10, <1>11, <1>12, <1>13
<1> HIDE DEF new, moved
<1>15. \A o : Inside(new, o) <=> Inside(moved, o)
  BY <1>14 DEF Inside, Overlap
<1>16. Clear(moved) => Clear(new)
  BY <1>15 DEF Clear
<1>17. Free(box) => Free(new)
  BY <1>1, <1>4, <1>10, <1>16, FreeIsClear DEF moved
<1> QED BY <1>8, <1>9, <1>17 DEF Standing, box, new

LEMMA StandingInit == MovementInit => Standing
BY MovementAssumption DEF MovementInit, Standing, Vectors, Axes

LEMMA MovementStep ==
  ASSUME Standing, [MovementNext]_movementVars
  PROVE  /\ Standing'
         /\ player' # player /\ Free(Bounds(player.at, player'.sneaking))
              => Free(Bounds(player'.at, player'.sneaking))
<1>1. CASE UNCHANGED movementVars
  BY <1>1 DEF movementVars, Standing
<1>2. CASE MovementNext
  <2>1. PICK sneak \in BOOLEAN, wanted \in Requests : Walk(sneak, wanted)
    BY <1>2 DEF MovementNext
  <2>2. wanted \in Vectors
    BY MovementAssumption DEF Vectors, Axes
  <2> QED BY <2>1, <2>2, WalkSound
<1> QED BY <1>1, <1>2

\* No tick takes a player that has room into a block, in any world, for any size of the
\* player and any step height, and however far a tick is asked to go (PlayerMovementState::tick,
\* collide, resolve_x, resolve_y, resolve_z, collect_obstacles).
THEOREM NeverIntoABlock == MovementSpec => MovementSound
<1>1. MovementSpec => []Standing
  <2>1. Standing /\ [MovementNext]_movementVars => Standing'
    BY MovementStep
  <2> QED BY <2>1, StandingInit, PTL DEF MovementSpec
<1>2. Standing /\ [MovementNext]_movementVars =>
        [player' # player /\ Free(Bounds(player.at, player'.sneaking))
          => Free(Bounds(player'.at, player'.sneaking))]_movementVars
  BY MovementStep
<1> QED BY <1>1, <1>2, PTL DEF MovementSpec, MovementSound

-----------------------------------------------------------------------------
(* The two side by side.                                                   *)

TickInv == IInv /\ Standing

LEMMA TickInitInv == TickInit => TickInv
BY InitInv, StandingInit DEF TickInit, TickInv

LEMMA TickNextInv == TickInv /\ [TickNext]_tickVars => TickInv'
<1> SUFFICES ASSUME TickInv, [TickNext]_tickVars PROVE TickInv'
  OBVIOUS
<1>1. [Next]_vars /\ [MovementNext]_movementVars
  BY DEF TickNext, tickVars
<1> QED BY <1>1, NextInv, MovementStep DEF TickInv

\* The player's tick, whether a behaviour follows the controls or the collision: its types,
\* the look and what the server is told (ControlState, MovementPacketTracker).
THEOREM TickSound == TickSpec => [](TickTypeOK /\ LookExact /\ ServerInformed)
<1>1. TickInv => TickTypeOK /\ LookExact /\ ServerInformed
  <2>1. Standing => MovementTypeOK
    BY DEF Standing, MovementTypeOK, Vectors
  <2> QED BY <2>1, ImpliesTypeOK, ImpliesInformed DEF TickInv, TickTypeOK, IInv
<1> QED BY <1>1, TickInitInv, TickNextInv, PTL DEF TickSpec

\* And no tick takes a player that has room into a block (PlayerMovementState::tick, collide).
THEOREM TickNeverIntoABlock == TickSpec => MovementSound
<1>1. Standing /\ [TickNext]_tickVars =>
        [player' # player /\ Free(Bounds(player.at, player'.sneaking))
          => Free(Bounds(player'.at, player'.sneaking))]_movementVars
  <2>1. [TickNext]_tickVars => [MovementNext]_movementVars
    BY DEF TickNext, tickVars
  <2> QED BY <2>1, MovementStep
<1>2. TickInv => Standing
  BY DEF TickInv
<1> QED BY <1>1, <1>2, TickInitInv, TickNextInv, PTL DEF TickSpec, MovementSound
=============================================================================
