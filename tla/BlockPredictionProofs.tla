------------------------ MODULE BlockPredictionProofs ------------------------
(***************************************************************************)
(* Proofs about block prediction, for every set of positions and block     *)
(* states, every bound of the queue and every server the model admits.     *)
(***************************************************************************)
EXTENDS BlockPrediction, SequenceTheorems, WellFoundedInduction, TLAPS

Trackers ==
  [activeBreak : [position : Positions, state : Breakable] \cup {None},
   destroyDelay : 0..DestroyDelay, nextSequence : Nat,
   latestAcknowledged : Nat \cup {None}, predictions : Seq(Predictions)]

Actions ==
  [kind : {"start", "abort", "stop"}, position : Positions, adjacent : {None}, item : {None}, sequence : Nat]
  \cup [kind : {"use"}, position : Positions \cup {None}, adjacent : Positions,
        item : Placements \cup {None}, sequence : Nat]

Servers ==
  [habits : Habits, blocks : [Positions -> States], creative : BOOLEAN, ack : Nat \cup {None}, sent : BOOLEAN]

Types ==
  /\ client \in [Positions -> States \cup {Unloaded}]
  /\ tracker \in Trackers
  /\ creative \in BOOLEAN /\ placed \in BOOLEAN
  /\ server \in Servers
  /\ toServer \in Seq(Actions) /\ toClient \in Seq(Packets)
  /\ budget \in Nat

\* QueueOrdered, of any queue.
Ordered(ps, next) ==
  /\ Len(ps) <= MaxPredictions
  /\ \A i, j \in 1..Len(ps) : i < j => ps[i].sequence < ps[j].sequence /\ ps[i].position # ps[j].position
  /\ \A i \in 1..Len(ps) : ps[i].sequence < next

-----------------------------------------------------------------------------
(* A steady world.                                                         *)

\* Nothing travels that replaces the world or the session.
Undisturbed ==
  /\ server.sent /\ \A p \in Positions : client[p] # Unloaded
  /\ \A i \in 1..Len(toClient) : toClient[i].kind \in {"update", "ack", "mode"}

Presented == \A i \in 1..Len(tracker.predictions) :
               client[tracker.predictions[i].position] = tracker.predictions[i].expected

\* The next sequence number is ahead of everything under way, and every prediction
\* ahead of what was acknowledged.
Ahead ==
  /\ tracker.latestAcknowledged # None =>
       /\ tracker.latestAcknowledged < tracker.nextSequence
       /\ \A i \in 1..Len(tracker.predictions) : tracker.latestAcknowledged < tracker.predictions[i].sequence
  /\ server.ack # None => server.ack < tracker.nextSequence
  /\ \A i \in 1..Len(toServer) : toServer[i].sequence < tracker.nextSequence
  /\ \A i \in 1..Len(toClient) : toClient[i].kind = "ack" => toClient[i].sequence < tracker.nextSequence

\* The action with sequence number s, or an acknowledgement that covers it, is under way.
Outstanding(s) ==
  \/ \E j \in 1..Len(toServer) : toServer[j].sequence = s
  \/ server.ack # None /\ server.ack >= s
  \/ \E j \in 1..Len(toClient) : toClient[j].kind = "ack" /\ toClient[j].sequence >= s

Awaited == \A i \in 1..Len(tracker.predictions) : Outstanding(tracker.predictions[i].sequence)

\* What the client takes the server's block to be: what the prediction retains, or what it shows.
Base(c, ps, p) ==
  IF PredictionAt(ps, p) = {} THEN c[p] ELSE ps[CHOOSE i \in PredictionAt(ps, p) : TRUE].serverState

Updates(m, p) == m.kind = "update" /\ m.position = p

\* The last update of p in q, or b where there is none, is s.
LastTold(q, p, b, s) ==
  \/ \E i \in 1..Len(q) : Updates(q[i], p) /\ q[i].state = s /\ \A j \in (i+1)..Len(q) : ~Updates(q[j], p)
  \/ b = s /\ \A j \in 1..Len(q) : ~Updates(q[j], p)

\* A completed break on its way may have retained a stale state: it will be corrected.
Stopping(p) == \E i \in 1..Len(toServer) : toServer[i].kind = "stop" /\ toServer[i].position = p

Agrees(p) ==
  \/ LastTold(toClient, p, Base(client, tracker.predictions, p), server.blocks[p])
  \/ Has("corrects") /\ Stopping(p)

SteadyInv ==
  /\ Undisturbed /\ Presented /\ Ahead /\ Awaited
  /\ (Has("corrects") \/ OneKind) => \A p \in Positions : Agrees(p)

IInv == Types /\ Ordered(tracker.predictions, tracker.nextSequence) /\ (Steady => SteadyInv)

-----------------------------------------------------------------------------
(* Queues and numbers.                                                     *)

\* Induction over a set of natural numbers.
LEMMA Smallest ==
  ASSUME NEW T, T \subseteq Nat, T # {}
  PROVE  \E n \in T : \A m \in T : n <= m
<1> DEFINE R == {ss \in Nat \X Nat : ss[1] < ss[2]}
<1>1. IsWellFoundedOn(R, Nat)
  BY NatLessThanWellFounded DEF OpToRel
<1> HIDE DEF R
<1>2. PICK n \in T : \A m \in T : ~(<<m, n>> \in R)
  BY <1>1, WFMin
<1>3. \A m \in T : ~(m < n)
  <2> TAKE m \in T
  <2>1. <<m, n>> \notin R /\ m \in Nat /\ n \in Nat
    BY <1>2
  <2> QED BY <2>1 DEF R
<1> QED BY <1>3


LEMMA TailLemma ==
  ASSUME NEW M, NEW q \in Seq(M), q # <<>>
  PROVE  /\ Len(q) \in Nat /\ Len(q) >= 1 /\ Head(q) = q[1] /\ Head(q) \in M
         /\ Tail(q) \in Seq(M) /\ Len(Tail(q)) = Len(q) - 1
         /\ \A i \in 1..Len(Tail(q)) : Tail(q)[i] = q[i+1] /\ i + 1 \in 1..Len(q)
         /\ \A i \in 1..Len(q) : i = 1 \/ (i - 1 \in 1..Len(Tail(q)) /\ Tail(q)[i-1] = q[i])
<1>1. Len(q) \in Nat /\ Len(q) >= 1
  BY EmptySeq
<1>2. /\ Head(q) \in M /\ Tail(q) \in Seq(M) /\ Len(Tail(q)) = Len(q) - 1
      /\ \A i \in 1..Len(Tail(q)) : Tail(q)[i] = q[i+1]
  BY HeadTailProperties
<1>3. Head(q) = q[1]
  BY <1>1
<1>4. ASSUME NEW i \in 1..Len(q), i # 1 PROVE i - 1 \in 1..Len(Tail(q)) /\ Tail(q)[i-1] = q[i]
  <2>1. i - 1 \in 1..Len(Tail(q)) /\ (i - 1) + 1 = i
    BY <1>1, <1>2, <1>4
  <2> QED BY <1>2, <2>1
<1> QED BY <1>1, <1>2, <1>3, <1>4

LEMMA AppendLemma ==
  ASSUME NEW M, NEW q \in Seq(M), NEW m \in M
  PROVE  /\ Append(q, m) \in Seq(M) /\ Len(Append(q, m)) = Len(q) + 1 /\ Len(q) \in Nat
         /\ Append(q, m)[Len(q) + 1] = m
         /\ \A i \in 1..Len(q) : Append(q, m)[i] = q[i]
<1>1. /\ Append(q, m) \in Seq(M) /\ Len(Append(q, m)) = Len(q) + 1
      /\ Append(q, m)[Len(q) + 1] = m
      /\ \A i \in 1..Len(q) : Append(q, m)[i] = q[i]
  BY AppendProperties
<1>2. Len(q) \in Nat
  BY LenProperties
<1> QED BY <1>1, <1>2

-----------------------------------------------------------------------------
(* The queue of predictions.                                               *)

LEMMA RemovedLemma ==
  ASSUME NEW ps \in Seq(Predictions), NEW i \in 1..Len(ps)
  PROVE  /\ Removed(ps, i) \in Seq(Predictions) /\ Len(Removed(ps, i)) = Len(ps) - 1 /\ Len(ps) \in Nat
         /\ \A k \in 1..(Len(ps) - 1) : Removed(ps, i)[k] = IF k < i THEN ps[k] ELSE ps[k+1]
<1>1. Len(ps) \in Nat /\ Len(ps) - 1 \in Nat /\ \A k \in 1..Len(ps) : ps[k] \in Predictions
  BY LenProperties, ElementOfSeq
<1>2. \A k \in 1..(Len(ps) - 1) : (IF k < i THEN ps[k] ELSE ps[k+1]) \in Predictions
  <2> TAKE k \in 1..(Len(ps) - 1)
  <2>1. k \in 1..Len(ps) /\ k + 1 \in 1..Len(ps)
    BY <1>1
  <2> QED BY <1>1, <2>1
<1>3. Removed(ps, i) \in [1..(Len(ps) - 1) -> Predictions]
  BY <1>2 DEF Removed
<1>4. Removed(ps, i) \in Seq(Predictions)
  BY <1>1, <1>3, SeqDef
<1>5. Len(Removed(ps, i)) = Len(ps) - 1
  BY <1>1, <1>3, <1>4, LenProperties
<1>6. \A k \in 1..(Len(ps) - 1) : Removed(ps, i)[k] = IF k < i THEN ps[k] ELSE ps[k+1]
  BY DEF Removed
<1> QED BY <1>1, <1>4, <1>5, <1>6

\* A registered prediction is the last one, and takes the place of an earlier one at its position.
IsRegistered(ps, r, sequence, p, observed, expected) ==
  /\ Len(r) \in Nat /\ Len(r) >= 1
  /\ r[Len(r)].position = p /\ r[Len(r)].sequence = sequence /\ r[Len(r)].expected = expected
  /\ \/ r[Len(r)].serverState = observed /\ \A j \in 1..Len(ps) : ps[j].position # p
     \/ \E j \in 1..Len(ps) : ps[j].position = p /\ r[Len(r)].serverState = ps[j].serverState
  /\ \A k \in 1..Len(r) : k = Len(r) \/ \E j \in 1..Len(ps) : r[k] = ps[j] /\ ps[j].position # p
  /\ \A j \in 1..Len(ps) : ps[j].position = p \/ \E k \in 1..Len(r) : k # Len(r) /\ r[k] = ps[j]

LEMMA RegisteredLemma ==
  ASSUME NEW ps \in Seq(Predictions), NEW next \in Nat, Ordered(ps, next),
         NEW sequence \in Nat, next <= sequence, NEW later \in Nat, sequence < later,
         NEW p \in Positions, NEW observed \in States, NEW expected \in States, CanRegister(ps, p)
  PROVE  LET r == Registered(ps, sequence, p, observed, expected)
         IN  /\ r \in Seq(Predictions) /\ Ordered(r, later)
             /\ IsRegistered(ps, r, sequence, p, observed, expected)
<1> DEFINE r == Registered(ps, sequence, p, observed, expected)
<1>0. /\ Len(ps) \in Nat /\ \A k \in 1..Len(ps) : ps[k] \in Predictions
      /\ PredictionAt(ps, p) = {i \in 1..Len(ps) : ps[i].position = p}
  BY LenProperties, ElementOfSeq DEF PredictionAt
<1>1. CASE PredictionAt(ps, p) = {}
  <2>1. PICK m : m = Prediction(sequence, p, observed, expected)
    OBVIOUS
  <2>2. /\ m \in Predictions /\ m.position = p /\ m.sequence = sequence /\ m.expected = expected
        /\ m.serverState = observed
    BY <2>1 DEF Prediction, Predictions
  <2>3. r = Append(ps, m)
    BY <1>1, <2>1 DEF Registered
  <2> HIDE DEF r
  <2>4. /\ r \in Seq(Predictions) /\ Len(r) = Len(ps) + 1 /\ r[Len(ps) + 1] = m
        /\ \A i \in 1..Len(ps) : r[i] = ps[i]
    BY <2>2, <2>3, AppendLemma
  <2>5. \A j \in 1..Len(ps) : ps[j].position # p
    BY <1>0, <1>1
  <2>6. Len(ps) + 1 <= MaxPredictions
    BY PredictionAssumption, <1>0, <1>1 DEF CanRegister
  <2>7. \A k \in 1..Len(r) : k = Len(r) \/ k \in 1..Len(ps)
    BY <1>0, <2>4
  <2>8. Ordered(r, later)
    <3>1. \A i \in 1..Len(ps) : ps[i].sequence < sequence /\ ps[i].sequence \in Nat
      BY <1>0 DEF Ordered, Predictions
    <3>2. ASSUME NEW i \in 1..Len(r), NEW j \in 1..Len(r), i < j
          PROVE  r[i].sequence < r[j].sequence /\ r[i].position # r[j].position
      <4>1. i \in 1..Len(ps)
        BY <1>0, <2>4, <3>2
      <4>2. CASE j = Len(r)
        BY <2>2, <2>4, <2>5, <3>1, <4>1, <4>2
      <4>3. CASE j \in 1..Len(ps)
        BY <2>4, <3>2, <4>1, <4>3 DEF Ordered
      <4> QED BY <2>7, <4>2, <4>3
    <3>3. \A i \in 1..Len(r) : r[i].sequence < later
      BY <2>2, <2>4, <2>7, <3>1
    <3> QED BY <2>4, <2>6, <3>2, <3>3 DEF Ordered
  <2>9. \A k \in 1..Len(r) : k = Len(r) \/ \E j \in 1..Len(ps) : r[k] = ps[j] /\ ps[j].position # p
    BY <2>4, <2>5, <2>7
  <2>10. \A j \in 1..Len(ps) : j \in 1..Len(r) /\ j # Len(r) /\ r[j] = ps[j]
    BY <1>0, <2>4
  <2>11. \A j \in 1..Len(ps) : \E k \in 1..Len(r) : k # Len(r) /\ r[k] = ps[j]
    BY <2>10
  <2>12. Len(r) \in Nat /\ Len(r) >= 1 /\ r[Len(r)] = m
    BY <1>0, <2>4
  <2>13. IsRegistered(ps, r, sequence, p, observed, expected)
    BY <2>2, <2>5, <2>9, <2>11, <2>12 DEF IsRegistered
  <2> QED BY <2>4, <2>8, <2>13 DEF r
<1>2. CASE PredictionAt(ps, p) # {}
  <2>1. PICK i \in 1..Len(ps) : i = (CHOOSE n \in PredictionAt(ps, p) : TRUE) /\ ps[i].position = p
    BY <1>0, <1>2
  <2>2. PICK m, others : m = Prediction(sequence, p, ps[i].serverState, expected) /\ others = Removed(ps, i)
    OBVIOUS
  <2>3. /\ m \in Predictions /\ m.position = p /\ m.sequence = sequence /\ m.expected = expected
        /\ m.serverState = ps[i].serverState
    BY <1>0, <2>2 DEF Prediction, Predictions
  <2>4. r = Append(others, m)
    BY <1>2, <2>1, <2>2 DEF Registered
  <2> HIDE DEF r
  <2>5. /\ others \in Seq(Predictions) /\ Len(others) = Len(ps) - 1
        /\ \A k \in 1..(Len(ps) - 1) : others[k] = IF k < i THEN ps[k] ELSE ps[k+1]
    BY <2>2, RemovedLemma
  <2>6. /\ r \in Seq(Predictions) /\ Len(r) = Len(ps) /\ r[Len(ps)] = m
        /\ \A k \in 1..(Len(ps) - 1) : r[k] = others[k]
    <3>1. /\ r \in Seq(Predictions) /\ Len(r) = Len(others) + 1 /\ r[Len(others) + 1] = m
          /\ \A k \in 1..Len(others) : r[k] = others[k]
      BY <2>3, <2>4, <2>5, AppendLemma
    <3>2. Len(others) + 1 = Len(ps)
      BY <1>0, <2>5
    <3> QED BY <2>5, <3>1, <3>2
  <2>7. PICK f : f = [k \in 1..(Len(ps) - 1) |-> IF k < i THEN k ELSE k + 1]
    OBVIOUS
  <2>8. ASSUME NEW k \in 1..(Len(ps) - 1)
        PROVE  f[k] \in 1..Len(ps) /\ f[k] # i /\ r[k] = ps[f[k]] /\ k \in 1..Len(r) /\ k # Len(r)
    BY <1>0, <2>5, <2>6, <2>7
  <2>9. \A j, k \in 1..(Len(ps) - 1) : j < k => f[j] < f[k]
    BY <1>0, <2>7
  <2>10. \A j \in 1..Len(ps) : j # i => ps[j].position # p
    <3> TAKE j \in 1..Len(ps)
    <3>1. j < i \/ j > i \/ j = i
      BY <1>0
    <3> QED BY <2>1, <3>1 DEF Ordered
  <2>11. \A k \in 1..Len(r) : k = Len(r) \/ k \in 1..(Len(ps) - 1)
    BY <1>0, <2>6
  <2>12. Ordered(r, later)
    <3>1. \A k \in 1..Len(ps) : ps[k].sequence < sequence /\ ps[k].sequence \in Nat
      BY <1>0 DEF Ordered, Predictions
    <3>2. ASSUME NEW j \in 1..Len(r), NEW k \in 1..Len(r), j < k
          PROVE  r[j].sequence < r[k].sequence /\ r[j].position # r[k].position
      <4>1. j \in 1..(Len(ps) - 1)
        BY <1>0, <2>6, <3>2
      <4>2. CASE k = Len(r)
        BY <2>3, <2>6, <2>8, <2>10, <3>1, <4>1, <4>2
      <4>3. CASE k \in 1..(Len(ps) - 1)
        <5>1. f[j] < f[k] /\ f[j] \in 1..Len(ps) /\ f[k] \in 1..Len(ps) /\ r[j] = ps[f[j]] /\ r[k] = ps[f[k]]
          BY <2>8, <2>9, <3>2, <4>1, <4>3
        <5> QED BY <5>1 DEF Ordered
      <4> QED BY <2>11, <4>2, <4>3
    <3>3. \A k \in 1..Len(r) : r[k].sequence < later
      <4> TAKE k \in 1..Len(r)
      <4>1. CASE k = Len(r)
        BY <2>3, <2>6, <4>1
      <4>2. CASE k \in 1..(Len(ps) - 1)
        <5>1. f[k] \in 1..Len(ps) /\ r[k] = ps[f[k]]
          BY <2>8, <4>2
        <5>2. r[k].sequence < sequence /\ r[k].sequence \in Nat
          BY <3>1, <5>1
        <5> QED BY <5>2
      <4> QED BY <2>11, <4>1, <4>2
    <3> QED BY <2>6, <3>2, <3>3 DEF Ordered
  <2>13. \A k \in 1..Len(r) : k = Len(r) \/ \E j \in 1..Len(ps) : r[k] = ps[j] /\ ps[j].position # p
    <3> TAKE k \in 1..Len(r)
    <3>1. CASE k \in 1..(Len(ps) - 1)
      <4>1. f[k] \in 1..Len(ps) /\ f[k] # i /\ r[k] = ps[f[k]]
        BY <2>8, <3>1
      <4> QED BY <2>10, <4>1
    <3> QED BY <2>11, <3>1
  <2>14. ASSUME NEW j \in 1..Len(ps), ps[j].position # p PROVE \E k \in 1..Len(r) : k # Len(r) /\ r[k] = ps[j]
    <3>1. j < i \/ j > i
      BY <1>0, <2>1, <2>14
    <3>2. CASE j < i
      <4>1. j \in 1..(Len(ps) - 1) /\ f[j] = j
        BY <1>0, <2>7, <3>2
      <4> QED BY <2>8, <4>1
    <3>3. CASE j > i
      <4>1. j - 1 \in 1..(Len(ps) - 1) /\ f[j - 1] = j
        BY <1>0, <2>7, <3>3
      <4> QED BY <2>8, <4>1
    <3> QED BY <3>1, <3>2, <3>3
  <2>15. Len(r) \in Nat /\ Len(r) >= 1 /\ r[Len(r)] = m
    BY <1>0, <2>6
  <2> QED BY <1>0, <2>1, <2>3, <2>6, <2>12, <2>13, <2>14, <2>15 DEF IsRegistered, r
<1> QED BY <1>1, <1>2

\* What the client takes the server's block to be, where it predicts and where it does not.
LEMMA BaseShown ==
  ASSUME NEW c, NEW ps \in Seq(Predictions), NEW p, \A i \in 1..Len(ps) : ps[i].position # p
  PROVE  Base(c, ps, p) = c[p]
<1>1. PredictionAt(ps, p) = {i \in 1..Len(ps) : ps[i].position = p}
  BY LenProperties DEF PredictionAt
<1> QED BY <1>1 DEF Base

LEMMA BaseRetained ==
  ASSUME NEW c, NEW ps \in Seq(Predictions), NEW next, Ordered(ps, next), NEW p,
         NEW i \in 1..Len(ps), ps[i].position = p
  PROVE  Base(c, ps, p) = ps[i].serverState
<1>1. Len(ps) \in Nat /\ PredictionAt(ps, p) = {k \in 1..Len(ps) : ps[k].position = p}
  BY LenProperties DEF PredictionAt
<1>2. PICK k \in 1..Len(ps) : k = (CHOOSE n \in PredictionAt(ps, p) : TRUE) /\ ps[k].position = p
  BY <1>1
<1>3. k = i
  <2>1. k < i \/ i < k \/ k = i
    BY <1>1
  <2> QED BY <1>2, <2>1 DEF Ordered
<1>4. PredictionAt(ps, p) # {}
  BY <1>1
<1> QED BY <1>2, <1>3, <1>4 DEF Base

\* acknowledge retires exactly the predictions the sequence covers.
LEMMA CoveredLemma ==
  ASSUME NEW ps \in Seq(Predictions), NEW next, Ordered(ps, next), NEW sequence \in Nat
  PROVE  /\ Covered(ps, sequence) \in 0..Len(ps) /\ Len(ps) \in Nat
         /\ \A i \in 1..Len(ps) : i \in 1..Covered(ps, sequence) <=> ps[i].sequence <= sequence
<1>0. Len(ps) \in Nat /\ \A i \in 1..Len(ps) : ps[i].sequence \in Nat
  <2>1. \A i \in 1..Len(ps) : ps[i] \in Predictions
    BY LenProperties, ElementOfSeq
  <2>2. Len(ps) \in Nat
    BY LenProperties
  <2> QED BY <2>1, <2>2 DEF Predictions
<1> DEFINE Stop(n) == /\ \A i \in 1..n : ps[i].sequence <= sequence
                      /\ n < Len(ps) => ps[n + 1].sequence > sequence
           T == {n \in 0..Len(ps) : n < Len(ps) => ps[n + 1].sequence > sequence}
<1>1. \E n \in 0..Len(ps) : Stop(n)
  <2>1. Len(ps) \in T /\ T \subseteq Nat
    BY <1>0
  <2>2. PICK n \in T : \A m \in T : n <= m
    BY <2>1, Smallest
  <2>3. ASSUME NEW i \in 1..n PROVE ps[i].sequence <= sequence
    <3>1. i - 1 \in 0..Len(ps) /\ ~(n <= i - 1) /\ i - 1 < Len(ps) /\ (i - 1) + 1 = i /\ i \in 1..Len(ps)
      BY <1>0, <2>2
    <3>2. i - 1 \notin T
      BY <2>2, <3>1
    <3>3. ~(ps[i].sequence > sequence)
      BY <3>1, <3>2
    <3> QED BY <1>0, <3>1, <3>3
  <2> QED BY <2>2, <2>3
<1>2. PICK n : n = Covered(ps, sequence)
  OBVIOUS
<1>3. n \in 0..Len(ps) /\ Stop(n)
  <2>1. n = CHOOSE m \in 0..Len(ps) : Stop(m)
    BY <1>2 DEF Covered
  <2> HIDE DEF Stop
  <2> QED BY <1>1, <2>1
<1>4. ASSUME NEW i \in 1..Len(ps) PROVE i \in 1..n <=> ps[i].sequence <= sequence
  <2>1. CASE i \in 1..n
    BY <1>3, <2>1
  <2>2. CASE i \notin 1..n
    <3>1. n + 1 \in 1..Len(ps) /\ n < Len(ps) /\ (i = n + 1 \/ n + 1 < i)
      BY <1>0, <1>3, <2>2
    <3>2. ps[n + 1].sequence > sequence
      BY <1>3, <3>1
    <3>3. ps[n + 1].sequence <= ps[i].sequence
      BY <1>0, <3>1 DEF Ordered
    <3> QED BY <1>0, <2>2, <3>1, <3>2, <3>3
  <2> QED BY <2>1, <2>2
<1> QED BY <1>0, <1>2, <1>3, <1>4

-----------------------------------------------------------------------------
(* What a tick makes.                                                      *)

Changes == [position : Positions, state : States]

Outcomes == [tracker : Trackers, frames : Seq(Actions), update : Changes \cup {None}]

\* The predicted change is registered with the sequence number of one of the tick's frames,
\* over the state the client shows, or over the one a completed break began with.
Predicted(o) ==
  \E k \in 1..Len(o.frames) : \E observed \in States :
     /\ CanRegister(tracker.predictions, o.update.position)
     /\ o.tracker.predictions = Registered(tracker.predictions, o.frames[k].sequence, o.update.position,
                                           observed, o.update.state)
     /\ \/ observed = client[o.update.position]
        \/ /\ o.frames[k].kind = "stop" /\ o.frames[k].position = o.update.position
           /\ observed # Air /\ client[o.update.position] \in States \ {Air}

\* The frames carry the next sequence numbers in order.
Numbered(o) ==
  /\ o.tracker.nextSequence = tracker.nextSequence + Len(o.frames)
  /\ \A i \in 1..Len(o.frames) : o.frames[i].sequence + 1 = tracker.nextSequence + i

Sane(o) ==
  /\ o \in Outcomes /\ Numbered(o)
  /\ o.tracker.latestAcknowledged = tracker.latestAcknowledged
  /\ o.update = None => o.tracker.predictions = tracker.predictions
  /\ o.update # None => Predicted(o)

LEMMA BreakTweak ==
  ASSUME NEW o, Sane(o), NEW b \in [position : Positions, state : Breakable] \cup {None}
  PROVE  LET e == [o EXCEPT !.tracker.activeBreak = b]
         IN  /\ Sane(e) /\ e.update = o.update /\ e.frames = o.frames
             /\ e.tracker = [o.tracker EXCEPT !.activeBreak = b]
<1>1. PICK t : t = [o.tracker EXCEPT !.activeBreak = b]
  OBVIOUS
<1>2. PICK e : e = [o EXCEPT !.tracker = t]
  OBVIOUS
<1>3. e = [o EXCEPT !.tracker.activeBreak = b]
  BY <1>1, <1>2
<1>4. o \in Outcomes
  BY DEF Sane
<1>5. /\ t \in Trackers /\ t.nextSequence = o.tracker.nextSequence /\ t.predictions = o.tracker.predictions
      /\ t.latestAcknowledged = o.tracker.latestAcknowledged
  BY <1>1, <1>4 DEF Outcomes, Trackers
<1>6. e \in Outcomes /\ e.tracker = t /\ e.frames = o.frames /\ e.update = o.update
  BY <1>2, <1>4, <1>5 DEF Outcomes
<1>7. Numbered(e)
  BY <1>5, <1>6 DEF Sane, Numbered
<1>8. e.update # None => Predicted(e)
  BY <1>5, <1>6 DEF Sane, Predicted
<1>9. Sane(e)
  BY <1>5, <1>6, <1>7, <1>8 DEF Sane
<1> QED BY <1>1, <1>3, <1>6, <1>9

LEMMA DelayTweak ==
  ASSUME NEW o, Sane(o), NEW d \in 0..DestroyDelay
  PROVE  LET e == [o EXCEPT !.tracker.destroyDelay = d]
         IN  /\ Sane(e) /\ e.update = o.update /\ e.frames = o.frames
             /\ e.tracker = [o.tracker EXCEPT !.destroyDelay = d]
<1>1. PICK t : t = [o.tracker EXCEPT !.destroyDelay = d]
  OBVIOUS
<1>2. PICK e : e = [o EXCEPT !.tracker = t]
  OBVIOUS
<1>3. e = [o EXCEPT !.tracker.destroyDelay = d]
  BY <1>1, <1>2
<1>4. o \in Outcomes
  BY DEF Sane
<1>5. /\ t \in Trackers /\ t.nextSequence = o.tracker.nextSequence /\ t.predictions = o.tracker.predictions
      /\ t.latestAcknowledged = o.tracker.latestAcknowledged
  BY <1>1, <1>4 DEF Outcomes, Trackers
<1>6. e \in Outcomes /\ e.tracker = t /\ e.frames = o.frames /\ e.update = o.update
  BY <1>2, <1>4, <1>5 DEF Outcomes
<1>7. Numbered(e)
  BY <1>5, <1>6 DEF Sane, Numbered
<1>8. e.update # None => Predicted(e)
  BY <1>5, <1>6 DEF Sane, Predicted
<1>9. Sane(e)
  BY <1>5, <1>6, <1>7, <1>8 DEF Sane
<1> QED BY <1>1, <1>3, <1>6, <1>9

\* The frames' sequence numbers are those the tracker hands out.
LEMMA FrameNumber ==
  ASSUME Types, NEW o, Sane(o), NEW k \in 1..Len(o.frames)
  PROVE  /\ o.frames[k] \in Actions /\ o.frames[k].sequence \in Nat
         /\ tracker.nextSequence <= o.frames[k].sequence /\ o.frames[k].sequence < o.tracker.nextSequence
         /\ tracker.nextSequence \in Nat /\ Len(o.frames) \in Nat
<1>1. o.frames \in Seq(Actions) /\ tracker.nextSequence \in Nat
  BY DEF Sane, Outcomes, Types, Trackers
<1>2. o.frames[k] \in Actions /\ Len(o.frames) \in Nat
  BY <1>1, ElementOfSeq, LenProperties
<1>3. o.frames[k].sequence \in Nat
  BY <1>2 DEF Actions
<1>4. o.frames[k].sequence + 1 = tracker.nextSequence + k /\ o.tracker.nextSequence = tracker.nextSequence + Len(o.frames)
  BY DEF Sane, Numbered
<1>5. PICK s, n, m, l : s = o.frames[k].sequence /\ n = tracker.nextSequence /\ m = o.tracker.nextSequence /\ l = Len(o.frames)
  OBVIOUS
<1>6. n <= s /\ s < m
  <2>1. s \in Nat /\ n \in Nat /\ l \in Nat /\ k \in 1..l /\ s + 1 = n + k /\ m = n + l
    BY <1>1, <1>2, <1>3, <1>4, <1>5
  <2> QED BY <2>1
<1> QED BY <1>1, <1>2, <1>3, <1>5, <1>6

\* e is o with the frame f behind it.
Emitted(o, f, e) ==
  /\ Sane(e) /\ e.update = o.update
  /\ e.tracker = [o.tracker EXCEPT !.nextSequence = o.tracker.nextSequence + 1]
  /\ Len(o.frames) + 1 \in 1..Len(e.frames) /\ e.frames[Len(o.frames) + 1] = f

LEMMA EmitLemma ==
  ASSUME Types, NEW o, Sane(o), NEW f, f \in Actions, f.sequence = o.tracker.nextSequence,
         NEW e, e = Emit(o, f.kind, f.position, f.adjacent, f.item)
  PROVE  Emitted(o, f, e)
<1>1. PICK t : t = [o.tracker EXCEPT !.nextSequence = o.tracker.nextSequence + 1]
  OBVIOUS
<1>2. PICK a : a = [o EXCEPT !.tracker = t]
  OBVIOUS
<1>4. o \in Outcomes
  BY DEF Sane
<1>5. e = [a EXCEPT !.frames = Append(o.frames, f)]
  <2>1. f = [kind |-> f.kind, position |-> f.position, adjacent |-> f.adjacent, item |-> f.item,
             sequence |-> o.tracker.nextSequence]
    BY DEF Actions
  <2> QED BY <1>1, <1>2, <1>4, <2>1 DEF Emit, Outcomes
<1>6. /\ t \in Trackers /\ t.predictions = o.tracker.predictions
      /\ t.nextSequence = o.tracker.nextSequence + 1 /\ o.tracker.nextSequence \in Nat
      /\ t.latestAcknowledged = o.tracker.latestAcknowledged
  <2>1. o.tracker \in Trackers
    BY <1>4 DEF Outcomes
  <2>2. o.tracker.nextSequence \in Nat /\ o.tracker.nextSequence + 1 \in Nat
    BY <2>1 DEF Trackers
  <2>3. PICK n : n = o.tracker.nextSequence + 1
    OBVIOUS
  <2>4. t = [o.tracker EXCEPT !.nextSequence = n] /\ n \in Nat
    BY <1>1, <2>2, <2>3
  <2>5. /\ t \in Trackers /\ t.predictions = o.tracker.predictions /\ t.nextSequence = n
        /\ t.latestAcknowledged = o.tracker.latestAcknowledged
    BY <2>1, <2>4 DEF Trackers
  <2> QED BY <2>2, <2>3, <2>5
<1>7. o.frames \in Seq(Actions)
  BY <1>4 DEF Outcomes
<1>8. PICK g : g = Append(o.frames, f)
  OBVIOUS
<1>9. /\ g \in Seq(Actions) /\ Len(g) = Len(o.frames) + 1 /\ Len(o.frames) \in Nat /\ g[Len(o.frames) + 1] = f
      /\ \A i \in 1..Len(o.frames) : g[i] = o.frames[i]
  BY <1>7, <1>8, AppendLemma
<1>10. e \in Outcomes /\ e.tracker = t /\ e.frames = g /\ e.update = o.update
  BY <1>2, <1>4, <1>5, <1>6, <1>8, <1>9 DEF Outcomes
<1>11. Numbered(e)
  <2>1. tracker.nextSequence \in Nat
    BY DEF Types, Trackers
  <2>2. f.sequence = o.tracker.nextSequence
    OBVIOUS
  <2>3. o.tracker.nextSequence = tracker.nextSequence + Len(o.frames)
    BY DEF Sane, Numbered
  <2>4. \A i \in 1..Len(o.frames) : g[i].sequence + 1 = tracker.nextSequence + i
    BY <1>9 DEF Sane, Numbered
  <2>5. g[Len(o.frames) + 1].sequence + 1 = tracker.nextSequence + (Len(o.frames) + 1)
    BY <1>9, <2>1, <2>2, <2>3
  <2>6. \A i \in 1..Len(g) : i = Len(o.frames) + 1 \/ i \in 1..Len(o.frames)
    BY <1>9
  <2>7. t.nextSequence = tracker.nextSequence + Len(g)
    BY <1>6, <1>9, <2>1, <2>3
  <2> QED BY <1>10, <2>4, <2>5, <2>6, <2>7 DEF Numbered
<1>12. ASSUME o.update # None PROVE Predicted(e)
  <2>1. Predicted(o)
    BY <1>12 DEF Sane
  <2>2. \A i \in 1..Len(o.frames) : i \in 1..Len(g) /\ g[i] = o.frames[i]
    BY <1>9
  <2> QED BY <1>6, <1>10, <2>1, <2>2 DEF Predicted
<1>13. Sane(e)
  BY <1>6, <1>10, <1>11, <1>12 DEF Sane
<1>14. Len(o.frames) + 1 \in 1..Len(g)
  BY <1>9
<1> QED BY <1>1, <1>8, <1>9, <1>10, <1>13, <1>14 DEF Emitted

LEMMA PredictLemma ==
  ASSUME Types, Ordered(tracker.predictions, tracker.nextSequence),
         NEW o, Sane(o), o.update = None, NEW k \in 1..Len(o.frames),
         NEW p \in Positions, NEW observed \in States, NEW expected \in States,
         \/ observed = client[p]
         \/ /\ o.frames[k].kind = "stop" /\ o.frames[k].position = p
            /\ observed # Air /\ client[p] \in States \ {Air}
  PROVE  Sane(Predict(o, o.frames[k].sequence, p, observed, expected))
<1>1. CASE ~CanRegister(o.tracker.predictions, p)
  BY <1>1 DEF Predict
<1>2. CASE CanRegister(o.tracker.predictions, p)
  <2>1. PICK s, r, u : /\ s = o.frames[k].sequence /\ r = Registered(tracker.predictions, s, p, observed, expected)
                       /\ u = [position |-> p, state |-> expected]
    OBVIOUS
  <2>2. o \in Outcomes /\ o.tracker.predictions = tracker.predictions
    BY DEF Sane
  <2>3. /\ s \in Nat /\ tracker.nextSequence <= s /\ s < o.tracker.nextSequence /\ tracker.nextSequence \in Nat
    BY <2>1, FrameNumber
  <2>4. o.tracker.nextSequence \in Nat /\ tracker.predictions \in Seq(Predictions)
    BY <2>2 DEF Outcomes, Trackers, Types
  <2>5. r \in Seq(Predictions)
    <3>1. Ordered(tracker.predictions, tracker.nextSequence) /\ CanRegister(tracker.predictions, p)
      BY <1>2, <2>2
    <3>2. PICK ps, next, later : ps = tracker.predictions /\ next = tracker.nextSequence /\ later = o.tracker.nextSequence
      OBVIOUS
    <3>3. /\ ps \in Seq(Predictions) /\ next \in Nat /\ Ordered(ps, next) /\ CanRegister(ps, p)
          /\ s \in Nat /\ next <= s /\ later \in Nat /\ s < later
      BY <2>3, <2>4, <3>1, <3>2
    <3>4. Registered(ps, s, p, observed, expected) \in Seq(Predictions)
      BY <3>3, RegisteredLemma
    <3> QED BY <2>1, <3>2, <3>4
  <2>6. PICK t : t = [o.tracker EXCEPT !.predictions = r]
    OBVIOUS
  <2>7. PICK a : a = [o EXCEPT !.tracker = t]
    OBVIOUS
  <2>8. PICK e : e = [a EXCEPT !.update = u]
    OBVIOUS
  <2>9. e = Predict(o, s, p, observed, expected)
    BY <1>2, <2>1, <2>2, <2>6, <2>7, <2>8 DEF Predict, Outcomes
  <2>10. /\ t \in Trackers /\ t.predictions = r /\ t.nextSequence = o.tracker.nextSequence
         /\ t.latestAcknowledged = o.tracker.latestAcknowledged
    BY <2>2, <2>5, <2>6 DEF Outcomes, Trackers
  <2>11. u \in Changes /\ u.position = p /\ u.state = expected /\ u # None
    BY PredictionAssumption, <2>1 DEF Changes
  <2>12. e \in Outcomes /\ e.tracker = t /\ e.frames = o.frames /\ e.update = u
    BY <2>2, <2>7, <2>8, <2>10, <2>11 DEF Outcomes
  <2>13. Numbered(e)
    BY <2>10, <2>12 DEF Sane, Numbered
  <2>14. Predicted(e)
    BY <1>2, <2>1, <2>2, <2>10, <2>11, <2>12 DEF Predicted
  <2>15. Sane(e)
    BY <2>10, <2>11, <2>12, <2>13, <2>14 DEF Sane
  <2> QED BY <2>1, <2>9, <2>15
<1> QED BY <1>1, <1>2

LEMMA ConcatLemma ==
  ASSUME NEW M, NEW q \in Seq(M), NEW r \in Seq(M), NEW c, c = q \o r
  PROVE  /\ c \in Seq(M) /\ Len(c) = Len(q) + Len(r) /\ Len(q) \in Nat /\ Len(r) \in Nat
         /\ \A i \in 1..Len(q) : i \in 1..Len(c) /\ c[i] = q[i]
         /\ \A i \in 1..Len(r) : Len(q) + i \in 1..Len(c) /\ c[Len(q) + i] = r[i]
         /\ \A i \in 1..Len(c) : i \in 1..Len(q) \/ (i - Len(q) \in 1..Len(r) /\ c[i] = r[i - Len(q)])
<1>1. Len(q) \in Nat /\ Len(r) \in Nat
  BY LenProperties
<1>3. /\ c \in Seq(M) /\ Len(c) = Len(q) + Len(r)
      /\ \A i \in 1..Len(q) + Len(r) : c[i] = IF i <= Len(q) THEN q[i] ELSE r[i - Len(q)]
  BY ConcatProperties
<1>4. \A i \in 1..Len(q) : i \in 1..Len(c) /\ c[i] = q[i]
  BY <1>1, <1>3
<1>5. ASSUME NEW i \in 1..Len(r) PROVE Len(q) + i \in 1..Len(c) /\ c[Len(q) + i] = r[i]
  <2>1. Len(q) + i \in 1..Len(q) + Len(r) /\ ~(Len(q) + i <= Len(q)) /\ (Len(q) + i) - Len(q) = i
    BY <1>1
  <2> QED BY <1>3, <2>1
<1>6. \A i \in 1..Len(c) : i \in 1..Len(q) \/ (i - Len(q) \in 1..Len(r) /\ c[i] = r[i - Len(q)])
  BY <1>1, <1>3
<1> QED BY <1>1, <1>3, <1>4, <1>5, <1>6

\* More frames of the same press.
LEMMA MoreLemma ==
  ASSUME Types, NEW o, Sane(o), NEW g, g \in Seq(Actions),
         \A i \in 1..Len(g) : g[i].sequence + 1 = o.tracker.nextSequence + i
  PROVE  Sane([o EXCEPT !.tracker.nextSequence = @ + Len(g), !.frames = @ \o g])
<1>0. o \in Outcomes /\ o.tracker \in Trackers /\ o.frames \in Seq(Actions)
  BY DEF Sane, Outcomes
<1>1. PICK h, s : h = o.frames \o g /\ s = o.tracker.nextSequence + Len(g)
  OBVIOUS
<1>2. PICK t : t = [o.tracker EXCEPT !.nextSequence = s]
  OBVIOUS
<1>3. PICK a : a = [o EXCEPT !.tracker = t]
  OBVIOUS
<1>4. PICK e : e = [a EXCEPT !.frames = h]
  OBVIOUS
<1>5. e = [o EXCEPT !.tracker.nextSequence = @ + Len(g), !.frames = @ \o g]
  BY <1>0, <1>1, <1>2, <1>3, <1>4 DEF Outcomes
<1>6. Len(g) \in Nat
  BY LenProperties
<1>7. /\ h \in Seq(Actions) /\ Len(h) = Len(o.frames) + Len(g) /\ Len(o.frames) \in Nat
      /\ \A i \in 1..Len(o.frames) : i \in 1..Len(h) /\ h[i] = o.frames[i]
      /\ \A i \in 1..Len(g) : Len(o.frames) + i \in 1..Len(h) /\ h[Len(o.frames) + i] = g[i]
      /\ \A i \in 1..Len(h) : i \in 1..Len(o.frames) \/ i - Len(o.frames) \in 1..Len(g)
  <2>1. PICK q : q = o.frames
    OBVIOUS
  <2>2. q \in Seq(Actions) /\ h = q \o g
    BY <1>0, <1>1, <2>1
  <2>3. /\ h \in Seq(Actions) /\ Len(h) = Len(q) + Len(g) /\ Len(q) \in Nat
        /\ \A i \in 1..Len(q) : i \in 1..Len(h) /\ h[i] = q[i]
    BY <2>2, ConcatLemma
  <2>4. \A i \in 1..Len(g) : Len(q) + i \in 1..Len(h) /\ h[Len(q) + i] = g[i]
    BY <2>2, ConcatLemma
  <2>5. \A i \in 1..Len(h) : i \in 1..Len(q) \/ i - Len(q) \in 1..Len(g)
    BY <2>2, ConcatLemma
  <2> QED BY <2>1, <2>3, <2>4, <2>5
<1>8. o.tracker.nextSequence \in Nat /\ s \in Nat
  BY <1>0, <1>1 DEF Trackers
<1>9. /\ t \in Trackers /\ t.predictions = o.tracker.predictions /\ t.nextSequence = s
      /\ t.latestAcknowledged = o.tracker.latestAcknowledged
  BY <1>0, <1>2, <1>8 DEF Trackers
<1>10. e \in Outcomes /\ e.tracker = t /\ e.frames = h /\ e.update = o.update
  BY <1>0, <1>3, <1>4, <1>7, <1>9 DEF Outcomes
<1>11. Numbered(e)
  <2>1. tracker.nextSequence \in Nat
    BY DEF Types, Trackers
  <2>2. o.tracker.nextSequence = tracker.nextSequence + Len(o.frames)
    BY DEF Sane, Numbered
  <2>3. s = tracker.nextSequence + Len(h)
    BY <1>1, <1>6, <1>7, <2>1, <2>2
  <2>4. \A i \in 1..Len(o.frames) : h[i].sequence + 1 = tracker.nextSequence + i
    BY <1>7 DEF Sane, Numbered
  <2>5. ASSUME NEW i \in 1..Len(g) PROVE h[Len(o.frames) + i].sequence + 1 = tracker.nextSequence + (Len(o.frames) + i)
    <3>1. h[Len(o.frames) + i] = g[i] /\ g[i].sequence + 1 = o.tracker.nextSequence + i
      BY <1>7
    <3>2. o.tracker.nextSequence + i = tracker.nextSequence + (Len(o.frames) + i)
      BY <1>6, <1>7, <2>1, <2>2
    <3> QED BY <3>1, <3>2
  <2>6. ASSUME NEW i \in 1..Len(h) PROVE h[i].sequence + 1 = tracker.nextSequence + i
    <3>1. CASE i \in 1..Len(o.frames)
      BY <2>4, <3>1
    <3>2. CASE i - Len(o.frames) \in 1..Len(g)
      <4>1. Len(o.frames) + (i - Len(o.frames)) = i
        BY <1>7
      <4> QED BY <2>5, <3>2, <4>1
    <3> QED BY <1>7, <3>1, <3>2
  <2> QED BY <1>9, <1>10, <2>3, <2>6 DEF Numbered
<1>12. ASSUME o.update # None PROVE Predicted(e)
  <2>1. Predicted(o)
    BY <1>12 DEF Sane
  <2>2. PICK k \in 1..Len(o.frames) : \E observed \in States :
     /\ CanRegister(tracker.predictions, o.update.position)
     /\ o.tracker.predictions = Registered(tracker.predictions, o.frames[k].sequence, o.update.position,
                                           observed, o.update.state)
     /\ \/ observed = client[o.update.position]
        \/ /\ o.frames[k].kind = "stop" /\ o.frames[k].position = o.update.position
           /\ observed # Air /\ client[o.update.position] \in States \ {Air}
    BY <2>1 DEF Predicted
  <2>3. k \in 1..Len(h) /\ h[k] = o.frames[k]
    BY <1>7
  <2> QED BY <1>9, <1>10, <2>2, <2>3 DEF Predicted
<1>13. Sane(e)
  BY <1>9, <1>10, <1>11, <1>12 DEF Sane
<1> QED BY <1>5, <1>13

Ready == Types /\ Ordered(tracker.predictions, tracker.nextSequence)

LEMMA UsePressLemma ==
  ASSUME Ready, NEW o, Sane(o), NEW target \in Positions \cup {None}, NEW adjacent \in Positions,
         NEW item \in Placements \cup {None}
  PROVE  LET e == UsePress(o, target, adjacent, item)
         IN  Sane(e) /\ e.tracker.nextSequence = o.tracker.nextSequence + 1 /\ o.tracker.nextSequence \in Nat
<1>1. PICK f : f = [kind |-> "use", position |-> target, adjacent |-> adjacent, item |-> item,
                    sequence |-> o.tracker.nextSequence]
  OBVIOUS
<1>2. o.tracker \in Trackers /\ o.tracker.nextSequence \in Nat
  BY DEF Sane, Outcomes, Trackers
<1>3. f \in Actions
  BY <1>1, <1>2 DEF Actions
<1>4. PICK sent, k : sent = Emit(o, "use", target, adjacent, item) /\ k = Len(o.frames) + 1
  OBVIOUS
<1>5. Types
  BY DEF Ready
<1>6. /\ Sane(sent) /\ sent.update = o.update
      /\ sent.tracker = [o.tracker EXCEPT !.nextSequence = o.tracker.nextSequence + 1]
      /\ k \in 1..Len(sent.frames) /\ sent.frames[k] = f
  <2>1. f.sequence = o.tracker.nextSequence /\ sent = Emit(o, f.kind, f.position, f.adjacent, f.item)
    BY <1>1, <1>4
  <2>2. Emitted(o, f, sent)
    BY <1>3, <1>5, <2>1, EmitLemma
  <2>3. k = Len(o.frames) + 1
    BY <1>4
  <2> QED BY <2>2, <2>3 DEF Emitted
<1>7. sent.tracker.nextSequence = o.tracker.nextSequence + 1
  BY <1>2, <1>6 DEF Trackers
<1>8. CASE target # None /\ o.update = None /\ item \in Placements /\ client[adjacent] = Air
  <2>1. PICK e : e = Predict(sent, o.tracker.nextSequence, adjacent, Air, item)
    OBVIOUS
  <2>2. sent.frames[k].sequence = o.tracker.nextSequence
    BY <1>1, <1>6
  <2>3. item \in States /\ Air \in States
    BY PredictionAssumption, <1>8
  <2>4. Ordered(tracker.predictions, tracker.nextSequence)
    BY DEF Ready
  <2>5. Sane(Predict(sent, sent.frames[k].sequence, adjacent, Air, item))
    <3>1. sent.update = None /\ Air = client[adjacent]
      BY <1>6, <1>8
    <3> QED BY <1>5, <1>6, <2>3, <2>4, <3>1, PredictLemma
  <2>6. e.tracker.nextSequence = sent.tracker.nextSequence
    BY <1>6, <2>1 DEF Predict, Sane, Outcomes, Trackers
  <2>7. e = UsePress(o, target, adjacent, item)
    BY <1>4, <1>8, <2>1 DEF UsePress
  <2> QED BY <1>2, <1>7, <2>1, <2>2, <2>5, <2>6, <2>7
<1>9. CASE ~(target # None /\ o.update = None /\ item \in Placements /\ client[adjacent] = Air)
  <2>1. UsePress(o, target, adjacent, item) = sent
    BY <1>4, <1>9 DEF UsePress
  <2> QED BY <1>2, <1>6, <1>7, <2>1
<1> QED BY <1>8, <1>9

LEMMA UsePressesLemma ==
  ASSUME Ready, NEW o, Sane(o), NEW target \in Positions \cup {None}, NEW presses \in Nat,
         NEW adjacent, NEW item, presses # 0 => adjacent \in Positions /\ item \in Placements \cup {None}
  PROVE  Sane(UsePresses(o, presses, target, adjacent, item))
<1>1. CASE presses = 0
  BY <1>1 DEF UsePresses
<1>2. CASE presses # 0
  <2>1. PICK first, n : first = UsePress(o, target, adjacent, item) /\ n = presses - 1
    OBVIOUS
  <2>2. Sane(first) /\ first.tracker.nextSequence = o.tracker.nextSequence + 1 /\ o.tracker.nextSequence \in Nat
    BY <1>2, <2>1, UsePressLemma
  <2>3. n \in Nat
    BY <1>2, <2>1
  <2>4. PICK g : g = [i \in 1..n |-> [kind |-> "use", position |-> target, adjacent |-> adjacent,
                                     item |-> item, sequence |-> o.tracker.nextSequence + i]]
    OBVIOUS
  <2>5. ASSUME NEW i \in 1..n
        PROVE  g[i] \in Actions /\ g[i].sequence + 1 = first.tracker.nextSequence + i
    <3>1. o.tracker.nextSequence + i \in Nat /\ (o.tracker.nextSequence + i) + 1 = first.tracker.nextSequence + i
      BY <2>2, <2>3
    <3>2. g[i] = [kind |-> "use", position |-> target, adjacent |-> adjacent, item |-> item,
                  sequence |-> o.tracker.nextSequence + i]
      BY <2>4
    <3>3. g[i] \in Actions
      BY <1>2, <3>1, <3>2 DEF Actions
    <3> QED BY <3>1, <3>2, <3>3
  <2>6. g \in Seq(Actions) /\ Len(g) = n
    <3>1. g \in [1..n -> Actions]
      BY <2>4, <2>5
    <3>2. g \in Seq(Actions)
      BY <2>3, <3>1, SeqDef
    <3> QED BY <2>3, <3>1, <3>2, LenProperties
  <2>7. UsePresses(o, presses, target, adjacent, item)
          = [first EXCEPT !.tracker.nextSequence = @ + n, !.frames = @ \o g]
    BY <1>2, <2>1, <2>4 DEF UsePresses
  <2>8. Types
    BY DEF Ready
  <2>9. Sane([first EXCEPT !.tracker.nextSequence = @ + Len(g), !.frames = @ \o g])
    <3>1. \A i \in 1..Len(g) : g[i].sequence + 1 = first.tracker.nextSequence + i
      BY <2>5, <2>6
    <3> QED BY <2>2, <2>6, <2>8, <3>1, MoreLemma
  <2> QED BY <2>6, <2>7, <2>9
<1> QED BY <1>1, <1>2

LEMMA StartLemma ==
  ASSUME Types, NEW o, o = [tracker |-> tracker, frames |-> <<>>, update |-> None]
  PROVE  Sane(o)
<1>1. tracker \in Trackers /\ tracker.nextSequence \in Nat
  BY DEF Types, Trackers
<1>2. /\ o.tracker = tracker /\ o.frames = <<>> /\ o.update = None /\ Len(o.frames) = 0
      /\ o \in Outcomes
  BY <1>1, EmptySeq DEF Outcomes
<1>3. Numbered(o)
  BY <1>1, <1>2 DEF Numbered
<1> QED BY <1>2, <1>3 DEF Sane

LEMMA CreativeLemma ==
  ASSUME Types, NEW o, Sane(o), NEW target \in Positions \cup {None}, NEW attack \in BOOLEAN, NEW edge \in BOOLEAN
  PROVE  Sane(CreativeBreak(o, target, attack, edge))
<1>1. PICK idle : idle = [o EXCEPT !.tracker.activeBreak = None]
  OBVIOUS
<1>2. Sane(idle) /\ idle.tracker = [o.tracker EXCEPT !.activeBreak = None]
  BY <1>1, BreakTweak
<1>3. PICK armed : armed = [idle EXCEPT !.tracker.destroyDelay = DestroyDelay]
  OBVIOUS
<1>4. Sane(armed) /\ armed = Rearmed(idle)
  <2>1. DestroyDelay \in 0..DestroyDelay
    BY PredictionAssumption
  <2> QED BY <1>2, <1>3, <2>1, DelayTweak DEF Rearmed
<1>5. PICK acted : acted = IF target = None THEN armed ELSE Emit(armed, "start", target, None, None)
  OBVIOUS
<1>6. Sane(acted)
  <2>1. CASE target = None
    BY <1>4, <1>5, <2>1
  <2>2. CASE target # None
    <3>1. PICK f : f = [kind |-> "start", position |-> target, adjacent |-> None, item |-> None,
                        sequence |-> armed.tracker.nextSequence]
      OBVIOUS
    <3>2. armed.tracker.nextSequence \in Nat
      BY <1>4 DEF Sane, Outcomes, Trackers
    <3>3. f \in Actions
      BY <2>2, <3>1, <3>2 DEF Actions
    <3>4. Sane(Emit(armed, "start", target, None, None))
      <4>1. PICK e : e = Emit(armed, "start", target, None, None)
        OBVIOUS
      <4>2. f.sequence = armed.tracker.nextSequence /\ e = Emit(armed, f.kind, f.position, f.adjacent, f.item)
        BY <3>1, <4>1
      <4>3. Sane(armed)
        BY <1>4
      <4>4. Emitted(armed, f, e)
        BY <3>3, <4>2, <4>3, EmitLemma
      <4> QED BY <4>1, <4>4 DEF Emitted
    <3> QED BY <1>5, <2>2, <3>4
  <2> QED BY <2>1, <2>2
<1>7. PICK c : c = CreativeBreak(o, target, attack, edge)
  OBVIOUS
<1>8. CASE ~attack
  <2>1. c = idle
    BY <1>1, <1>7, <1>8 DEF CreativeBreak
  <2> QED BY <1>2, <1>7, <2>1
<1>9. CASE attack /\ edge
  <2>1. c = acted
    BY <1>1, <1>4, <1>5, <1>7, <1>9 DEF CreativeBreak
  <2> QED BY <1>6, <1>7, <2>1
<1>10. CASE attack /\ ~edge /\ o.tracker.destroyDelay > 0
  <2>1. PICK d : d = idle.tracker.destroyDelay - 1
    OBVIOUS
  <2>2. o.tracker \in Trackers
    BY DEF Sane, Outcomes
  <2>3. idle.tracker.destroyDelay = o.tracker.destroyDelay
    BY <1>2, <2>2 DEF Trackers
  <2>4. d \in 0..DestroyDelay
    BY PredictionAssumption, <1>10, <2>1, <2>2, <2>3 DEF Trackers
  <2>5. Sane([idle EXCEPT !.tracker.destroyDelay = d])
    BY <1>2, <2>4, DelayTweak
  <2>6. c = [idle EXCEPT !.tracker.destroyDelay = d]
    BY <1>1, <1>7, <1>10, <2>1 DEF CreativeBreak
  <2> QED BY <1>7, <2>5, <2>6
<1>11. CASE attack /\ ~edge /\ ~(o.tracker.destroyDelay > 0)
  <2>1. c = IF target = None THEN idle ELSE acted
    BY <1>1, <1>4, <1>5, <1>7, <1>11 DEF CreativeBreak
  <2> QED BY <1>2, <1>6, <1>7, <2>1
<1> QED BY <1>8, <1>9, <1>10, <1>11

\* The end of a break: it was not lost, so the client still shows a block at its position.
LEMMA StopLemma ==
  ASSUME Ready, NEW o, Sane(o), o.update = None, NEW p \in Positions, client[p] \notin {Air, Unloaded},
         NEW s \in States \ {Air}
  PROVE  Sane(Predict(Rearmed([Emit(o, "stop", p, None, None) EXCEPT !.tracker.activeBreak = None]),
                      o.tracker.nextSequence, p, s, Air))
<1>0. Types /\ Ordered(tracker.predictions, tracker.nextSequence)
  BY DEF Ready
<1>1. PICK f, k : /\ f = [kind |-> "stop", position |-> p, adjacent |-> None, item |-> None,
                          sequence |-> o.tracker.nextSequence]
                  /\ k = Len(o.frames) + 1
  OBVIOUS
<1>2. o.tracker.nextSequence \in Nat
  BY DEF Sane, Outcomes, Trackers
<1>3. s \in States /\ s # Air
  OBVIOUS
<1>4. f \in Actions
  BY <1>1, <1>2, <1>3 DEF Actions
<1>5. PICK a : a = Emit(o, "stop", p, None, None)
  OBVIOUS
<1>6. Sane(a) /\ a.update = None /\ k \in 1..Len(a.frames) /\ a.frames[k] = f
  <2>1. f.sequence = o.tracker.nextSequence /\ a = Emit(o, f.kind, f.position, f.adjacent, f.item)
    BY <1>1, <1>5
  <2>2. Types
    BY <1>0
  <2>3. Emitted(o, f, a)
    BY <1>4, <2>1, <2>2, EmitLemma
  <2>4. k = Len(o.frames) + 1
    BY <1>1
  <2> QED BY <2>3, <2>4 DEF Emitted
<1>7. PICK b : b = [a EXCEPT !.tracker.activeBreak = None]
  OBVIOUS
<1>8. Sane(b) /\ b.update = None /\ b.frames = a.frames
  BY <1>6, <1>7, BreakTweak
<1>9. PICK c : c = [b EXCEPT !.tracker.destroyDelay = DestroyDelay]
  OBVIOUS
<1>10. Sane(c) /\ c.update = None /\ c.frames = a.frames
  <2>1. DestroyDelay \in 0..DestroyDelay
    BY PredictionAssumption
  <2> QED BY <1>8, <1>9, <2>1, DelayTweak
<1>11. c.frames[k].sequence = o.tracker.nextSequence /\ c.frames[k].kind = "stop" /\ c.frames[k].position = p
  BY <1>1, <1>6, <1>10
<1>12. client[p] \in States \ {Air}
  <2>1. client[p] \notin {Air, Unloaded} /\ client[p] \in States \cup {Unloaded}
    BY <1>0 DEF Types
  <2> QED BY <2>1
<1>13. Sane(Predict(c, c.frames[k].sequence, p, s, Air))
  <2>1. k \in 1..Len(c.frames) /\ Air \in States
    BY PredictionAssumption, <1>6, <1>10
  <2> QED BY <1>0, <1>3, <1>10, <1>11, <1>12, <2>1, PredictLemma
<1>14. c = Rearmed(b)
  BY <1>9 DEF Rearmed
<1> QED BY <1>5, <1>7, <1>11, <1>13, <1>14

LEMMA SurvivalLemma ==
  ASSUME Ready, NEW o, Sane(o), o.update = None, NEW target \in Targets, NEW attack \in BOOLEAN, NEW finished \in BOOLEAN
  PROVE  Sane(SurvivalBreak(o, target, attack, finished))
<1>0. Types
  BY DEF Ready
<1>1. o.tracker \in Trackers /\ o.tracker.nextSequence \in Nat /\ o.tracker.destroyDelay \in 0..DestroyDelay
  BY DEF Sane, Outcomes, Trackers
<1>2. PICK c, active : c = SurvivalBreak(o, target, attack, finished) /\ active = o.tracker.activeBreak
  OBVIOUS
<1>3. active \in [position : Positions, state : Breakable] \cup {None}
  BY <1>1, <1>2 DEF Trackers
<1> DEFINE lost == active # None /\ (~attack \/ target # active.position)
<1>4. PICK idle, kept : /\ idle = [o EXCEPT !.tracker.activeBreak = None]
                        /\ kept = IF lost THEN Emit(idle, "abort", active.position, None, None) ELSE o
  OBVIOUS
<1>5. Sane(kept) /\ kept.update = None /\ (lost => kept.tracker.activeBreak = None)
  <2>1. CASE lost
    <3>1. /\ Sane(idle) /\ idle.update = None
          /\ idle.tracker = [o.tracker EXCEPT !.activeBreak = None]
      BY <1>4, BreakTweak
    <3>2. idle.tracker.activeBreak = None /\ idle.tracker.nextSequence = o.tracker.nextSequence /\ idle.tracker \in Trackers
      BY <1>1, <3>1 DEF Trackers
    <3>3. PICK f : f = [kind |-> "abort", position |-> active.position, adjacent |-> None, item |-> None,
                        sequence |-> idle.tracker.nextSequence]
      OBVIOUS
    <3>4. f \in Actions
      BY <1>1, <1>3, <2>1, <3>2, <3>3 DEF Actions
    <3>5. f.sequence = idle.tracker.nextSequence /\ kept = Emit(idle, f.kind, f.position, f.adjacent, f.item)
      BY <1>4, <2>1, <3>3
    <3>6. /\ Sane(kept) /\ kept.update = idle.update
          /\ kept.tracker = [idle.tracker EXCEPT !.nextSequence = idle.tracker.nextSequence + 1]
      <4>1. Sane(idle)
        BY <3>1
      <4>2. Emitted(idle, f, kept)
        BY <1>0, <3>4, <3>5, <4>1, EmitLemma
      <4> QED BY <4>2 DEF Emitted
    <3>7. kept.tracker.activeBreak = None
      BY <3>2, <3>6 DEF Trackers
    <3> QED BY <3>1, <3>6, <3>7
  <2>2. CASE ~lost
    BY <1>4, <2>2
  <2> QED BY <2>1, <2>2
<1> DEFINE starts == /\ attack /\ kept.tracker.activeBreak = None
                     /\ target # None /\ client[target] \in Breakable
           stops  == attack /\ ~starts /\ kept.tracker.activeBreak # None /\ finished
<1>6. CASE o.tracker.destroyDelay > 0
  <2>1. PICK d : d = o.tracker.destroyDelay - 1
    OBVIOUS
  <2>2. d \in 0..DestroyDelay
    BY PredictionAssumption, <1>1, <1>6, <2>1
  <2>3. c = [o EXCEPT !.tracker.destroyDelay = d]
    BY <1>2, <1>6, <2>1 DEF SurvivalBreak
  <2> QED BY <1>2, <2>2, <2>3, DelayTweak
<1>7. CASE ~(o.tracker.destroyDelay > 0) /\ starts
  <2>1. PICK f, a, b : /\ f = [kind |-> "start", position |-> target, adjacent |-> None, item |-> None,
                               sequence |-> kept.tracker.nextSequence]
                       /\ a = Emit(kept, "start", target, None, None)
                       /\ b = [position |-> target, state |-> client[target]]
    OBVIOUS
  <2>2. kept.tracker.nextSequence \in Nat /\ target \in Positions
    BY <1>5, <1>7 DEF Sane, Outcomes, Trackers, Targets
  <2>3. f \in Actions /\ b \in [position : Positions, state : Breakable]
    BY <1>7, <2>1, <2>2 DEF Actions
  <2>4. Sane(a)
    <3>1. f.sequence = kept.tracker.nextSequence /\ a = Emit(kept, f.kind, f.position, f.adjacent, f.item)
      BY <2>1
    <3>2. Sane(kept) /\ f \in Actions
      BY <1>5, <2>3
    <3>3. Emitted(kept, f, a)
      BY <1>0, <3>1, <3>2, EmitLemma
    <3> QED BY <3>3 DEF Emitted
  <2>5. Sane([a EXCEPT !.tracker.activeBreak = b])
    BY <2>3, <2>4, BreakTweak
  <2>6. c = [a EXCEPT !.tracker.activeBreak = b]
    BY <1>2, <1>4, <1>7, <2>1 DEF SurvivalBreak
  <2> QED BY <1>2, <2>5, <2>6
<1>8. CASE ~(o.tracker.destroyDelay > 0) /\ ~starts /\ stops
  <2>1. ~lost /\ kept = o
    BY <1>4, <1>5, <1>8
  <2>2. active \in [position : Positions, state : Breakable] /\ target = active.position
    BY <1>2, <1>3, <1>8, <2>1
  <2>3. c = Predict(Rearmed([Emit(o, "stop", active.position, None, None) EXCEPT !.tracker.activeBreak = None]),
                    o.tracker.nextSequence, active.position, active.state, Air)
    <3>1. c = Predict(Rearmed([Emit(kept, "stop", active.position, None, None) EXCEPT !.tracker.activeBreak = None]),
                    kept.tracker.nextSequence, active.position, active.state, Air)
      BY <1>2, <1>4, <1>8 DEF SurvivalBreak
    <3> QED BY <2>1, <3>1
  <2>4. PICK p, s : p = active.position /\ s = active.state
    OBVIOUS
  <2>5. p \in Positions /\ s \in States \ {Air} /\ client[p] \notin {Air, Unloaded}
    BY PredictionAssumption, <2>2, <2>4 DEF Targets
  <2>6. Sane(Predict(Rearmed([Emit(o, "stop", p, None, None) EXCEPT !.tracker.activeBreak = None]),
                     o.tracker.nextSequence, p, s, Air))
    BY <2>5, StopLemma
  <2> QED BY <1>2, <2>3, <2>4, <2>6
<1>9. CASE ~(o.tracker.destroyDelay > 0) /\ ~starts /\ ~stops
  <2>1. c = kept
    BY <1>2, <1>4, <1>9 DEF SurvivalBreak
  <2> QED BY <1>2, <1>5, <2>1
<1> QED BY <1>6, <1>7, <1>8, <1>9

\* What one tick does to the tracker.
LEMMA InteractionLemma ==
  ASSUME Ready, NEW target \in Targets, NEW attack \in BOOLEAN, NEW edge \in BOOLEAN, NEW use \in Uses(target)
  PROVE  Sane(Interaction(target, attack, edge, use))
<1>1. PICK start : start = [tracker |-> tracker, frames |-> <<>>, update |-> None]
  OBVIOUS
<1>2. PICK broken : broken = IF creative THEN CreativeBreak(start, target, attack, edge)
                             ELSE SurvivalBreak(start, target, attack, edge)
  OBVIOUS
<1>3. target \in Positions \cup {None}
  BY DEF Targets
<1>4. Sane(start) /\ start.update = None
  BY <1>1, StartLemma DEF Ready
<1>5. Sane(CreativeBreak(start, target, attack, edge))
  BY <1>3, <1>4, CreativeLemma DEF Ready
<1>6. Sane(SurvivalBreak(start, target, attack, edge))
  BY <1>4, SurvivalLemma
<1>7. Sane(broken)
  BY <1>2, <1>5, <1>6
<1>8. use.presses \in Nat /\ (use.presses # 0 => use.adjacent \in Positions /\ use.item \in Placements \cup {None})
  BY DEF Uses
<1>9. PICK n, adjacent, item : n = use.presses /\ adjacent = use.adjacent /\ item = use.item
  OBVIOUS
<1>10. Sane(UsePresses(broken, n, target, adjacent, item))
  BY <1>3, <1>7, <1>8, <1>9, UsePressesLemma
<1>11. Interaction(target, attack, edge, use) = UsePresses(broken, n, target, adjacent, item)
  BY <1>1, <1>2, <1>9 DEF Interaction
<1> QED BY <1>10, <1>11

-----------------------------------------------------------------------------
(* A tick keeps the invariant.                                             *)

\* The types of the messages and predictions under way.
LEMMA TypesLemma ==
  ASSUME Types
  PROVE  /\ tracker.predictions \in Seq(Predictions) /\ Len(tracker.predictions) \in Nat
         /\ \A i \in 1..Len(tracker.predictions) : tracker.predictions[i] \in Predictions
         /\ tracker.nextSequence \in Nat /\ tracker.latestAcknowledged \in Nat \cup {None}
         /\ Len(toServer) \in Nat /\ \A i \in 1..Len(toServer) : toServer[i] \in Actions
         /\ Len(toClient) \in Nat /\ \A i \in 1..Len(toClient) : toClient[i] \in Packets
         /\ server.ack \in Nat \cup {None} /\ server.blocks \in [Positions -> States]
<1>1. /\ tracker.predictions \in Seq(Predictions)
      /\ tracker.nextSequence \in Nat /\ tracker.latestAcknowledged \in Nat \cup {None}
  BY DEF Types, Trackers
<1>2. server.ack \in Nat \cup {None} /\ server.blocks \in [Positions -> States]
  BY DEF Types, Servers
<1>3. toServer \in Seq(Actions) /\ toClient \in Seq(Packets)
  BY DEF Types
<1>4. Len(tracker.predictions) \in Nat /\ \A i \in 1..Len(tracker.predictions) : tracker.predictions[i] \in Predictions
  BY <1>1, ElementOfSeq, LenProperties
<1>5. Len(toServer) \in Nat /\ \A i \in 1..Len(toServer) : toServer[i] \in Actions
  BY <1>3, ElementOfSeq, LenProperties
<1>6. Len(toClient) \in Nat /\ \A i \in 1..Len(toClient) : toClient[i] \in Packets
  BY <1>3, ElementOfSeq, LenProperties
<1> QED BY <1>1, <1>2, <1>4, <1>5, <1>6

LEMMA OrderedMore ==
  ASSUME NEW ps \in Seq(Predictions), NEW next \in Nat, NEW later \in Nat, next <= later, Ordered(ps, next)
  PROVE  Ordered(ps, later)
<1>1. \A i \in 1..Len(ps) : ps[i].sequence \in Nat
  <2>1. \A i \in 1..Len(ps) : ps[i] \in Predictions
    BY LenProperties, ElementOfSeq
  <2> QED BY <2>1 DEF Predictions
<1>2. ASSUME NEW i \in 1..Len(ps) PROVE ps[i].sequence < later
  <2>1. ps[i].sequence < next
    BY DEF Ordered
  <2> QED BY <1>1, <2>1
<1> QED BY <1>2 DEF Ordered

\* What a tick leaves, in terms of its outcome.
Ticked(o) ==
  /\ tracker' = o.tracker /\ toServer' = toServer \o o.frames
  /\ client' = IF o.update = None \/ client[o.update.position] = Unloaded THEN client
               ELSE [client EXCEPT ![o.update.position] = o.update.state]
  /\ Len(o.frames) <= budget /\ budget' = budget - Len(o.frames)
  /\ UNCHANGED <<creative, placed, server, toClient>>

LEMMA TickTypes ==
  ASSUME Ready, NEW o, Sane(o), Ticked(o)
  PROVE  Types'
<1>1. Types /\ o \in Outcomes
  BY DEF Ready, Sane
<1>2. o.tracker \in Trackers /\ o.frames \in Seq(Actions) /\ (o.update \in Changes \/ o.update = None)
  BY <1>1 DEF Outcomes
<1>3. client' \in [Positions -> States \cup {Unloaded}]
  <2>1. client \in [Positions -> States \cup {Unloaded}]
    BY <1>1 DEF Types
  <2>2. CASE o.update = None \/ client[o.update.position] = Unloaded
    BY <2>1, <2>2 DEF Ticked
  <2>3. CASE ~(o.update = None \/ client[o.update.position] = Unloaded)
    <3>1. PICK p, s : p = o.update.position /\ s = o.update.state
      OBVIOUS
    <3>2. p \in Positions /\ s \in States
      BY <1>2, <2>3, <3>1 DEF Changes
    <3>3. client' = [client EXCEPT ![p] = s]
      BY <2>3, <3>1 DEF Ticked
    <3> QED BY <2>1, <3>2, <3>3
  <2> QED BY <2>2, <2>3
<1>4. toServer' \in Seq(Actions)
  BY <1>1, <1>2, ConcatProperties DEF Ticked, Types
<1>5. budget' \in Nat
  <2>1. Len(o.frames) \in Nat /\ budget \in Nat
    BY <1>1, <1>2, LenProperties DEF Types
  <2> QED BY <2>1 DEF Ticked
<1>6. tracker' \in Trackers
  BY <1>2 DEF Ticked
<1>7. /\ creative' \in BOOLEAN /\ placed' \in BOOLEAN /\ server' \in Servers /\ toClient' \in Seq(Packets)
  BY <1>1 DEF Types, Ticked
<1> QED BY <1>3, <1>4, <1>5, <1>6, <1>7 DEF Types

\* The frames follow what is under way.
LEMMA TickQueue ==
  ASSUME Types, NEW o, Sane(o), Ticked(o)
  PROVE  /\ \A i \in 1..Len(toServer) : i \in 1..Len(toServer') /\ toServer'[i] = toServer[i]
         /\ \A i \in 1..Len(o.frames) : Len(toServer) + i \in 1..Len(toServer') /\ toServer'[Len(toServer) + i] = o.frames[i]
         /\ \A i \in 1..Len(toServer') :
              i \notin 1..Len(toServer) => /\ i - Len(toServer) \in 1..Len(o.frames)
                                          /\ toServer'[i] = o.frames[i - Len(toServer)]
<1>1. PICK q, r, c : q = toServer /\ r = o.frames /\ c = toServer'
  OBVIOUS
<1>2. q \in Seq(Actions) /\ r \in Seq(Actions) /\ c = q \o r
  BY <1>1 DEF Types, Sane, Outcomes, Ticked
<1>3. \A i \in 1..Len(q) : i \in 1..Len(c) /\ c[i] = q[i]
  BY <1>2, ConcatLemma
<1>4. \A i \in 1..Len(r) : Len(q) + i \in 1..Len(c) /\ c[Len(q) + i] = r[i]
  BY <1>2, ConcatLemma
<1>5. ASSUME NEW i \in 1..Len(c), i \notin 1..Len(q) PROVE i - Len(q) \in 1..Len(r) /\ c[i] = r[i - Len(q)]
  <2>1. Len(c) = Len(q) + Len(r) /\ Len(q) \in Nat /\ Len(r) \in Nat
    BY <1>2, ConcatLemma
  <2>2. i - Len(q) \in 1..Len(r) /\ Len(q) + (i - Len(q)) = i
    BY <1>5, <2>1
  <2> QED BY <1>4, <2>2
<1>6. \A i \in 1..Len(toServer) : i \in 1..Len(toServer') /\ toServer'[i] = toServer[i]
  BY <1>1, <1>3
<1>7. \A i \in 1..Len(o.frames) : Len(toServer) + i \in 1..Len(toServer') /\ toServer'[Len(toServer) + i] = o.frames[i]
  BY <1>1, <1>4
<1>8. \A i \in 1..Len(toServer') :
        i \notin 1..Len(toServer) => /\ i - Len(toServer) \in 1..Len(o.frames)
                                    /\ toServer'[i] = o.frames[i - Len(toServer)]
  BY <1>1, <1>5
<1> QED BY <1>6, <1>7, <1>8

\* A tick's effect on the predictions: none, or one registration whose change is shown.
LEMMA TickPredictions ==
  ASSUME Ready, NEW o, Sane(o), Ticked(o)
  PROVE  \/ /\ tracker'.predictions = tracker.predictions /\ client' = client
            /\ Ordered(tracker'.predictions, tracker'.nextSequence)
         \/ \E k \in 1..Len(o.frames) : \E p \in Positions, observed \in States, expected \in States :
              /\ IsRegistered(tracker.predictions, tracker'.predictions, o.frames[k].sequence, p, observed, expected)
              /\ Ordered(tracker'.predictions, tracker'.nextSequence)
              /\ client' = IF client[p] = Unloaded THEN client ELSE [client EXCEPT ![p] = expected]
              /\ \/ observed = client[p]
                 \/ /\ o.frames[k].kind = "stop" /\ o.frames[k].position = p
                    /\ observed # Air /\ client[p] \in States \ {Air}
<1>1. Types /\ Ordered(tracker.predictions, tracker.nextSequence)
  BY DEF Ready
<1>2. PICK ps, next, later, r : /\ ps = tracker.predictions /\ next = tracker.nextSequence /\ later = o.tracker.nextSequence
                                /\ r = o.tracker.predictions
  OBVIOUS
<1>3. ps \in Seq(Predictions) /\ next \in Nat /\ later \in Nat /\ Ordered(ps, next)
  BY <1>1, <1>2 DEF Types, Trackers, Sane, Outcomes
<1>4. next <= later
  <2>1. o.frames \in Seq(Actions) /\ later = next + Len(o.frames)
    BY <1>2 DEF Sane, Outcomes, Numbered
  <2> QED BY <1>3, <2>1, LenProperties
<1>5. tracker'.predictions = r /\ tracker'.nextSequence = later
  BY <1>2 DEF Ticked
<1>6. CASE o.update = None
  <2>1. r = ps /\ client' = client
    BY <1>2, <1>6 DEF Sane, Ticked
  <2>2. Ordered(r, later)
    BY <1>3, <1>4, <2>1, OrderedMore
  <2> QED BY <1>2, <1>5, <2>1, <2>2
<1>7. CASE o.update # None
  <2>1. Predicted(o)
    BY <1>7 DEF Sane
  <2>2. PICK k \in 1..Len(o.frames) : \E observed \in States :
     /\ CanRegister(tracker.predictions, o.update.position)
     /\ o.tracker.predictions = Registered(tracker.predictions, o.frames[k].sequence, o.update.position,
                                           observed, o.update.state)
     /\ \/ observed = client[o.update.position]
        \/ /\ o.frames[k].kind = "stop" /\ o.frames[k].position = o.update.position
           /\ observed # Air /\ client[o.update.position] \in States \ {Air}
    BY <2>1 DEF Predicted
  <2>3. PICK p, expected, s : p = o.update.position /\ expected = o.update.state /\ s = o.frames[k].sequence
    OBVIOUS
  <2>4. p \in Positions /\ expected \in States
    BY <1>7, <2>3 DEF Sane, Outcomes, Changes
  <2>5. PICK observed \in States :
     /\ CanRegister(ps, p)
     /\ r = Registered(ps, s, p, observed, expected)
     /\ \/ observed = client[p]
        \/ /\ o.frames[k].kind = "stop" /\ o.frames[k].position = p
           /\ observed # Air /\ client[p] \in States \ {Air}
    BY <1>2, <2>2, <2>3
  <2>6. s \in Nat /\ next <= s /\ s < later
    BY <1>1, <1>2, <2>3, FrameNumber
  <2>7. CanRegister(ps, p)
    BY <2>5
  <2>8. /\ Ordered(Registered(ps, s, p, observed, expected), later)
        /\ IsRegistered(ps, Registered(ps, s, p, observed, expected), s, p, observed, expected)
    BY <1>3, <2>4, <2>6, <2>7, RegisteredLemma
  <2>9. Ordered(r, later) /\ IsRegistered(ps, r, s, p, observed, expected)
    BY <2>5, <2>8
  <2>10. client' = IF client[p] = Unloaded THEN client ELSE [client EXCEPT ![p] = expected]
    BY <1>7, <2>3 DEF Ticked
  <2>11. /\ IsRegistered(tracker.predictions, tracker'.predictions, o.frames[k].sequence, p, observed, expected)
         /\ Ordered(tracker'.predictions, tracker'.nextSequence)
    BY <1>2, <1>5, <2>3, <2>9
  <2>12. \/ observed = client[p]
         \/ /\ o.frames[k].kind = "stop" /\ o.frames[k].position = p
            /\ observed # Air /\ client[p] \in States \ {Air}
    BY <2>5
  <2> QED BY <2>4, <2>10, <2>11, <2>12
<1> QED BY <1>6, <1>7

\* A registration keeps what the client takes the server's blocks to be, but for the state a
\* completed break began with.
Rebased(c, d, ps, r, p0, p, observed) ==
  \/ Base(d, r, p0) = Base(c, ps, p0)
  \/ p0 = p /\ Base(d, r, p) = observed /\ Base(c, ps, p) = c[p]

LEMMA RegisteredBase ==
  ASSUME NEW c, NEW d, NEW ps \in Seq(Predictions), NEW r \in Seq(Predictions),
         NEW next, NEW later, Ordered(ps, next), Ordered(r, later),
         NEW s, NEW p, NEW observed, NEW expected, IsRegistered(ps, r, s, p, observed, expected),
         NEW p0, p0 # p => d[p0] = c[p0]
  PROVE  Rebased(c, d, ps, r, p0, p, observed)
<1>1. CASE p0 = p
  <2>1. PICK k : k = Len(r)
    OBVIOUS
  <2>2. k \in 1..Len(r) /\ r[k].position = p
    BY <2>1 DEF IsRegistered
  <2>3. Base(d, r, p) = r[k].serverState
    BY <2>2, BaseRetained
  <2>4. CASE r[k].serverState = observed /\ \A j \in 1..Len(ps) : ps[j].position # p
    <3>1. \A j \in 1..Len(ps) : ps[j].position # p
      BY <2>4
    <3>2. Base(c, ps, p) = c[p]
      BY <3>1, BaseShown
    <3> QED BY <1>1, <2>3, <2>4, <3>2 DEF Rebased
  <2>5. CASE \E j \in 1..Len(ps) : ps[j].position = p /\ r[k].serverState = ps[j].serverState
    <3>1. PICK j \in 1..Len(ps) : ps[j].position = p /\ r[k].serverState = ps[j].serverState
      BY <2>5
    <3>2. ps[j].position = p
      BY <3>1
    <3>3. Base(c, ps, p) = ps[j].serverState
      BY <3>2, BaseRetained
    <3> QED BY <1>1, <2>3, <3>1, <3>3 DEF Rebased
  <2> QED BY <2>1, <2>4, <2>5 DEF IsRegistered
<1>2. CASE p0 # p
  <2>1. CASE \E j \in 1..Len(ps) : ps[j].position = p0
    <3>1. PICK j \in 1..Len(ps) : ps[j].position = p0
      BY <2>1
    <3>2. PICK k \in 1..Len(r) : r[k] = ps[j]
      BY <1>2, <3>1 DEF IsRegistered
    <3>3. Base(c, ps, p0) = ps[j].serverState
      BY <3>1, BaseRetained
    <3>4. r[k].position = p0
      BY <3>1, <3>2
    <3>5. Base(d, r, p0) = r[k].serverState
      BY <3>4, BaseRetained
    <3> QED BY <3>2, <3>3, <3>5 DEF Rebased
  <2>2. CASE \A j \in 1..Len(ps) : ps[j].position # p0
    <3>1. \A k \in 1..Len(r) : r[k].position # p0
      BY <1>2, <2>2 DEF IsRegistered
    <3>2. Base(c, ps, p0) = c[p0]
      BY <2>2, BaseShown
    <3>3. Base(d, r, p0) = d[p0]
      BY <3>1, BaseShown
    <3>4. d[p0] = c[p0]
      BY <1>2
    <3> QED BY <3>2, <3>3, <3>4 DEF Rebased
  <2> QED BY <2>1, <2>2
<1> QED BY <1>1, <1>2

\* Every prediction's action stays outstanding.
LEMMA TickAwaited ==
  ASSUME Ready, NEW o, Sane(o), Ticked(o), Awaited
  PROVE  Awaited'
<1>0. Types
  BY DEF Ready
<1>1. ASSUME NEW s, Outstanding(s) PROVE Outstanding(s)'
  <2>1. server' = server /\ toClient' = toClient
    BY DEF Ticked
  <2>2. \A j \in 1..Len(toServer) : j \in 1..Len(toServer') /\ toServer'[j] = toServer[j]
    BY <1>0, TickQueue
  <2> QED BY <1>1, <2>1, <2>2 DEF Outstanding
<1>2. ASSUME NEW k \in 1..Len(o.frames) PROVE Outstanding(o.frames[k].sequence)'
  <2>1. Len(toServer) + k \in 1..Len(toServer') /\ toServer'[Len(toServer) + k] = o.frames[k]
    BY <1>0, TickQueue
  <2> QED BY <2>1 DEF Outstanding
<1>3. CASE tracker'.predictions = tracker.predictions
  BY <1>1, <1>3 DEF Awaited
<1>4. CASE \E k \in 1..Len(o.frames) : \E p \in Positions, observed \in States, expected \in States :
              IsRegistered(tracker.predictions, tracker'.predictions, o.frames[k].sequence, p, observed, expected)
  <2>1. PICK k \in 1..Len(o.frames), p \in Positions, observed \in States, expected \in States :
              IsRegistered(tracker.predictions, tracker'.predictions, o.frames[k].sequence, p, observed, expected)
    BY <1>4
  <2>2. PICK ps, r : ps = tracker.predictions /\ r = tracker'.predictions
    OBVIOUS
  <2>3. \A i \in 1..Len(ps) : Outstanding(ps[i].sequence)'
    BY <1>1, <2>2 DEF Awaited
  <2>4. ASSUME NEW i \in 1..Len(r) PROVE Outstanding(r[i].sequence)'
    <3>1. i = Len(r) \/ \E j \in 1..Len(ps) : r[i] = ps[j]
      BY <2>1, <2>2 DEF IsRegistered
    <3>2. r[Len(r)].sequence = o.frames[k].sequence
      BY <2>1, <2>2 DEF IsRegistered
    <3> QED BY <1>2, <2>3, <3>1, <3>2
  <2> QED BY <2>2, <2>4 DEF Awaited
<1> QED BY <1>3, <1>4, TickPredictions

LEMMA TickAhead ==
  ASSUME Ready, NEW o, Sane(o), Ticked(o), Ahead
  PROVE  Ahead'
<1>0. Types /\ Ordered(tracker.predictions, tracker.nextSequence)
  BY DEF Ready
<1>1. PICK next, later, la, ps, r : /\ next = tracker.nextSequence /\ later = o.tracker.nextSequence
                                    /\ la = tracker.latestAcknowledged
                                    /\ ps = tracker.predictions /\ r = tracker'.predictions
  OBVIOUS
<1>2. /\ tracker'.nextSequence = later /\ tracker'.latestAcknowledged = la
      /\ server' = server /\ toClient' = toClient
  BY <1>1 DEF Sane, Ticked
<1>3. /\ next \in Nat /\ la \in Nat \cup {None} /\ server.ack \in Nat \cup {None}
      /\ \A i \in 1..Len(toServer) : toServer[i].sequence \in Nat
      /\ \A i \in 1..Len(toClient) : toClient[i].kind = "ack" => toClient[i].sequence \in Nat
      /\ \A i \in 1..Len(ps) : ps[i].sequence \in Nat
  BY <1>0, <1>1, TypesLemma DEF Actions, Packets, Predictions
<1>4. later \in Nat /\ next <= later
  <2>1. o.frames \in Seq(Actions) /\ later = next + Len(o.frames)
    BY <1>1 DEF Sane, Outcomes, Numbered
  <2> QED BY <1>3, <2>1, LenProperties
<1>5. \A k \in 1..Len(o.frames) : /\ o.frames[k].sequence \in Nat /\ next <= o.frames[k].sequence
                                  /\ o.frames[k].sequence < later
  BY <1>0, <1>1, FrameNumber
<1>6. la # None => la < next /\ \A i \in 1..Len(ps) : la < ps[i].sequence
  BY <1>1 DEF Ahead
<1>7. server.ack # None => server.ack < next
  BY <1>1 DEF Ahead
<1>8. \A i \in 1..Len(toServer) : toServer[i].sequence < next
  BY <1>1 DEF Ahead
<1>9. \A i \in 1..Len(toClient) : toClient[i].kind = "ack" => toClient[i].sequence < next
  BY <1>1 DEF Ahead
<1>10. ASSUME la # None PROVE la < later /\ \A i \in 1..Len(r) : la < r[i].sequence
  <2>1. la \in Nat /\ la < next /\ la < later
    BY <1>3, <1>4, <1>6, <1>10
  <2>2. CASE r = ps
    BY <1>6, <1>10, <2>1, <2>2
  <2>3. CASE \E k \in 1..Len(o.frames) : \E p \in Positions, observed \in States, expected \in States :
              IsRegistered(ps, r, o.frames[k].sequence, p, observed, expected)
    <3>1. PICK k \in 1..Len(o.frames), p \in Positions, observed \in States, expected \in States :
              IsRegistered(ps, r, o.frames[k].sequence, p, observed, expected)
      BY <2>3
    <3>2. ASSUME NEW i \in 1..Len(r) PROVE la < r[i].sequence
      <4>1. i = Len(r) \/ \E j \in 1..Len(ps) : r[i] = ps[j]
        BY <3>1 DEF IsRegistered
      <4>2. r[Len(r)].sequence = o.frames[k].sequence
        BY <3>1 DEF IsRegistered
      <4>3. la < o.frames[k].sequence
        BY <1>3, <1>5, <2>1
      <4> QED BY <1>6, <1>10, <4>1, <4>2, <4>3
    <3> QED BY <2>1, <3>2
  <2>4. r = ps \/ \E k \in 1..Len(o.frames) : \E p \in Positions, observed \in States, expected \in States :
                     IsRegistered(ps, r, o.frames[k].sequence, p, observed, expected)
    BY <1>1, TickPredictions
  <2> QED BY <2>2, <2>3, <2>4
<1>11. server.ack # None => server.ack < later
  BY <1>3, <1>4, <1>7
<1>12. ASSUME NEW i \in 1..Len(toServer') PROVE toServer'[i].sequence < later
  <2>1. CASE i \in 1..Len(toServer)
    <3>1. toServer'[i] = toServer[i]
      BY <1>0, <2>1, TickQueue
    <3> QED BY <1>3, <1>4, <1>8, <2>1, <3>1
  <2>2. CASE i \notin 1..Len(toServer)
    <3>1. i - Len(toServer) \in 1..Len(o.frames) /\ toServer'[i] = o.frames[i - Len(toServer)]
      BY <1>0, <2>2, TickQueue
    <3> QED BY <1>5, <3>1
  <2> QED BY <2>1, <2>2
<1>13. \A i \in 1..Len(toClient) : toClient[i].kind = "ack" => toClient[i].sequence < later
  BY <1>3, <1>4, <1>9
<1>14. /\ tracker'.latestAcknowledged # None =>
            /\ tracker'.latestAcknowledged < tracker'.nextSequence
            /\ \A i \in 1..Len(tracker'.predictions) : tracker'.latestAcknowledged < tracker'.predictions[i].sequence
       /\ server'.ack # None => server'.ack < tracker'.nextSequence
  BY <1>1, <1>2, <1>10, <1>11
<1>15. /\ \A i \in 1..Len(toServer') : toServer'[i].sequence < tracker'.nextSequence
       /\ \A i \in 1..Len(toClient') : toClient'[i].kind = "ack" => toClient'[i].sequence < tracker'.nextSequence
  BY <1>2, <1>12, <1>13
<1> QED BY <1>14, <1>15 DEF Ahead

LEMMA TickPresented ==
  ASSUME Ready, NEW o, Sane(o), Ticked(o), Undisturbed, Presented
  PROVE  Undisturbed' /\ Presented'
<1>0. Types /\ client \in [Positions -> States \cup {Unloaded}] /\ server' = server /\ toClient' = toClient
  BY DEF Ready, Types, Ticked
<1>1. \A p \in Positions : client[p] # Unloaded
  BY DEF Undisturbed
<1>2. PICK ps, r : ps = tracker.predictions /\ r = tracker'.predictions
  OBVIOUS
<1>3. \A i \in 1..Len(ps) : client[ps[i].position] = ps[i].expected
  BY <1>2 DEF Presented
<1>4. \A i \in 1..Len(ps) : ps[i].position \in Positions
  BY <1>0, <1>2, TypesLemma DEF Predictions
<1>5. CASE r = ps /\ client' = client
  <2>1. \A i \in 1..Len(r) : client'[r[i].position] = r[i].expected
    BY <1>3, <1>5
  <2>2. Undisturbed'
    BY <1>0, <1>5 DEF Undisturbed
  <2> QED BY <1>2, <2>1, <2>2 DEF Presented
<1>6. CASE \E k \in 1..Len(o.frames) : \E p \in Positions, observed \in States, expected \in States :
              /\ IsRegistered(ps, r, o.frames[k].sequence, p, observed, expected)
              /\ client' = IF client[p] = Unloaded THEN client ELSE [client EXCEPT ![p] = expected]
  <2>1. PICK k \in 1..Len(o.frames), p \in Positions, observed \in States, expected \in States :
              /\ IsRegistered(ps, r, o.frames[k].sequence, p, observed, expected)
              /\ client' = IF client[p] = Unloaded THEN client ELSE [client EXCEPT ![p] = expected]
    BY <1>6
  <2>2. client' = [client EXCEPT ![p] = expected]
    BY <1>1, <2>1
  <2>3. client'[p] = expected /\ \A q \in Positions : q # p => client'[q] = client[q]
    BY <1>0, <2>2
  <2>4. ASSUME NEW i \in 1..Len(r) PROVE client'[r[i].position] = r[i].expected
    <3>1. CASE i = Len(r)
      BY <2>1, <2>3, <3>1 DEF IsRegistered
    <3>2. CASE \E j \in 1..Len(ps) : r[i] = ps[j] /\ ps[j].position # p
      BY <1>3, <1>4, <2>3, <3>2
    <3> QED BY <2>1, <3>1, <3>2 DEF IsRegistered
  <2>5. \A q \in Positions : client'[q] # Unloaded
    BY PredictionAssumption, <1>1, <2>3
  <2>6. Undisturbed'
    BY <1>0, <2>5 DEF Undisturbed
  <2> QED BY <1>2, <2>4, <2>6 DEF Presented
<1>7. \/ r = ps /\ client' = client
      \/ \E k \in 1..Len(o.frames) : \E p \in Positions, observed \in States, expected \in States :
              /\ IsRegistered(ps, r, o.frames[k].sequence, p, observed, expected)
              /\ client' = IF client[p] = Unloaded THEN client ELSE [client EXCEPT ![p] = expected]
  BY <1>2, TickPredictions
<1> QED BY <1>5, <1>6, <1>7

LEMMA TickAgrees ==
  ASSUME Ready, NEW o, Sane(o), Ticked(o), Undisturbed, Has("corrects") \/ OneKind,
         NEW p0 \in Positions, Agrees(p0)
  PROVE  Agrees(p0)'
<1>0. Types /\ Ordered(tracker.predictions, tracker.nextSequence) /\ server' = server /\ toClient' = toClient
  BY DEF Ready, Ticked
<1>1. PICK ps, r, c, d : ps = tracker.predictions /\ r = tracker'.predictions /\ c = client /\ d = client'
  OBVIOUS
<1>2. Types'
  BY TickTypes
<1>3. ps \in Seq(Predictions) /\ r \in Seq(Predictions)
  <2>1. r \in Seq(Predictions)
    BY <1>1, <1>2 DEF Types, Trackers
  <2> QED BY <1>0, <1>1, <2>1, TypesLemma
<1>4. Stopping(p0) => Stopping(p0)'
  <2>1. \A i \in 1..Len(toServer) : i \in 1..Len(toServer') /\ toServer'[i] = toServer[i]
    BY <1>0, TickQueue
  <2> QED BY <2>1 DEF Stopping
<1>5. CASE Base(d, r, p0) = Base(c, ps, p0)
  BY <1>0, <1>1, <1>4, <1>5 DEF Agrees, Has
<1>6. CASE Has("corrects") /\ Stopping(p0)'
  BY <1>0, <1>6 DEF Agrees, Has
<1>7. CASE r = ps /\ d = c
  BY <1>5, <1>7
<1>8. CASE \E k \in 1..Len(o.frames) : \E p \in Positions, observed \in States, expected \in States :
              /\ IsRegistered(ps, r, o.frames[k].sequence, p, observed, expected)
              /\ Ordered(r, tracker'.nextSequence)
              /\ d = IF c[p] = Unloaded THEN c ELSE [c EXCEPT ![p] = expected]
              /\ \/ observed = c[p]
                 \/ /\ o.frames[k].kind = "stop" /\ o.frames[k].position = p
                    /\ observed # Air /\ c[p] \in States \ {Air}
  <2>1. PICK k \in 1..Len(o.frames), p \in Positions, observed \in States, expected \in States :
              /\ IsRegistered(ps, r, o.frames[k].sequence, p, observed, expected)
              /\ Ordered(r, tracker'.nextSequence)
              /\ d = IF c[p] = Unloaded THEN c ELSE [c EXCEPT ![p] = expected]
              /\ \/ observed = c[p]
                 \/ /\ o.frames[k].kind = "stop" /\ o.frames[k].position = p
                    /\ observed # Air /\ c[p] \in States \ {Air}
    BY <1>8
  <2>2. PICK s, next, later : s = o.frames[k].sequence /\ next = tracker.nextSequence /\ later = tracker'.nextSequence
    OBVIOUS
  <2>3. IsRegistered(ps, r, s, p, observed, expected) /\ Ordered(r, later) /\ Ordered(ps, next)
    BY <1>0, <1>1, <2>1, <2>2
  <2>4. p0 # p => d[p0] = c[p0]
    <3>1. c \in [Positions -> States \cup {Unloaded}]
      BY <1>0, <1>1 DEF Types
    <3> QED BY <2>1, <3>1
  <2>5. \/ Base(d, r, p0) = Base(c, ps, p0)
        \/ p0 = p /\ Base(d, r, p) = observed /\ Base(c, ps, p) = c[p]
    <3>1. ps \in Seq(Predictions) /\ r \in Seq(Predictions) /\ Ordered(ps, next) /\ Ordered(r, later)
      BY <1>3, <2>3
    <3>2. IsRegistered(ps, r, s, p, observed, expected)
      BY <2>3
    <3>3. Rebased(c, d, ps, r, p0, p, observed)
      BY <2>4, <3>1, <3>2, RegisteredBase
    <3> QED BY <3>3 DEF Rebased
  <2>6. ASSUME p0 = p, Base(d, r, p) = observed, Base(c, ps, p) = c[p], observed # c[p]
        PROVE  Has("corrects") /\ Stopping(p0)'
    <3>1. o.frames[k].kind = "stop" /\ o.frames[k].position = p /\ observed # Air /\ c[p] \in States \ {Air}
      BY <2>1, <2>6
    <3>2. Has("corrects")
      BY <2>6, <3>1 DEF OneKind
    <3>3. Len(toServer) + k \in 1..Len(toServer') /\ toServer'[Len(toServer) + k] = o.frames[k]
      BY <1>0, TickQueue
    <3>4. Stopping(p0)'
      BY <2>6, <3>1, <3>3 DEF Stopping
    <3> QED BY <3>2, <3>4
  <2> QED BY <1>5, <1>6, <2>5, <2>6
<1>9. \/ r = ps /\ d = c
      \/ \E k \in 1..Len(o.frames) : \E p \in Positions, observed \in States, expected \in States :
              /\ IsRegistered(ps, r, o.frames[k].sequence, p, observed, expected)
              /\ Ordered(r, tracker'.nextSequence)
              /\ d = IF c[p] = Unloaded THEN c ELSE [c EXCEPT ![p] = expected]
              /\ \/ observed = c[p]
                 \/ /\ o.frames[k].kind = "stop" /\ o.frames[k].position = p
                    /\ observed # Air /\ c[p] \in States \ {Air}
  BY <1>1, TickPredictions
<1> QED BY <1>7, <1>8, <1>9

LEMMA TickKeeps ==
  ASSUME IInv, NEW target \in Targets, NEW attack \in BOOLEAN, NEW edge \in BOOLEAN, NEW use \in Uses(target),
         Tick(target, attack, edge, use)
  PROVE  IInv'
<1>1. Ready /\ (Steady => SteadyInv)
  BY DEF IInv, Ready
<1>2. PICK o : o = Interaction(target, attack, edge, use)
  OBVIOUS
<1>3. Sane(o)
  BY <1>1, <1>2, InteractionLemma
<1>4. Ticked(o)
  BY <1>2 DEF Tick, Ticked
<1>5. Types'
  BY <1>1, <1>3, <1>4, TickTypes
<1>6. Ordered(tracker'.predictions, tracker'.nextSequence)
  BY <1>1, <1>3, <1>4, TickPredictions
<1>7. ASSUME Steady' PROVE SteadyInv'
  <2>1. server' = server
    BY <1>4 DEF Ticked
  <2>2. Undisturbed /\ Presented /\ Ahead /\ Awaited
    BY <1>1, <1>7, <2>1 DEF Steady, Has, SteadyInv
  <2>3. Undisturbed' /\ Presented'
    BY <1>1, <1>3, <1>4, <2>2, TickPresented
  <2>4. Ahead'
    BY <1>1, <1>3, <1>4, <2>2, TickAhead
  <2>5. Awaited'
    BY <1>1, <1>3, <1>4, <2>2, TickAwaited
  <2>6. ASSUME (Has("corrects") \/ OneKind)', NEW p \in Positions PROVE Agrees(p)'
    <3>1. Has("corrects") \/ OneKind
      BY <2>1, <2>6 DEF Has, OneKind
    <3>2. Agrees(p)
      BY <1>1, <1>7, <2>1, <3>1 DEF Steady, Has, SteadyInv
    <3> QED BY <1>1, <1>3, <1>4, <2>2, <3>1, <3>2, TickAgrees
  <2> QED BY <2>3, <2>4, <2>5, <2>6 DEF SteadyInv
<1> QED BY <1>5, <1>6, <1>7 DEF IInv

-----------------------------------------------------------------------------
(* The last that is told of a block.                                       *)

LEMMA ToldAppend ==
  ASSUME NEW q \in Seq(Packets), NEW m \in Packets, NEW p, ~Updates(m, p), NEW b, NEW s, LastTold(q, p, b, s)
  PROVE  LastTold(Append(q, m), p, b, s)
<1>1. PICK r, n : r = Append(q, m) /\ n = Len(q)
  OBVIOUS
<1>2. n \in Nat /\ Len(r) = n + 1 /\ r[n + 1] = m /\ \A i \in 1..n : r[i] = q[i]
  BY <1>1, AppendLemma
<1>3. \A i \in 1..Len(r) : i \in 1..n \/ i = n + 1
  BY <1>2
<1>4. CASE \E i \in 1..n : Updates(q[i], p) /\ q[i].state = s /\ \A j \in (i+1)..n : ~Updates(q[j], p)
  <2>1. PICK i \in 1..n : Updates(q[i], p) /\ q[i].state = s /\ \A j \in (i+1)..n : ~Updates(q[j], p)
    BY <1>4
  <2>2. ASSUME NEW j \in (i+1)..Len(r) PROVE ~Updates(r[j], p)
    <3>1. j = n + 1 \/ (j \in (i+1)..n /\ j \in 1..n)
      BY <1>2
    <3> QED BY <1>2, <2>1, <3>1
  <2>3. i \in 1..Len(r) /\ r[i] = q[i]
    BY <1>2
  <2> QED BY <1>1, <2>1, <2>2, <2>3 DEF LastTold
<1>5. CASE b = s /\ \A j \in 1..n : ~Updates(q[j], p)
  <2>1. \A j \in 1..Len(r) : ~Updates(r[j], p)
    BY <1>2, <1>3, <1>5
  <2> QED BY <1>1, <1>5, <2>1 DEF LastTold
<1> QED BY <1>1, <1>4, <1>5 DEF LastTold

LEMMA ToldUpdate ==
  ASSUME NEW q \in Seq(Packets), NEW m \in Packets, NEW p, Updates(m, p), NEW b, NEW s, m.state = s
  PROVE  LastTold(Append(q, m), p, b, s)
<1>1. PICK r, n : r = Append(q, m) /\ n = Len(q) + 1
  OBVIOUS
<1>2. n \in 1..Len(r) /\ Len(r) = n /\ n \in Nat /\ r[n] = m
  BY <1>1, AppendLemma
<1>3. (n + 1)..Len(r) = {}
  BY <1>2
<1> QED BY <1>1, <1>2, <1>3 DEF LastTold

LEMMA ToldTail ==
  ASSUME NEW q \in Seq(Packets), q # <<>>, NEW p, NEW b, NEW s, LastTold(q, p, b, s),
         NEW c, c = IF Updates(Head(q), p) THEN Head(q).state ELSE b
  PROVE  LastTold(Tail(q), p, c, s)
<1>1. PICK r, n, h : r = Tail(q) /\ n = Len(q) /\ h = Head(q)
  OBVIOUS
<1>2. /\ n \in Nat /\ n >= 1 /\ Len(r) = n - 1 /\ h = q[1]
      /\ \A i \in 1..Len(r) : r[i] = q[i+1] /\ i + 1 \in 1..n
      /\ \A i \in 1..n : i = 1 \/ (i - 1 \in 1..Len(r) /\ r[i-1] = q[i])
  BY <1>1, TailLemma
<1>3. CASE \E i \in 1..n : Updates(q[i], p) /\ q[i].state = s /\ \A j \in (i+1)..n : ~Updates(q[j], p)
  <2>1. PICK i \in 1..n : Updates(q[i], p) /\ q[i].state = s /\ \A j \in (i+1)..n : ~Updates(q[j], p)
    BY <1>3
  <2>2. \A j \in 1..Len(r) : j >= i => ~Updates(r[j], p)
    <3> TAKE j \in 1..Len(r)
    <3> HAVE j >= i
    <3>1. j + 1 \in (i+1)..n
      BY <1>2
    <3> QED BY <1>2, <2>1, <3>1
  <2>3. CASE i = 1
    <3>1. \A j \in 1..Len(r) : ~Updates(r[j], p)
      BY <1>2, <2>2, <2>3
    <3>2. c = s
      BY <1>1, <1>2, <2>1, <2>3
    <3> QED BY <1>1, <3>1, <3>2 DEF LastTold
  <2>4. CASE i # 1
    <3>1. i - 1 \in 1..Len(r) /\ r[i - 1] = q[i] /\ (i - 1) + 1 = i
      BY <1>2, <2>4
    <3>2. \A j \in ((i-1)+1)..Len(r) : ~Updates(r[j], p)
      BY <1>2, <2>2, <3>1
    <3> QED BY <1>1, <2>1, <3>1, <3>2 DEF LastTold
  <2> QED BY <2>3, <2>4
<1>4. CASE b = s /\ \A j \in 1..n : ~Updates(q[j], p)
  <2>1. 1 \in 1..n
    BY <1>2
  <2>2. c = s
    BY <1>1, <1>2, <1>4, <2>1
  <2>3. \A j \in 1..Len(r) : ~Updates(r[j], p)
    BY <1>2, <1>4
  <2> QED BY <1>1, <2>2, <2>3 DEF LastTold
<1> QED BY <1>1, <1>3, <1>4 DEF LastTold

-----------------------------------------------------------------------------
(* The client takes the next packet.                                       *)

Taken == toClient # <<>> /\ toClient' = Tail(toClient) /\ UNCHANGED <<server, toServer>>

LEMMA TakenLemma ==
  ASSUME Types, Taken
  PROVE  /\ toClient' \in Seq(Packets) /\ Head(toClient) \in Packets
         /\ 1 \in 1..Len(toClient) /\ Head(toClient) = toClient[1]
         /\ \A i \in 1..Len(toClient') : i + 1 \in 1..Len(toClient) /\ toClient'[i] = toClient[i+1]
         /\ \A i \in 1..Len(toClient) : i = 1 \/ (i - 1 \in 1..Len(toClient') /\ toClient'[i-1] = toClient[i])
<1>1. PICK q, r : q = toClient /\ r = toClient'
  OBVIOUS
<1>2. q \in Seq(Packets) /\ q # <<>> /\ r = Tail(q)
  BY <1>1 DEF Types, Taken
<1>3. Len(q) \in Nat /\ Len(q) >= 1 /\ Head(q) = q[1] /\ Head(q) \in Packets /\ r \in Seq(Packets)
  BY <1>2, TailLemma
<1>4. \A i \in 1..Len(r) : i + 1 \in 1..Len(q) /\ r[i] = q[i+1]
  BY <1>2, TailLemma
<1>5. \A i \in 1..Len(q) : i = 1 \/ (i - 1 \in 1..Len(r) /\ r[i-1] = q[i])
  BY <1>2, TailLemma
<1>6. 1 \in 1..Len(q)
  BY <1>3
<1> QED BY <1>1, <1>3, <1>4, <1>5, <1>6

LEMMA TakenUndisturbed ==
  ASSUME Types, Taken, Undisturbed, \A p \in Positions : client'[p] # Unloaded
  PROVE  Undisturbed'
<1>1. server'.sent
  BY DEF Taken, Undisturbed
<1>2. \A i \in 1..Len(toClient') : toClient'[i].kind \in {"update", "ack", "mode"}
  <2>1. \A i \in 1..Len(toClient) : toClient[i].kind \in {"update", "ack", "mode"}
    BY DEF Undisturbed
  <2>2. \A i \in 1..Len(toClient') : i + 1 \in 1..Len(toClient) /\ toClient'[i] = toClient[i+1]
    BY TakenLemma
  <2> QED BY <2>1, <2>2
<1> QED BY <1>1, <1>2 DEF Undisturbed

\* Nothing but an acknowledgement that covers it ends the wait for one.
LEMMA TakenOutstanding ==
  ASSUME Types, Taken, NEW s, Outstanding(s), Head(toClient).kind = "ack" => ~(Head(toClient).sequence >= s)
  PROVE  Outstanding(s)'
<1>1. server' = server /\ toServer' = toServer
  BY DEF Taken
<1>2. CASE \E j \in 1..Len(toClient) : toClient[j].kind = "ack" /\ toClient[j].sequence >= s
  <2>1. PICK j \in 1..Len(toClient) : toClient[j].kind = "ack" /\ toClient[j].sequence >= s
    BY <1>2
  <2>2. j # 1
    BY <2>1, TakenLemma
  <2>3. j - 1 \in 1..Len(toClient') /\ toClient'[j - 1] = toClient[j]
    BY <2>2, TakenLemma
  <2> QED BY <2>1, <2>3 DEF Outstanding
<1>3. CASE \/ \E j \in 1..Len(toServer) : toServer[j].sequence = s
           \/ server.ack # None /\ server.ack >= s
  BY <1>1, <1>3 DEF Outstanding
<1> QED BY <1>2, <1>3 DEF Outstanding

LEMMA TakenAhead ==
  ASSUME Types, Taken, Ahead, tracker'.nextSequence = tracker.nextSequence,
         tracker'.latestAcknowledged # None =>
           /\ tracker'.latestAcknowledged < tracker.nextSequence
           /\ \A i \in 1..Len(tracker'.predictions) : tracker'.latestAcknowledged < tracker'.predictions[i].sequence
  PROVE  Ahead'
<1>1. server' = server /\ toServer' = toServer
  BY DEF Taken
<1>2. \A i \in 1..Len(toClient') : toClient'[i].kind = "ack" => toClient'[i].sequence < tracker.nextSequence
  <2>1. \A i \in 1..Len(toClient) : toClient[i].kind = "ack" => toClient[i].sequence < tracker.nextSequence
    BY DEF Ahead
  <2>2. \A i \in 1..Len(toClient') : i + 1 \in 1..Len(toClient) /\ toClient'[i] = toClient[i+1]
    BY TakenLemma
  <2> QED BY <2>1, <2>2
<1>3. /\ server.ack # None => server.ack < tracker.nextSequence
      /\ \A i \in 1..Len(toServer) : toServer[i].sequence < tracker.nextSequence
  BY DEF Ahead
<1> QED BY <1>1, <1>2, <1>3 DEF Ahead

\* What the client takes the server's block to be has to follow the packet.
LEMMA TakenAgrees ==
  ASSUME Types, Taken, NEW p \in Positions, Agrees(p),
         NEW b, b = Base(client, tracker.predictions, p),
         NEW c, c = Base(client', tracker'.predictions, p),
         c = IF Updates(Head(toClient), p) THEN Head(toClient).state ELSE b
  PROVE  Agrees(p)'
<1>1. server' = server /\ toServer' = toServer
  BY DEF Taken
<1>2. CASE Has("corrects") /\ Stopping(p)
  BY <1>1, <1>2 DEF Agrees, Has, Stopping
<1>3. CASE LastTold(toClient, p, b, server.blocks[p])
  <2>1. PICK q, s : q = toClient /\ s = server.blocks[p]
    OBVIOUS
  <2>2. q \in Seq(Packets) /\ q # <<>> /\ toClient' = Tail(q)
    BY <2>1 DEF Types, Taken
  <2>3. LastTold(q, p, b, s) /\ c = IF Updates(Head(q), p) THEN Head(q).state ELSE b
    BY <1>3, <2>1
  <2>4. LastTold(Tail(q), p, c, s)
    BY <2>2, <2>3, ToldTail
  <2> QED BY <1>1, <2>1, <2>2, <2>4 DEF Agrees
<1> QED BY <1>2, <1>3 DEF Agrees

LEMMA RetainedLemma ==
  ASSUME NEW ps \in Seq(Predictions), NEW p, NEW s \in States
  PROVE  LET r == Retained(ps, p, s)
         IN  /\ r \in Seq(Predictions) /\ Len(r) = Len(ps)
             /\ \A i \in 1..Len(ps) : /\ r[i].sequence = ps[i].sequence /\ r[i].position = ps[i].position
                                      /\ r[i].expected = ps[i].expected
                                      /\ r[i].serverState = IF ps[i].position = p THEN s ELSE ps[i].serverState
<1> DEFINE r == Retained(ps, p, s)
<1>1. Len(ps) \in Nat /\ DOMAIN ps = 1..Len(ps) /\ \A i \in 1..Len(ps) : ps[i] \in Predictions
  BY LenProperties, ElementOfSeq
<1>2. ASSUME NEW i \in 1..Len(ps)
      PROVE  /\ r[i] \in Predictions /\ r[i].sequence = ps[i].sequence /\ r[i].position = ps[i].position
             /\ r[i].expected = ps[i].expected
             /\ r[i].serverState = IF ps[i].position = p THEN s ELSE ps[i].serverState
  <2>1. r[i] = IF ps[i].position = p THEN [ps[i] EXCEPT !.serverState = s] ELSE ps[i]
    BY <1>1 DEF Retained
  <2>2. ps[i] \in Predictions
    BY <1>1
  <2> HIDE DEF r
  <2> QED BY <2>1, <2>2 DEF Predictions
<1>3. r \in [1..Len(ps) -> Predictions]
  BY <1>1, <1>2 DEF Retained
<1> HIDE DEF r
<1>4. r \in Seq(Predictions)
  BY <1>1, <1>3, SeqDef
<1>5. Len(r) = Len(ps)
  BY <1>1, <1>3, <1>4, LenProperties
<1> QED BY <1>2, <1>4, <1>5 DEF r

LEMMA UpdateKeeps ==
  ASSUME IInv, ReceiveUpdate
  PROVE  IInv'
<1>0. Types /\ Ordered(tracker.predictions, tracker.nextSequence)
  BY DEF IInv
<1>1. Taken /\ creative' = creative /\ placed' = placed /\ budget' = budget
  BY DEF ReceiveUpdate, Receiving, Taken
<1>2. PICK m, p, s, ps, r : m = Head(toClient) /\ p = m.position /\ s = m.state
                            /\ ps = tracker.predictions /\ r = Retained(ps, p, s)
  OBVIOUS
<1>3. m.kind = "update" /\ p \in Positions /\ s \in States
  <2>1. m \in Packets
    BY <1>0, <1>1, <1>2, TakenLemma
  <2>2. m.kind = "update"
    BY <1>2 DEF ReceiveUpdate, Receiving
  <2> QED BY <1>2, <2>1, <2>2 DEF Packets
<1>4. ps \in Seq(Predictions) /\ Len(ps) \in Nat
  BY <1>0, <1>2, TypesLemma
<1>5. r \in Seq(Predictions) /\ Len(r) = Len(ps)
  BY <1>2, <1>3, <1>4, RetainedLemma
<1>6. \A i \in 1..Len(ps) : /\ r[i].sequence = ps[i].sequence /\ r[i].position = ps[i].position
                            /\ r[i].expected = ps[i].expected
                            /\ r[i].serverState = IF ps[i].position = p THEN s ELSE ps[i].serverState
  BY <1>2, <1>3, <1>4, RetainedLemma
<1>7. tracker' = [tracker EXCEPT !.predictions = r]
  BY <1>2 DEF ReceiveUpdate
<1>8. /\ tracker' \in Trackers /\ tracker'.predictions = r /\ tracker'.nextSequence = tracker.nextSequence
      /\ tracker'.latestAcknowledged = tracker.latestAcknowledged
  BY <1>0, <1>5, <1>7 DEF Types, Trackers
<1>9. client \in [Positions -> States \cup {Unloaded}]
  BY <1>0 DEF Types
<1>10. client' = [client EXCEPT ![p] = IF client[p] = Unloaded \/ PredictionAt(ps, p) # {} THEN client[p] ELSE s]
  BY <1>2 DEF ReceiveUpdate, Shown
<1>11. /\ client' \in [Positions -> States \cup {Unloaded}]
       /\ \A x \in Positions : x # p => client'[x] = client[x]
       /\ client'[p] = IF client[p] = Unloaded \/ PredictionAt(ps, p) # {} THEN client[p] ELSE s
  <2>1. PICK v : v = IF client[p] = Unloaded \/ PredictionAt(ps, p) # {} THEN client[p] ELSE s
    OBVIOUS
  <2>2. v \in States \cup {Unloaded}
    BY <1>3, <1>9, <2>1
  <2>3. client' = [client EXCEPT ![p] = v]
    BY <1>10, <2>1
  <2> QED BY <1>3, <1>9, <2>1, <2>2, <2>3
<1>12. Types'
  <2>1. toClient' \in Seq(Packets)
    BY <1>0, <1>1, TakenLemma
  <2>2. server' = server /\ toServer' = toServer
    BY <1>1 DEF Taken
  <2> QED BY <1>0, <1>1, <1>8, <1>11, <2>1, <2>2 DEF Types
<1>13. Ordered(r, tracker.nextSequence)
  BY <1>0, <1>2, <1>5, <1>6 DEF Ordered
<1>14. ASSUME Steady' PROVE SteadyInv'
  <2>1. server' = server
    BY <1>1 DEF Taken
  <2>2. SteadyInv
    BY <1>14, <2>1 DEF IInv, Steady, Has
  <2>3. Undisturbed /\ Presented /\ Ahead /\ Awaited
    BY <2>2 DEF SteadyInv
  <2>4. \A x \in Positions : client[x] # Unloaded
    BY <2>3 DEF Undisturbed
  <2>5. \A x \in Positions : client'[x] # Unloaded
    BY PredictionAssumption, <1>3, <1>11, <2>4
  <2>6. Undisturbed'
    BY <1>0, <1>1, <2>3, <2>5, TakenUndisturbed
  <2>7. \A i \in 1..Len(ps) : ps[i].position \in Positions
    BY <1>0, <1>2, TypesLemma DEF Predictions
  <2>8. Presented'
    <3>1. ASSUME NEW i \in 1..Len(ps) PROVE client'[ps[i].position] = ps[i].expected
      <4>1. client[ps[i].position] = ps[i].expected
        BY <1>2, <2>3 DEF Presented
      <4>2. CASE ps[i].position = p
        <5>1. PredictionAt(ps, p) # {}
          BY <1>4, <4>2, LenProperties DEF PredictionAt
        <5> QED BY <1>11, <4>1, <4>2, <5>1
      <4>3. CASE ps[i].position # p
        BY <1>11, <2>7, <4>1, <4>3
      <4> QED BY <4>2, <4>3
    <3> QED BY <1>5, <1>6, <1>8, <3>1 DEF Presented
  <2>9. Ahead'
    <3>1. tracker.latestAcknowledged # None =>
           /\ tracker.latestAcknowledged < tracker.nextSequence
           /\ \A i \in 1..Len(ps) : tracker.latestAcknowledged < ps[i].sequence
      BY <1>2, <2>3 DEF Ahead
    <3>2. tracker'.latestAcknowledged # None =>
           /\ tracker'.latestAcknowledged < tracker.nextSequence
           /\ \A i \in 1..Len(tracker'.predictions) : tracker'.latestAcknowledged < tracker'.predictions[i].sequence
      BY <1>5, <1>6, <1>8, <3>1
    <3> QED BY <1>0, <1>1, <1>8, <2>3, <3>2, TakenAhead
  <2>10. Awaited'
    <3>1. ASSUME NEW i \in 1..Len(ps) PROVE Outstanding(ps[i].sequence)'
      <4>1. Outstanding(ps[i].sequence)
        BY <1>2, <2>3 DEF Awaited
      <4>2. Head(toClient).kind # "ack"
        BY <1>2, <1>3
      <4> QED BY <1>0, <1>1, <4>1, <4>2, TakenOutstanding
    <3>2. \A i \in 1..Len(r) : Outstanding(r[i].sequence)'
      BY <1>5, <1>6, <3>1
    <3> QED BY <1>8, <3>2 DEF Awaited
  <2>11. ASSUME (Has("corrects") \/ OneKind)', NEW x \in Positions PROVE Agrees(x)'
    <3>1. Agrees(x)
      BY <2>1, <2>2, <2>11 DEF SteadyInv, Has, OneKind
    <3>2. PICK b, c : b = Base(client, ps, x) /\ c = Base(client', r, x)
      OBVIOUS
    <3>3. Updates(m, x) <=> x = p
      BY <1>2, <1>3 DEF Updates
    <3>4. PICK next : next = tracker.nextSequence
      OBVIOUS
    <3>5. Ordered(ps, next) /\ Ordered(r, next)
      BY <1>0, <1>2, <1>13, <3>4
    <3>6. ASSUME \E i \in 1..Len(ps) : ps[i].position = x PROVE c = IF x = p THEN s ELSE b
      <4>1. PICK i \in 1..Len(ps) : ps[i].position = x
        BY <3>6
      <4>2. i \in 1..Len(r) /\ r[i].position = x /\ r[i].serverState = IF x = p THEN s ELSE ps[i].serverState
        BY <1>5, <1>6, <4>1
      <4>3. Base(client, ps, x) = ps[i].serverState
        BY <1>4, <3>5, <4>1, BaseRetained
      <4>4. Base(client', r, x) = r[i].serverState
        BY <1>5, <3>5, <4>2, BaseRetained
      <4> QED BY <3>2, <4>2, <4>3, <4>4
    <3>7. ASSUME \A i \in 1..Len(ps) : ps[i].position # x PROVE c = IF x = p THEN s ELSE b
      <4>1. \A i \in 1..Len(r) : r[i].position # x
        BY <1>5, <1>6, <3>7
      <4>2. Base(client, ps, x) = client[x]
        BY <1>4, <3>7, BaseShown
      <4>3. Base(client', r, x) = client'[x]
        BY <1>5, <4>1, BaseShown
      <4>4. x = p => PredictionAt(ps, p) = {}
        BY <1>4, <3>7, LenProperties DEF PredictionAt
      <4> QED BY <1>11, <2>4, <3>2, <4>2, <4>3, <4>4
    <3>8. c = IF x = p THEN s ELSE b
      BY <3>6, <3>7
    <3> QED BY <1>0, <1>1, <1>2, <1>8, <3>1, <3>2, <3>3, <3>8, TakenAgrees
  <2> QED BY <2>6, <2>8, <2>9, <2>10, <2>11 DEF SteadyInv
<1> QED BY <1>8, <1>12, <1>13, <1>14 DEF IInv

\* Steps that a steady world excludes, or that replace nothing of the ledger.
LEMMA OtherPacketsKeep ==
  ASSUME IInv, ReceiveChunk \/ ReceiveUnload \/ ReceiveRespawn \/ ReceivePosition
  PROVE  IInv'
<1>0. Types /\ Ordered(tracker.predictions, tracker.nextSequence)
  BY DEF IInv
<1>1. Taken /\ creative' = creative /\ budget' = budget
  BY DEF ReceiveChunk, ReceiveUnload, ReceiveRespawn, ReceivePosition, Receiving, Taken
<1>2. Head(toClient).kind \in {"chunk", "unload", "respawn", "position"}
  BY DEF ReceiveChunk, ReceiveUnload, ReceiveRespawn, ReceivePosition, Receiving
<1>3. toClient' \in Seq(Packets) /\ Head(toClient) \in Packets /\ 1 \in 1..Len(toClient) /\ Head(toClient) = toClient[1]
  BY <1>0, <1>1, TakenLemma
<1>4. client' \in [Positions -> States \cup {Unloaded}]
  <2>1. client \in [Positions -> States \cup {Unloaded}]
    BY <1>0 DEF Types
  <2>2. CASE ReceiveChunk
    <3>1. Head(toClient).blocks \in [Positions -> States]
      BY <1>3, <2>2 DEF ReceiveChunk, Receiving, Packets
    <3> QED BY <2>2, <3>1 DEF ReceiveChunk
  <2>3. CASE ReceiveUnload \/ ReceiveRespawn \/ ReceivePosition
    BY <2>1, <2>3 DEF ReceiveUnload, ReceiveRespawn, ReceivePosition
  <2> QED BY <2>2, <2>3
<1>5. tracker' \in Trackers /\ Ordered(tracker'.predictions, tracker'.nextSequence)
  <2>1. CASE tracker' = tracker
    BY <1>0, <2>1 DEF Types
  <2>2. CASE tracker' = NewTracker
    <3>1. NewTracker \in Trackers /\ NewTracker.predictions = <<>>
      BY PredictionAssumption, EmptySeq DEF NewTracker, Trackers
    <3>2. Len(<<>>) = 0
      BY EmptySeq
    <3>3. Ordered(<<>>, NewTracker.nextSequence)
      BY PredictionAssumption, <3>2 DEF Ordered
    <3> QED BY <2>2, <3>1, <3>3
  <2> QED BY <2>1, <2>2 DEF ReceiveChunk, ReceiveUnload, ReceiveRespawn, ReceivePosition, AfterReset
<1>6. placed' \in BOOLEAN
  BY <1>0 DEF Types, ReceiveChunk, ReceiveUnload, ReceiveRespawn, ReceivePosition
<1>7. Types'
  BY <1>0, <1>1, <1>3, <1>4, <1>5, <1>6 DEF Types, Taken
<1>8. ~Steady'
  <2>1. server' = server
    BY <1>1 DEF Taken
  <2>2. SUFFICES ASSUME Steady' PROVE FALSE
    OBVIOUS
  <2>3. Undisturbed
    BY <2>1, <2>2 DEF IInv, SteadyInv, Steady, Has
  <2> QED BY <1>2, <1>3, <2>3 DEF Undisturbed
<1> QED BY <1>5, <1>7, <1>8 DEF IInv

LEMMA ModeKeeps ==
  ASSUME IInv, ReceiveMode
  PROVE  IInv'
<1>0. Types /\ Ordered(tracker.predictions, tracker.nextSequence)
  BY DEF IInv
<1>1. /\ Taken /\ client' = client /\ tracker' = tracker /\ placed' = placed /\ budget' = budget
      /\ Head(toClient).kind = "mode" /\ creative' = Head(toClient).creative
  BY DEF ReceiveMode, Receiving, Taken
<1>2. toClient' \in Seq(Packets) /\ Head(toClient) \in Packets
  BY <1>0, <1>1, TakenLemma
<1>3. creative' \in BOOLEAN
  BY <1>1, <1>2 DEF Packets
<1>4. Types'
  BY <1>0, <1>1, <1>2, <1>3 DEF Types, Taken
<1>5. ASSUME Steady' PROVE SteadyInv'
  <2>1. server' = server
    BY <1>1 DEF Taken
  <2>2. SteadyInv
    BY <1>5, <2>1 DEF IInv, Steady, Has
  <2>3. Undisturbed /\ Presented /\ Ahead /\ Awaited
    BY <2>2 DEF SteadyInv
  <2>4. Undisturbed'
    <3>1. \A p \in Positions : client'[p] # Unloaded
      BY <1>1, <2>3 DEF Undisturbed
    <3> QED BY <1>0, <1>1, <2>3, <3>1, TakenUndisturbed
  <2>5. Presented'
    BY <1>1, <2>3 DEF Presented
  <2>6. Ahead'
    <3>1. tracker'.latestAcknowledged # None =>
           /\ tracker'.latestAcknowledged < tracker.nextSequence
           /\ \A i \in 1..Len(tracker'.predictions) : tracker'.latestAcknowledged < tracker'.predictions[i].sequence
      BY <1>1, <2>3 DEF Ahead
    <3> QED BY <1>0, <1>1, <2>3, <3>1, TakenAhead
  <2>7. Awaited'
    <3>1. ASSUME NEW i \in 1..Len(tracker.predictions) PROVE Outstanding(tracker.predictions[i].sequence)'
      <4>1. PICK s : s = tracker.predictions[i].sequence
        OBVIOUS
      <4>2. Outstanding(s)
        BY <2>3, <4>1 DEF Awaited
      <4>3. Outstanding(s)'
        BY <1>0, <1>1, <4>2, TakenOutstanding
      <4> QED BY <1>1, <4>1, <4>3
    <3> QED BY <1>1, <3>1 DEF Awaited
  <2>8. ASSUME (Has("corrects") \/ OneKind)', NEW x \in Positions PROVE Agrees(x)'
    <3>1. Agrees(x)
      BY <2>1, <2>2, <2>8 DEF SteadyInv, Has, OneKind
    <3>2. PICK b : b = Base(client, tracker.predictions, x)
      OBVIOUS
    <3>3. b = Base(client', tracker'.predictions, x)
      BY <1>1, <3>2
    <3>4. b = IF Updates(Head(toClient), x) THEN Head(toClient).state ELSE b
      BY <1>1 DEF Updates
    <3> QED BY <1>0, <1>1, <3>1, <3>2, <3>3, <3>4, TakenAgrees
  <2> QED BY <2>4, <2>5, <2>6, <2>7, <2>8 DEF SteadyInv
<1> QED BY <1>0, <1>1, <1>4, <1>5 DEF IInv

IsSuffix(ps, n, r) ==
  /\ Len(r) \in Nat
  /\ \A i \in 1..Len(r) : n + i \in 1..Len(ps) /\ r[i] = ps[n + i]
  /\ \A j \in 1..Len(ps) : j \notin 1..n => j - n \in 1..Len(r) /\ r[j - n] = ps[j]

LEMMA SuffixLemma ==
  ASSUME NEW ps \in Seq(Predictions), NEW n \in 0..Len(ps), NEW next, Ordered(ps, next),
         NEW r, r = SubSeq(ps, n + 1, Len(ps))
  PROVE  r \in Seq(Predictions) /\ Ordered(r, next) /\ IsSuffix(ps, n, r)
<1>1. Len(ps) \in Nat /\ n \in Nat /\ n <= Len(ps) /\ \A i \in 1..Len(ps) : ps[i] \in Predictions
  BY LenProperties, ElementOfSeq
<1>2. PICK a, l : a = n + 1 /\ l = Len(ps)
  OBVIOUS
<1>3. a \in Int /\ l \in Int /\ \A i \in a..l : ps[i] \in Predictions
  BY <1>1, <1>2
<1>4. r \in Seq(Predictions)
  BY <1>2, <1>3, SubSeqProperties
<1>5. Len(r) = l - n
  <2>1. Len(r) = IF a <= l THEN l - a + 1 ELSE 0
    BY <1>2, <1>3, SubSeqProperties
  <2> QED BY <1>1, <1>2, <2>1
<1>6. ASSUME NEW i \in 1..Len(r) PROVE n + i \in 1..Len(ps) /\ r[i] = ps[n + i]
  <2>1. \A j \in 1..l - a + 1 : r[j] = ps[a + j - 1]
    BY <1>2, <1>3, SubSeqProperties
  <2>2. i \in 1..l - a + 1 /\ a + i - 1 = n + i /\ n + i \in 1..Len(ps)
    BY <1>1, <1>2, <1>5
  <2> QED BY <2>1, <2>2
<1>7. ASSUME NEW j \in 1..Len(ps), j \notin 1..n PROVE j - n \in 1..Len(r) /\ r[j - n] = ps[j]
  <2>1. j - n \in 1..Len(r) /\ n + (j - n) = j
    BY <1>1, <1>2, <1>5, <1>7
  <2> QED BY <1>6, <2>1
<1>8. Ordered(r, next)
  <2>1. ASSUME NEW i \in 1..Len(r), NEW j \in 1..Len(r), i < j
        PROVE  r[i].sequence < r[j].sequence /\ r[i].position # r[j].position
    <3>1. PICK x, y : x = n + i /\ y = n + j
      OBVIOUS
    <3>2. x \in 1..Len(ps) /\ y \in 1..Len(ps) /\ r[i] = ps[x] /\ r[j] = ps[y]
      BY <1>6, <3>1
    <3>3. x < y
      BY <1>1, <2>1, <3>1
    <3> QED BY <3>2, <3>3 DEF Ordered
  <2>2. \A i \in 1..Len(r) : r[i].sequence < next
    BY <1>6 DEF Ordered
  <2>3. Len(r) <= MaxPredictions
    <3>1. Len(ps) <= MaxPredictions
      BY DEF Ordered
    <3> QED BY PredictionAssumption, <1>1, <1>2, <1>5, <3>1
  <2> QED BY <2>1, <2>2, <2>3 DEF Ordered
<1>9. Len(r) \in Nat
  BY <1>1, <1>2, <1>5
<1> QED BY <1>4, <1>6, <1>7, <1>8, <1>9 DEF IsSuffix

\* An acknowledgement of what was acknowledged before changes nothing.
LEMMA StaleAckKeeps ==
  ASSUME IInv, ReceiveAck, ~Fresh(Head(toClient).sequence)
  PROVE  IInv'
<1>0. Types /\ Ordered(tracker.predictions, tracker.nextSequence)
  BY DEF IInv
<1>1. /\ Taken /\ client' = client /\ tracker' = tracker /\ placed' = placed /\ budget' = budget
      /\ Head(toClient).kind = "ack" /\ creative' = creative
  BY DEF ReceiveAck, Receiving, Taken
<1>2. toClient' \in Seq(Packets) /\ Head(toClient) \in Packets
  BY <1>0, <1>1, TakenLemma
<1>3. Types'
  BY <1>0, <1>1, <1>2 DEF Types, Taken
<1>4. ASSUME Steady' PROVE SteadyInv'
  <2>1. server' = server
    BY <1>1 DEF Taken
  <2>2. SteadyInv
    BY <1>4, <2>1 DEF IInv, Steady, Has
  <2>3. Undisturbed /\ Presented /\ Ahead /\ Awaited
    BY <2>2 DEF SteadyInv
  <2>4. Undisturbed'
    <3>1. \A p \in Positions : client'[p] # Unloaded
      BY <1>1, <2>3 DEF Undisturbed
    <3> QED BY <1>0, <1>1, <2>3, <3>1, TakenUndisturbed
  <2>5. Presented'
    BY <1>1, <2>3 DEF Presented
  <2>6. Ahead'
    <3>1. tracker'.latestAcknowledged # None =>
           /\ tracker'.latestAcknowledged < tracker.nextSequence
           /\ \A i \in 1..Len(tracker'.predictions) : tracker'.latestAcknowledged < tracker'.predictions[i].sequence
      BY <1>1, <2>3 DEF Ahead
    <3> QED BY <1>0, <1>1, <2>3, <3>1, TakenAhead
  <2>7. Awaited'
    <3>1. ASSUME NEW i \in 1..Len(tracker.predictions) PROVE Outstanding(tracker.predictions[i].sequence)'
      <4>1. PICK s, la, a : s = tracker.predictions[i].sequence /\ la = tracker.latestAcknowledged /\ a = Head(toClient).sequence
        OBVIOUS
      <4>2. Outstanding(s)
        BY <2>3, <4>1 DEF Awaited
      <4>3. s \in Nat /\ la \in Nat \cup {None} /\ a \in Nat
        BY <1>0, <1>1, <1>2, <4>1, TypesLemma DEF Predictions, Packets
      <4>4. la # None /\ ~(a > la)
        BY <4>1 DEF Fresh
      <4>5. la < s
        BY <2>3, <4>1, <4>4 DEF Ahead
      <4>6. ~(a >= s)
        BY <4>3, <4>4, <4>5
      <4>7. Outstanding(s)'
        BY <1>0, <1>1, <4>1, <4>2, <4>6, TakenOutstanding
      <4> QED BY <1>1, <4>1, <4>7
    <3> QED BY <1>1, <3>1 DEF Awaited
  <2>8. ASSUME (Has("corrects") \/ OneKind)', NEW x \in Positions PROVE Agrees(x)'
    <3>1. Agrees(x)
      BY <2>1, <2>2, <2>8 DEF SteadyInv, Has, OneKind
    <3>2. PICK b : b = Base(client, tracker.predictions, x)
      OBVIOUS
    <3>3. b = Base(client', tracker'.predictions, x)
      BY <1>1, <3>2
    <3>4. b = IF Updates(Head(toClient), x) THEN Head(toClient).state ELSE b
      BY <1>1 DEF Updates
    <3> QED BY <1>0, <1>1, <3>1, <3>2, <3>3, <3>4, TakenAgrees
  <2> QED BY <2>4, <2>5, <2>6, <2>7, <2>8 DEF SteadyInv
<1> QED BY <1>0, <1>1, <1>3, <1>4 DEF IInv

\* The blocks of the retired predictions are what those retained, the others stay.
Restored(c, d, ps, n) ==
  /\ \A i \in 1..n : c[ps[i].position] # Unloaded => d[ps[i].position] = ps[i].serverState
  /\ \A p \in Positions : (\A i \in 1..n : ps[i].position # p) => d[p] = c[p]

Acknowledged(c, ps, n) ==
  [p \in Positions |-> IF c[p] # Unloaded /\ PredictionAt(ps, p) \cap 1..n # {}
                       THEN ps[CHOOSE i \in PredictionAt(ps, p) \cap 1..n : TRUE].serverState
                       ELSE c[p]]

LEMMA RestoredLemma ==
  ASSUME NEW ps \in Seq(Predictions), NEW n \in 0..Len(ps), NEW next, Ordered(ps, next),
         NEW c, c \in [Positions -> States \cup {Unloaded}], NEW d, d = Acknowledged(c, ps, n)
  PROVE  d \in [Positions -> States \cup {Unloaded}] /\ Restored(c, d, ps, n)
<1>1. Len(ps) \in Nat /\ \A i \in 1..Len(ps) : ps[i].position \in Positions /\ ps[i].serverState \in States
  <2>1. \A i \in 1..Len(ps) : ps[i] \in Predictions
    BY LenProperties, ElementOfSeq
  <2>2. Len(ps) \in Nat
    BY LenProperties
  <2> QED BY <2>1, <2>2 DEF Predictions
<1>2. \A i \in 1..n : i \in 1..Len(ps)
  BY <1>1
<1>3. \A p : PredictionAt(ps, p) \cap 1..n = {i \in 1..n : ps[i].position = p}
  BY <1>2, LenProperties DEF PredictionAt
<1>4. \A i, j \in 1..Len(ps) : ps[i].position = ps[j].position => i = j
  <2> TAKE i, j \in 1..Len(ps)
  <2>1. i < j \/ j < i \/ i = j
    BY <1>1
  <2> QED BY <2>1 DEF Ordered
<1>5. ASSUME NEW i \in 1..n, c[ps[i].position] # Unloaded PROVE d[ps[i].position] = ps[i].serverState
  <2>1. PICK p, A : p = ps[i].position /\ A = {j \in 1..n : ps[j].position = p}
    OBVIOUS
  <2>2. p \in Positions /\ PredictionAt(ps, p) \cap 1..n = A /\ i \in A
    BY <1>1, <1>2, <1>3, <2>1
  <2>3. PICK k : k = CHOOSE i_1 \in A : TRUE
    OBVIOUS
  <2>4. k \in A
    BY <2>2, <2>3
  <2>5. k = i
    BY <1>2, <1>4, <2>1, <2>4
  <2>6. d[p] = ps[k].serverState
    BY <1>5, <2>1, <2>2, <2>3 DEF Acknowledged
  <2> QED BY <2>1, <2>5, <2>6
<1>6. ASSUME NEW p \in Positions, \A i \in 1..n : ps[i].position # p PROVE d[p] = c[p]
  <2>1. PredictionAt(ps, p) \cap 1..n = {}
    BY <1>3, <1>6
  <2> QED BY <2>1 DEF Acknowledged
<1>7. ASSUME NEW p \in Positions PROVE d[p] \in States \cup {Unloaded}
  <2>1. CASE \E i \in 1..n : ps[i].position = p /\ c[p] # Unloaded
    BY <1>1, <1>2, <1>5, <2>1
  <2>2. CASE \A i \in 1..n : ps[i].position # p
    BY <1>6, <2>2
  <2>3. CASE c[p] = Unloaded
    <3>1. d[p] = c[p]
      BY <2>3 DEF Acknowledged
    <3> QED BY <3>1
  <2> QED BY <2>1, <2>2, <2>3
<1>8. d \in [Positions -> States \cup {Unloaded}]
  BY <1>7 DEF Acknowledged
<1> QED BY <1>5, <1>6, <1>8 DEF Restored

LEMMA FreshAckKeeps ==
  ASSUME IInv, ReceiveAck, Fresh(Head(toClient).sequence)
  PROVE  IInv'
<1>0. Types /\ Ordered(tracker.predictions, tracker.nextSequence)
  BY DEF IInv
<1>1. Taken /\ placed' = placed /\ budget' = budget /\ Head(toClient).kind = "ack" /\ creative' = creative
  BY DEF ReceiveAck, Receiving, Taken
<1>2. toClient' \in Seq(Packets) /\ Head(toClient) \in Packets /\ 1 \in 1..Len(toClient) /\ Head(toClient) = toClient[1]
  BY <1>0, <1>1, TakenLemma
<1>3. PICK a, ps, n, next, r, c, d :
        /\ a = Head(toClient).sequence /\ ps = tracker.predictions /\ n = Covered(ps, a)
        /\ next = tracker.nextSequence /\ r = SubSeq(ps, n + 1, Len(ps)) /\ c = client /\ d = client'
  OBVIOUS
<1>4. a \in Nat
  BY <1>1, <1>2, <1>3 DEF Packets
<1>5. ps \in Seq(Predictions) /\ Ordered(ps, next) /\ next \in Nat /\ c \in [Positions -> States \cup {Unloaded}]
  BY <1>0, <1>3, TypesLemma DEF Types
<1>6. /\ n \in 0..Len(ps) /\ Len(ps) \in Nat
      /\ \A i \in 1..Len(ps) : i \in 1..n <=> ps[i].sequence <= a
  BY <1>3, <1>4, <1>5, CoveredLemma
<1>7. r \in Seq(Predictions) /\ Ordered(r, next) /\ IsSuffix(ps, n, r)
  <2>1. r = SubSeq(ps, n + 1, Len(ps)) /\ n \in 0..Len(ps)
    BY <1>3, <1>6
  <2>2. ps \in Seq(Predictions) /\ Ordered(ps, next)
    BY <1>5
  <2> QED BY <2>1, <2>2, SuffixLemma
<1>8. /\ tracker' \in Trackers /\ tracker'.predictions = r /\ tracker'.nextSequence = next /\ tracker'.latestAcknowledged = a
  <2>1. PICK t : t = [tracker EXCEPT !.latestAcknowledged = a]
    OBVIOUS
  <2>2. t \in Trackers /\ t.nextSequence = next /\ t.latestAcknowledged = a
    BY <1>0, <1>3, <1>4, <2>1 DEF Types, Trackers
  <2>3. tracker' = [t EXCEPT !.predictions = r]
    BY <1>0, <1>3, <2>1 DEF ReceiveAck, Types, Trackers
  <2> QED BY <1>7, <2>2, <2>3 DEF Trackers
<1>9. d \in [Positions -> States \cup {Unloaded}] /\ Restored(c, d, ps, n)
  <2>1. d = Acknowledged(c, ps, n)
    BY <1>3 DEF ReceiveAck, Acknowledged
  <2>2. n \in 0..Len(ps)
    BY <1>6
  <2> QED BY <1>5, <2>1, <2>2, RestoredLemma
<1>10. Types'
  BY <1>0, <1>1, <1>2, <1>3, <1>8, <1>9 DEF Types, Taken
<1>11. ASSUME NEW i \in 1..Len(r) PROVE n + i \in 1..Len(ps) /\ r[i] = ps[n + i] /\ a < r[i].sequence /\ r[i].sequence \in Nat
  <2>1. n + i \in 1..Len(ps) /\ r[i] = ps[n + i] /\ n + i \notin 1..n
    BY <1>6, <1>7 DEF IsSuffix
  <2>2. ~(ps[n + i].sequence <= a)
    BY <1>6, <2>1
  <2>3. ps[n + i].sequence \in Nat
    BY <1>0, <1>3, <2>1, TypesLemma DEF Predictions
  <2> QED BY <1>4, <2>1, <2>2, <2>3
<1>12. ASSUME Steady' PROVE SteadyInv'
  <2>1. server' = server
    BY <1>1 DEF Taken
  <2>2. SteadyInv
    BY <1>12, <2>1 DEF IInv, Steady, Has
  <2>3. Undisturbed /\ Presented /\ Ahead /\ Awaited
    BY <2>2 DEF SteadyInv
  <2>4. \A x \in Positions : c[x] # Unloaded
    BY <1>3, <2>3 DEF Undisturbed
  <2>5. \A i \in 1..Len(ps) : ps[i].position \in Positions /\ ps[i].serverState \in States
    BY <1>0, <1>3, TypesLemma DEF Predictions
  <2>6. \A i \in 1..n : i \in 1..Len(ps)
    BY <1>6
  <2>7. \A i \in 1..n : d[ps[i].position] = ps[i].serverState
    BY <1>9, <2>4, <2>5, <2>6 DEF Restored
  <2>8. Undisturbed'
    <3>1. ASSUME NEW x \in Positions PROVE d[x] # Unloaded
      <4>1. CASE \E i \in 1..n : ps[i].position = x
        BY PredictionAssumption, <2>5, <2>6, <2>7, <4>1
      <4>2. CASE \A i \in 1..n : ps[i].position # x
        BY <1>9, <2>4, <4>2 DEF Restored
      <4> QED BY <4>1, <4>2
    <3> QED BY <1>0, <1>1, <1>3, <2>3, <3>1, TakenUndisturbed
  <2>9. Presented'
    <3>1. ASSUME NEW i \in 1..Len(r) PROVE d[r[i].position] = r[i].expected
      <4>1. PICK k : k = n + i
        OBVIOUS
      <4>2. k \in 1..Len(ps) /\ r[i] = ps[k] /\ \A j \in 1..n : j < k /\ j \in 1..Len(ps)
        BY <1>6, <1>11, <4>1
      <4>3. \A j \in 1..n : ps[j].position # ps[k].position
        BY <1>5, <4>2 DEF Ordered
      <4>4. d[ps[k].position] = c[ps[k].position]
        BY <1>9, <2>5, <4>2, <4>3 DEF Restored
      <4>5. c[ps[k].position] = ps[k].expected
        BY <1>3, <2>3, <4>2 DEF Presented
      <4> QED BY <4>2, <4>4, <4>5
    <3> QED BY <1>3, <1>8, <3>1 DEF Presented
  <2>10. Ahead'
    <3>1. a < next
      BY <1>1, <1>2, <1>3, <2>3 DEF Ahead
    <3>2. tracker'.latestAcknowledged # None =>
           /\ tracker'.latestAcknowledged < tracker.nextSequence
           /\ \A i \in 1..Len(tracker'.predictions) : tracker'.latestAcknowledged < tracker'.predictions[i].sequence
      BY <1>3, <1>8, <1>11, <3>1
    <3> QED BY <1>0, <1>1, <1>3, <1>8, <2>3, <3>2, TakenAhead
  <2>11. Awaited'
    <3>1. ASSUME NEW i \in 1..Len(r) PROVE Outstanding(r[i].sequence)'
      <4>1. PICK s : s = r[i].sequence
        OBVIOUS
      <4>2. Outstanding(s)
        BY <1>3, <1>11, <2>3, <4>1 DEF Awaited
      <4>3. ~(Head(toClient).sequence >= s)
        <5>1. a < s /\ s \in Nat
          BY <1>11, <4>1
        <5>2. a = Head(toClient).sequence
          BY <1>3
        <5> QED BY <1>4, <5>1, <5>2
      <4>4. Outstanding(s)'
        BY <1>0, <1>1, <4>2, <4>3, TakenOutstanding
      <4> QED BY <4>1, <4>4
    <3> QED BY <1>8, <3>1 DEF Awaited
  <2>12. ASSUME (Has("corrects") \/ OneKind)', NEW x \in Positions PROVE Agrees(x)'
    <3>1. Agrees(x)
      BY <2>1, <2>2, <2>12 DEF SteadyInv, Has, OneKind
    <3>2. PICK b, e : b = Base(c, ps, x) /\ e = Base(d, r, x)
      OBVIOUS
    <3>3. ASSUME NEW i \in 1..Len(ps), ps[i].position = x, i \in 1..n PROVE e = b
      <4>1. Base(c, ps, x) = ps[i].serverState
        BY <1>5, <3>3, BaseRetained
      <4>2. d[x] = ps[i].serverState
        BY <2>7, <3>3
      <4>3. \A k \in 1..Len(r) : r[k].position # x
        <5> TAKE k \in 1..Len(r)
        <5>1. PICK j : j = n + k
          OBVIOUS
        <5>2. j \in 1..Len(ps) /\ r[k] = ps[j] /\ i < j
          BY <1>6, <1>11, <3>3, <5>1
        <5> QED BY <1>5, <3>3, <5>2 DEF Ordered
      <4>4. Base(d, r, x) = d[x]
        BY <1>7, <4>3, BaseShown
      <4> QED BY <3>2, <4>1, <4>2, <4>4
    <3>4. ASSUME NEW i \in 1..Len(ps), ps[i].position = x, i \notin 1..n PROVE e = b
      <4>1. ps[i].position = x /\ ps \in Seq(Predictions) /\ Ordered(ps, next)
        BY <1>5, <3>4
      <4>2. Base(c, ps, x) = ps[i].serverState
        BY <4>1, BaseRetained
      <4>3. PICK k \in 1..Len(r) : r[k] = ps[i]
        BY <1>7, <3>4 DEF IsSuffix
      <4>4. r[k].position = x /\ r \in Seq(Predictions) /\ Ordered(r, next)
        BY <1>7, <4>1, <4>3
      <4>5. Base(d, r, x) = r[k].serverState
        BY <4>4, BaseRetained
      <4> QED BY <3>2, <4>2, <4>3, <4>5
    <3>5. ASSUME \A i \in 1..Len(ps) : ps[i].position # x PROVE e = b
      <4>1. Base(c, ps, x) = c[x]
        BY <1>5, <3>5, BaseShown
      <4>2. \A k \in 1..Len(r) : r[k].position # x
        BY <1>7, <3>5 DEF IsSuffix
      <4>3. Base(d, r, x) = d[x]
        BY <1>7, <4>2, BaseShown
      <4>4. d[x] = c[x]
        BY <1>9, <2>6, <3>5 DEF Restored
      <4> QED BY <3>2, <4>1, <4>3, <4>4
    <3>6. e = b
      BY <3>3, <3>4, <3>5
    <3>7. e = IF Updates(Head(toClient), x) THEN Head(toClient).state ELSE b
      BY <1>1, <3>6 DEF Updates
    <3>8. b = Base(client, tracker.predictions, x) /\ e = Base(client', tracker'.predictions, x)
      BY <1>3, <1>8, <3>2
    <3> QED BY <1>0, <1>1, <3>1, <3>7, <3>8, TakenAgrees
  <2> QED BY <2>8, <2>9, <2>10, <2>11, <2>12 DEF SteadyInv
<1> QED BY <1>7, <1>8, <1>10, <1>12 DEF IInv

-----------------------------------------------------------------------------
(* The server decides about an action.                                     *)

\* Packets of one kind follow what is under way.
Grown(q, r, kind) ==
  /\ r \in Seq(Packets)
  /\ \A i \in 1..Len(q) : i \in 1..Len(r) /\ r[i] = q[i]
  /\ \A i \in 1..Len(r) : i \in 1..Len(q) \/ r[i].kind = kind

LEMMA GrownAppend ==
  ASSUME NEW q \in Seq(Packets), NEW m \in Packets
  PROVE  Grown(q, Append(q, m), m.kind)
<1>1. PICK r, n : r = Append(q, m) /\ n = Len(q)
  OBVIOUS
<1>2. r \in Seq(Packets) /\ Len(r) = n + 1 /\ n \in Nat /\ r[n + 1] = m /\ \A i \in 1..n : r[i] = q[i]
  BY <1>1, AppendLemma
<1>3. \A i \in 1..n : i \in 1..Len(r)
  BY <1>2
<1>4. \A i \in 1..Len(r) : i \in 1..n \/ i = n + 1
  BY <1>2
<1> QED BY <1>1, <1>2, <1>3, <1>4 DEF Grown

Must(x, blocks) == server.sent /\ (Has("corrects") \/ blocks[x] # server.blocks[x])

\* Of the positions in A what has to be announced is announced, and of no other position.
Tells(q, r, A, blocks) ==
  /\ Grown(q, r, "update")
  /\ \A x \in Positions : \A b :
       IF x \in A /\ Must(x, blocks) THEN LastTold(r, x, b, blocks[x])
       ELSE \A s : LastTold(q, x, b, s) => LastTold(r, x, b, s)

LEMMA TellNothing ==
  ASSUME NEW q \in Seq(Packets), NEW blocks
  PROVE  Tells(q, q, {}, blocks)
BY DEF Tells, Grown

LEMMA TellOne ==
  ASSUME NEW q \in Seq(Packets), NEW p \in Positions, NEW blocks, blocks[p] \in States
  PROVE  Tells(q, q \o Told(p, blocks), {p}, blocks)
<1>1. CASE ~Must(p, blocks)
  <2>1. Told(p, blocks) = <<>>
    BY <1>1 DEF Told, Must
  <2>2. q \o Told(p, blocks) = q
    BY <2>1, ConcatEmptySeq
  <2>3. Tells(q, q, {p}, blocks)
    BY <1>1 DEF Tells, Grown
  <2> QED BY <2>2, <2>3
<1>2. CASE Must(p, blocks)
  <2>1. PICK m, r : m = Announce(p, blocks[p]) /\ r = Append(q, m)
    OBVIOUS
  <2>2. m \in Packets /\ m.kind = "update" /\ m.position = p /\ m.state = blocks[p]
    BY <2>1 DEF Announce, Packets
  <2>3. Told(p, blocks) = <<m>>
    BY <1>2, <2>1 DEF Told, Must
  <2>4. q \o Told(p, blocks) = r
    BY <2>1, <2>2, <2>3, AppendIsConcat
  <2>5. Grown(q, r, "update")
    BY <2>1, <2>2, GrownAppend
  <2>6. ASSUME NEW b PROVE LastTold(r, p, b, blocks[p])
    <3>1. Updates(m, p)
      BY <2>2 DEF Updates
    <3>2. LastTold(Append(q, m), p, b, blocks[p])
      BY <2>2, <3>1, ToldUpdate
    <3> QED BY <2>1, <3>2
  <2>7. ASSUME NEW x, x # p, NEW b, NEW s, LastTold(q, x, b, s) PROVE LastTold(r, x, b, s)
    <3>1. ~Updates(m, x)
      BY <2>2, <2>7 DEF Updates
    <3>2. LastTold(Append(q, m), x, b, s)
      BY <2>2, <2>7, <3>1, ToldAppend
    <3> QED BY <2>1, <3>2
  <2>8. Tells(q, r, {p}, blocks)
    BY <1>2, <2>5, <2>6, <2>7 DEF Tells
  <2> QED BY <2>4, <2>8
<1> QED BY <1>1, <1>2

LEMMA TellTwo ==
  ASSUME NEW q \in Seq(Packets), NEW p \in Positions, NEW p2 \in Positions, NEW blocks, NEW r, NEW t,
         Tells(q, r, {p}, blocks), Tells(r, t, {p2}, blocks)
  PROVE  Tells(q, t, {p, p2}, blocks)
<1>1. Grown(q, t, "update")
  BY DEF Tells, Grown
<1>2. ASSUME NEW x \in Positions, NEW b, x \in {p, p2}, Must(x, blocks) PROVE LastTold(t, x, b, blocks[x])
  <2>1. CASE x = p2
    BY <1>2, <2>1 DEF Tells
  <2>2. CASE x # p2
    <3>1. LastTold(r, x, b, blocks[x])
      BY <1>2, <2>2 DEF Tells
    <3> QED BY <2>2, <3>1 DEF Tells
  <2> QED BY <2>1, <2>2
<1>3. ASSUME NEW x \in Positions, NEW b, NEW s, ~(x \in {p, p2} /\ Must(x, blocks)), LastTold(q, x, b, s)
      PROVE  LastTold(t, x, b, s)
  <2>1. LastTold(r, x, b, s)
    BY <1>3 DEF Tells
  <2> QED BY <1>3, <2>1 DEF Tells
<1> QED BY <1>1, <1>2, <1>3 DEF Tells

\* What the server does with an action: it changes and announces only blocks that the action
\* is about.
Decided(a, blocks, A) ==
  /\ blocks \in [Positions -> States]
  /\ \A x \in Positions : x \notin A => blocks[x] = server.blocks[x]
  /\ a.kind = "stop" => a.position \in A
  /\ server' = [server EXCEPT !.blocks = blocks, !.ack = Higher(server.ack, a.sequence)]
  /\ Tells(toClient, toClient', A, blocks)

LEMMA ProcessLemma ==
  ASSUME Types, Process
  PROVE  \E blocks, A : Decided(Head(toServer), blocks, A)
<1>1. PICK a : a = Head(toServer)
  OBVIOUS
<1>2. a \in Actions
  <2>1. toServer \in Seq(Actions) /\ toServer # <<>>
    BY DEF Types, Process
  <2> QED BY <1>1, <2>1, TailLemma
<1>3. PICK blocks \in Decisions(a) :
        /\ server' = [server EXCEPT !.blocks = blocks, !.ack = Higher(server.ack, a.sequence)]
        /\ toClient' = CASE Len(About(a)) = 0 -> toClient
                         [] Len(About(a)) = 1 -> toClient \o Told(About(a)[1], blocks)
                         [] Len(About(a)) = 2 -> (toClient \o Told(About(a)[1], blocks)) \o Told(About(a)[2], blocks)
  BY <1>1 DEF Process
<1>4. PICK old, q : old = server.blocks /\ q = toClient
  OBVIOUS
<1>5. old \in [Positions -> States] /\ q \in Seq(Packets)
  BY <1>4 DEF Types, Servers
<1>6. CASE a.kind = "use" /\ a.position # None
  <2>1. PICK p, p2 : p = a.position /\ p2 = a.adjacent
    OBVIOUS
  <2>2. p \in Positions /\ p2 \in Positions
    BY <1>2, <1>6, <2>1 DEF Actions
  <2>3. About(a) = <<p, p2>>
    BY <1>6, <2>1 DEF About
  <2>4. PICK r, t : r = q \o Told(p, blocks) /\ t = r \o Told(p2, blocks)
    OBVIOUS
  <2>5. toClient' = t
    <3>1. Len(About(a)) = 2 /\ About(a)[1] = p /\ About(a)[2] = p2
      BY <2>3
    <3> QED BY <1>3, <1>4, <2>4, <3>1
  <2>6. blocks \in [Positions -> States] /\ \A x \in Positions : x \notin {p, p2} => blocks[x] = old[x]
    BY PredictionAssumption, <1>4, <1>5, <1>6, <2>1 DEF Decisions
  <2>7. Tells(q, r, {p}, blocks)
    BY <1>5, <2>2, <2>4, <2>6, TellOne
  <2>8. r \in Seq(Packets)
    BY <2>7 DEF Tells, Grown
  <2>9. Tells(r, t, {p2}, blocks)
    BY <2>2, <2>4, <2>6, <2>8, TellOne
  <2>10. Tells(q, t, {p, p2}, blocks)
    BY <1>5, <2>2, <2>7, <2>9, TellTwo
  <2>11. Decided(a, blocks, {p, p2})
    BY <1>3, <1>4, <1>6, <2>5, <2>6, <2>10 DEF Decided
  <2> QED BY <1>1, <2>11
<1>7. CASE a.kind = "stop" \/ (server.creative /\ a.kind = "start")
  <2>1. PICK p : p = a.position
    OBVIOUS
  <2>2. p \in Positions
    BY <1>2, <1>7, <2>1 DEF Actions
  <2>3. About(a) = <<p>>
    BY <1>7, <2>1 DEF About
  <2>4. PICK r : r = q \o Told(p, blocks)
    OBVIOUS
  <2>5. toClient' = r
    <3>1. Len(About(a)) = 1 /\ About(a)[1] = p
      BY <2>3
    <3> QED BY <1>3, <1>4, <2>4, <3>1
  <2>6. blocks \in [Positions -> States] /\ \A x \in Positions : x \notin {p} => blocks[x] = old[x]
    BY PredictionAssumption, <1>4, <1>5, <1>7, <2>1 DEF Decisions
  <2>7. Tells(q, r, {p}, blocks)
    BY <1>5, <2>2, <2>4, <2>6, TellOne
  <2>8. Decided(a, blocks, {p})
    BY <1>3, <1>4, <2>1, <2>5, <2>6, <2>7 DEF Decided
  <2> QED BY <1>1, <2>8
<1>8. CASE ~(a.kind = "use" /\ a.position # None) /\ ~(a.kind = "stop" \/ (server.creative /\ a.kind = "start"))
  <2>1. About(a) = <<>>
    BY <1>8 DEF About
  <2>2. toClient' = q
    <3>1. Len(About(a)) = 0
      BY <2>1, EmptySeq
    <3> QED BY <1>3, <1>4, <3>1
  <2>3. blocks = old
    BY <1>4, <1>8 DEF Decisions
  <2>4. Tells(q, q, {}, blocks)
    BY <1>5, TellNothing
  <2>5. Decided(a, blocks, {})
    BY <1>3, <1>4, <1>5, <1>8, <2>2, <2>3, <2>4 DEF Decided
  <2> QED BY <1>1, <2>5
<1> QED BY <1>6, <1>7, <1>8

LEMMA ProcessTypes ==
  ASSUME Types, Process, NEW blocks, NEW A, Decided(Head(toServer), blocks, A)
  PROVE  /\ Types' /\ server'.sent = server.sent /\ server'.habits = server.habits /\ server'.blocks = blocks
         /\ server'.ack = Higher(server.ack, Head(toServer).sequence) /\ server'.ack \in Nat
         /\ Head(toServer).sequence \in Nat /\ Head(toServer) = toServer[1] /\ 1 \in 1..Len(toServer)
         /\ \A i \in 1..Len(toServer') : i + 1 \in 1..Len(toServer) /\ toServer'[i] = toServer[i+1]
         /\ \A i \in 1..Len(toServer) : i = 1 \/ (i - 1 \in 1..Len(toServer') /\ toServer'[i-1] = toServer[i])
<1>1. PICK a, q, r, ack : a = Head(toServer) /\ q = toServer /\ r = toServer' /\ ack = Higher(server.ack, a.sequence)
  OBVIOUS
<1>2. q \in Seq(Actions) /\ q # <<>> /\ r = Tail(q)
  BY <1>1 DEF Types, Process
<1>3. Len(q) \in Nat /\ Len(q) >= 1 /\ a = q[1] /\ a \in Actions /\ r \in Seq(Actions)
  BY <1>1, <1>2, TailLemma
<1>4. \A i \in 1..Len(r) : i + 1 \in 1..Len(q) /\ r[i] = q[i+1]
  BY <1>2, TailLemma
<1>5. \A i \in 1..Len(q) : i = 1 \/ (i - 1 \in 1..Len(r) /\ r[i-1] = q[i])
  BY <1>2, TailLemma
<1>6. a.sequence \in Nat
  BY <1>3 DEF Actions
<1>7. ack \in Nat
  BY <1>1, <1>6 DEF Higher, Types, Servers
<1>8. blocks \in [Positions -> States]
  BY DEF Decided
<1>9. server' = [server EXCEPT !.blocks = blocks, !.ack = ack]
  BY <1>1 DEF Decided
<1>10. /\ server' \in Servers /\ server'.sent = server.sent /\ server'.habits = server.habits
       /\ server'.blocks = blocks /\ server'.ack = ack
  <2>1. PICK v : v = [server EXCEPT !.blocks = blocks]
    OBVIOUS
  <2>2. server \in Servers
    BY DEF Types
  <2>3. v \in Servers /\ v.sent = server.sent /\ v.habits = server.habits /\ v.blocks = blocks
    BY <1>8, <2>1, <2>2 DEF Servers
  <2>4. server' = [v EXCEPT !.ack = ack]
    BY <1>9, <2>1, <2>2 DEF Servers
  <2> QED BY <1>7, <2>3, <2>4 DEF Servers
<1>11. toClient' \in Seq(Packets)
  BY DEF Decided, Tells, Grown
<1>12. Types'
  BY <1>1, <1>3, <1>10, <1>11 DEF Types, Process
<1>13. 1 \in 1..Len(q)
  BY <1>3
<1>14. /\ \A i \in 1..Len(toServer') : i + 1 \in 1..Len(toServer) /\ toServer'[i] = toServer[i+1]
       /\ \A i \in 1..Len(toServer) : i = 1 \/ (i - 1 \in 1..Len(toServer') /\ toServer'[i-1] = toServer[i])
  BY <1>1, <1>4, <1>5
<1> QED BY <1>1, <1>3, <1>6, <1>7, <1>10, <1>12, <1>13, <1>14

\* Packets that follow what is under way and are no acknowledgement leave the session undisturbed.
LEMMA GrownUndisturbed ==
  ASSUME Undisturbed, client' = client, server'.sent = server.sent, NEW kind \in {"update", "ack", "mode"},
         Grown(toClient, toClient', kind)
  PROVE  Undisturbed'
BY DEF Undisturbed, Grown

LEMMA ProcessKeeps ==
  ASSUME IInv, Process
  PROVE  IInv'
<1>0. Types /\ Ordered(tracker.predictions, tracker.nextSequence)
  BY DEF IInv
<1>1. tracker' = tracker /\ client' = client
  BY DEF Process
<1>2. PICK blocks, A : Decided(Head(toServer), blocks, A)
  BY <1>0, ProcessLemma
<1>3. PICK a, ack : a = Head(toServer) /\ ack = Higher(server.ack, a.sequence)
  OBVIOUS
<1>4. /\ server'.sent = server.sent /\ server'.habits = server.habits /\ server'.blocks = blocks
      /\ server'.ack = ack /\ ack \in Nat /\ a.sequence \in Nat /\ a = toServer[1] /\ 1 \in 1..Len(toServer)
  BY <1>0, <1>2, <1>3, ProcessTypes
<1>5. Types'
  BY <1>0, <1>2, ProcessTypes
<1>6. \A i \in 1..Len(toServer') : i + 1 \in 1..Len(toServer) /\ toServer'[i] = toServer[i+1]
  BY <1>0, <1>2, ProcessTypes
<1>7. \A i \in 1..Len(toServer) : i = 1 \/ (i - 1 \in 1..Len(toServer') /\ toServer'[i-1] = toServer[i])
  BY <1>0, <1>2, ProcessTypes
<1>8. Tells(toClient, toClient', A, blocks) /\ Grown(toClient, toClient', "update")
  BY <1>2 DEF Decided, Tells
<1>9. ASSUME Steady' PROVE SteadyInv'
  <2>1. SteadyInv
    BY <1>4, <1>9 DEF IInv, Steady, Has
  <2>2. Undisturbed /\ Presented /\ Ahead /\ Awaited
    BY <2>1 DEF SteadyInv
  <2>3. Undisturbed'
    BY <1>1, <1>4, <1>8, <2>2, GrownUndisturbed
  <2>4. Presented'
    BY <1>1, <2>2 DEF Presented
  <2>5. PICK next : next = tracker.nextSequence
    OBVIOUS
  <2>6. server.ack \in Nat \cup {None} /\ next \in Nat
    BY <1>0, <2>5, TypesLemma
  <2>7. Ahead'
    <3>1. tracker.latestAcknowledged # None =>
            /\ tracker.latestAcknowledged < next
            /\ \A i \in 1..Len(tracker.predictions) : tracker.latestAcknowledged < tracker.predictions[i].sequence
      BY <2>2, <2>5 DEF Ahead
    <3>2. server.ack # None => server.ack < next
      BY <2>2, <2>5 DEF Ahead
    <3>3. \A i \in 1..Len(toServer) : toServer[i].sequence < next
      BY <2>2, <2>5 DEF Ahead
    <3>4. \A i \in 1..Len(toClient) : toClient[i].kind = "ack" => toClient[i].sequence < next
      BY <2>2, <2>5 DEF Ahead
    <3>5. ack < next
      <4>1. a.sequence < next
        BY <1>4, <3>3
      <4> QED BY <1>3, <3>2, <4>1 DEF Higher
    <3>6. \A i \in 1..Len(toServer') : toServer'[i].sequence < next
      BY <1>6, <3>3
    <3>7. \A i \in 1..Len(toClient') : toClient'[i].kind = "ack" => toClient'[i].sequence < next
      BY <1>8, <3>4 DEF Grown
    <3> QED BY <1>1, <1>4, <2>5, <3>1, <3>5, <3>6, <3>7 DEF Ahead
  <2>8. Awaited'
    <3>1. ASSUME NEW s \in Nat, Outstanding(s) PROVE Outstanding(s)'
      <4>1. CASE \E j \in 1..Len(toServer) : toServer[j].sequence = s
        <5>1. PICK j \in 1..Len(toServer) : toServer[j].sequence = s
          BY <4>1
        <5>2. CASE j = 1
          <6>1. a.sequence = s
            BY <1>4, <5>1, <5>2
          <6>2. ack >= s /\ ack # None
            BY PredictionAssumption, <1>3, <1>4, <2>6, <6>1 DEF Higher
          <6> QED BY <1>4, <6>2 DEF Outstanding
        <5>3. CASE j # 1
          <6>1. j - 1 \in 1..Len(toServer') /\ toServer'[j - 1] = toServer[j]
            BY <1>7, <5>3
          <6> QED BY <5>1, <6>1 DEF Outstanding
        <5> QED BY <5>2, <5>3
      <4>2. CASE server.ack # None /\ server.ack >= s
        <5>1. ack >= s /\ ack # None
          BY PredictionAssumption, <1>3, <1>4, <2>6, <4>2 DEF Higher
        <5> QED BY <1>4, <5>1 DEF Outstanding
      <4>3. CASE \E j \in 1..Len(toClient) : toClient[j].kind = "ack" /\ toClient[j].sequence >= s
        BY <1>8, <4>3 DEF Outstanding, Grown
      <4> QED BY <3>1, <4>1, <4>2, <4>3 DEF Outstanding
    <3>2. \A i \in 1..Len(tracker.predictions) : tracker.predictions[i].sequence \in Nat
      BY <1>0, TypesLemma DEF Predictions
    <3>3. ASSUME NEW i \in 1..Len(tracker.predictions) PROVE Outstanding(tracker.predictions[i].sequence)'
      <4>1. PICK s : s = tracker.predictions[i].sequence
        OBVIOUS
      <4>2. Outstanding(s) /\ s \in Nat
        BY <2>2, <3>2, <4>1 DEF Awaited
      <4> QED BY <1>1, <3>1, <4>1, <4>2
    <3> QED BY <1>1, <3>3 DEF Awaited
  <2>9. ASSUME (Has("corrects") \/ OneKind)', NEW x \in Positions PROVE Agrees(x)'
    <3>1. Agrees(x)
      BY <1>4, <2>1, <2>9 DEF SteadyInv, Has, OneKind
    <3>2. PICK b : b = Base(client, tracker.predictions, x)
      OBVIOUS
    <3>3. LastTold(toClient', x, b, blocks[x]) => Agrees(x)'
      BY <1>1, <1>4, <3>2 DEF Agrees
    <3>4. CASE x \in A /\ Must(x, blocks)
      <4>1. LastTold(toClient', x, b, blocks[x])
        BY <1>8, <3>4 DEF Tells
      <4> QED BY <3>3, <4>1
    <3>5. CASE ~(x \in A /\ Must(x, blocks))
      <4>1. blocks[x] = server.blocks[x]
        BY <1>2, <2>2, <3>5 DEF Decided, Must, Undisturbed
      <4>2. CASE LastTold(toClient, x, b, server.blocks[x])
        <5>1. LastTold(toClient', x, b, server.blocks[x])
          BY <1>8, <3>5, <4>2 DEF Tells
        <5> QED BY <3>3, <4>1, <5>1
      <4>3. CASE Has("corrects") /\ Stopping(x)
        <5>1. x \notin A
          BY <2>2, <3>5, <4>3 DEF Must, Undisturbed
        <5>2. PICK i \in 1..Len(toServer) : toServer[i].kind = "stop" /\ toServer[i].position = x
          BY <4>3 DEF Stopping
        <5>3. i # 1
          <6>1. a.kind = "stop" => a.position \in A
            BY <1>2, <1>3 DEF Decided
          <6> QED BY <1>4, <5>1, <5>2, <6>1
        <5>4. i - 1 \in 1..Len(toServer') /\ toServer'[i - 1] = toServer[i]
          BY <1>7, <5>3
        <5>5. Stopping(x)'
          BY <5>2, <5>4 DEF Stopping
        <5> QED BY <1>4, <4>3, <5>5 DEF Agrees, Has
      <4> QED BY <3>1, <3>2, <4>2, <4>3 DEF Agrees
    <3> QED BY <3>4, <3>5
  <2> QED BY <2>3, <2>4, <2>7, <2>8, <2>9 DEF SteadyInv
<1> QED BY <1>0, <1>1, <1>5, <1>9 DEF IInv


-----------------------------------------------------------------------------
(* The server acknowledges, and changes what no action asked for.          *)

\* One more packet for the client, and what the server does with it.
Says(m) ==
  /\ m \in Packets /\ m.kind \in {"update", "ack", "mode"} /\ toClient' = Append(toClient, m)
  /\ client' = client /\ tracker' = tracker /\ toServer' = toServer
  /\ server'.habits = server.habits /\ server'.sent = server.sent
  /\ m.kind = "ack" => server.ack # None /\ m.sequence = server.ack
  /\ server'.ack = server.ack \/ (server'.ack = None /\ m.kind = "ack")
  /\ \A x \in Positions : server'.blocks[x] = IF Updates(m, x) THEN m.state ELSE server.blocks[x]

LEMMA SaysKeeps ==
  ASSUME Types, SteadyInv, NEW m, Says(m)
  PROVE  SteadyInv'
<1>1. /\ m \in Packets /\ m.kind \in {"update", "ack", "mode"} /\ toClient' = Append(toClient, m)
      /\ client' = client /\ tracker' = tracker /\ toServer' = toServer
      /\ server'.habits = server.habits /\ server'.sent = server.sent
  BY DEF Says
<1>2. /\ m.kind = "ack" => server.ack # None /\ m.sequence = server.ack
      /\ server'.ack = server.ack \/ (server'.ack = None /\ m.kind = "ack")
  BY DEF Says
<1>3. \A x \in Positions : server'.blocks[x] = IF Updates(m, x) THEN m.state ELSE server.blocks[x]
  BY DEF Says
<1>4. toClient \in Seq(Packets)
  BY DEF Types
<1>5. Grown(toClient, toClient', m.kind)
  BY <1>1, <1>4, GrownAppend
<1>6. PICK n : n = Len(toClient) + 1
  OBVIOUS
<1>7. /\ n \in 1..Len(toClient') /\ toClient'[n] = m
      /\ \A i \in 1..Len(toClient) : i \in 1..Len(toClient') /\ toClient'[i] = toClient[i]
      /\ \A i \in 1..Len(toClient') : i = n \/ i \in 1..Len(toClient)
  <2>1. PICK r : r = toClient'
    OBVIOUS
  <2>2. r = Append(toClient, m)
    BY <1>1, <2>1
  <2>3. /\ Len(r) = n /\ n \in Nat /\ n >= 1 /\ r[n] = m /\ Len(toClient) = n - 1
        /\ \A i \in 1..Len(toClient) : r[i] = toClient[i]
    BY <1>1, <1>4, <1>6, <2>2, AppendLemma
  <2> QED BY <2>1, <2>3
<1>8. Undisturbed /\ Presented /\ Ahead /\ Awaited
  BY DEF SteadyInv
<1>9. Undisturbed'
  BY <1>1, <1>5, <1>8, GrownUndisturbed
<1>10. Presented'
  BY <1>1, <1>8 DEF Presented
<1>11. Ahead'
  <2>1. PICK next : next = tracker.nextSequence
    OBVIOUS
  <2>2. tracker.latestAcknowledged # None =>
          /\ tracker.latestAcknowledged < next
          /\ \A i \in 1..Len(tracker.predictions) : tracker.latestAcknowledged < tracker.predictions[i].sequence
    BY <1>8, <2>1 DEF Ahead
  <2>3. server.ack # None => server.ack < next
    BY <1>8, <2>1 DEF Ahead
  <2>4. \A i \in 1..Len(toServer) : toServer[i].sequence < next
    BY <1>8, <2>1 DEF Ahead
  <2>5. \A i \in 1..Len(toClient) : toClient[i].kind = "ack" => toClient[i].sequence < next
    BY <1>8, <2>1 DEF Ahead
  <2>6. \A i \in 1..Len(toClient') : toClient'[i].kind = "ack" => toClient'[i].sequence < next
    BY <1>2, <1>7, <2>3, <2>5
  <2>7. server'.ack # None => server'.ack < next
    BY <1>2, <2>3
  <2> QED BY <1>1, <2>1, <2>2, <2>4, <2>6, <2>7 DEF Ahead
<1>12. Awaited'
  <2>1. server.ack \in Nat \cup {None}
    BY TypesLemma
  <2>2. ASSUME NEW s, Outstanding(s) PROVE Outstanding(s)'
    <3>1. CASE \E j \in 1..Len(toServer) : toServer[j].sequence = s
      BY <1>1, <3>1 DEF Outstanding
    <3>2. CASE server.ack # None /\ server.ack >= s
      <4>1. CASE server'.ack = server.ack
        BY <3>2, <4>1 DEF Outstanding
      <4>2. CASE m.kind = "ack"
        BY <1>2, <1>7, <3>2, <4>2 DEF Outstanding
      <4> QED BY <1>2, <4>1, <4>2
    <3>3. CASE \E j \in 1..Len(toClient) : toClient[j].kind = "ack" /\ toClient[j].sequence >= s
      <4>1. PICK j \in 1..Len(toClient) : toClient[j].kind = "ack" /\ toClient[j].sequence >= s
        BY <3>3
      <4>2. j \in 1..Len(toClient') /\ toClient'[j] = toClient[j]
        BY <1>7
      <4> QED BY <4>1, <4>2 DEF Outstanding
    <3> QED BY <2>2, <3>1, <3>2, <3>3 DEF Outstanding
  <2>3. ASSUME NEW i \in 1..Len(tracker.predictions) PROVE Outstanding(tracker.predictions[i].sequence)'
    <3>1. PICK s : s = tracker.predictions[i].sequence
      OBVIOUS
    <3>2. Outstanding(s)
      BY <1>8, <3>1 DEF Awaited
    <3> QED BY <1>1, <2>2, <3>1, <3>2
  <2> QED BY <1>1, <2>3 DEF Awaited
<1>13. ASSUME (Has("corrects") \/ OneKind)', NEW x \in Positions PROVE Agrees(x)'
  <2>1. Agrees(x)
    BY <1>1, <1>13 DEF SteadyInv, Has, OneKind
  <2>2. PICK b : b = Base(client, tracker.predictions, x)
    OBVIOUS
  <2>3. CASE Has("corrects") /\ Stopping(x)
    <3>1. Stopping(x)'
      BY <1>1, <2>3 DEF Stopping
    <3> QED BY <1>1, <2>3, <3>1 DEF Agrees, Has
  <2>4. CASE LastTold(toClient, x, b, server.blocks[x])
    <3>1. CASE Updates(m, x)
      <4>1. LastTold(Append(toClient, m), x, b, m.state)
        BY <1>1, <1>4, <3>1, ToldUpdate
      <4>2. server'.blocks[x] = m.state
        BY <1>3, <3>1
      <4> QED BY <1>1, <2>2, <4>1, <4>2 DEF Agrees
    <3>2. CASE ~Updates(m, x)
      <4>1. PICK s : s = server.blocks[x]
        OBVIOUS
      <4>2. LastTold(Append(toClient, m), x, b, s)
        BY <1>1, <1>4, <2>4, <3>2, <4>1, ToldAppend
      <4>3. server'.blocks[x] = s
        BY <1>3, <3>2, <4>1
      <4> QED BY <1>1, <2>2, <4>2, <4>3 DEF Agrees
    <3> QED BY <3>1, <3>2
  <2> QED BY <2>1, <2>2, <2>3, <2>4 DEF Agrees
<1> QED BY <1>9, <1>10, <1>11, <1>12, <1>13 DEF SteadyInv

\* A step of the server that leaves the ledger alone.
LEMMA ServerTypes ==
  ASSUME Types, UNCHANGED <<client, tracker, creative, placed, toServer>>,
         server' \in Servers, toClient' \in Seq(Packets), budget' \in Nat
  PROVE  Types'
BY DEF Types

LEMMA SendAckKeeps ==
  ASSUME IInv, SendAck
  PROVE  IInv'
<1>0. Types /\ Ordered(tracker.predictions, tracker.nextSequence) /\ (Steady => SteadyInv)
  BY DEF IInv
<1>1. /\ server.ack # None /\ server' = [server EXCEPT !.ack = None] /\ budget' = budget
      /\ UNCHANGED <<client, tracker, creative, placed, toServer>>
  BY DEF SendAck
<1>2. PICK m : m = [kind |-> "ack", sequence |-> server.ack]
  OBVIOUS
<1>3. toClient' = Append(toClient, m)
  BY <1>2 DEF SendAck
<1>4. server \in Servers /\ toClient \in Seq(Packets) /\ budget \in Nat
  BY <1>0 DEF Types
<1>5. /\ server' \in Servers /\ server'.ack = None /\ server'.habits = server.habits
      /\ server'.sent = server.sent /\ server'.blocks = server.blocks
  BY <1>1, <1>4 DEF Servers
<1>6. m \in Packets /\ m.kind = "ack" /\ m.sequence = server.ack
  BY <1>1, <1>2, <1>4 DEF Servers, Packets
<1>7. toClient' \in Seq(Packets)
  BY <1>3, <1>4, <1>6, AppendLemma
<1>8. Types'
  BY <1>0, <1>1, <1>4, <1>5, <1>7, ServerTypes
<1>9. Says(m)
  BY <1>1, <1>3, <1>5, <1>6 DEF Says, Updates
<1>10. Steady' => Steady
  BY <1>5 DEF Steady, Has
<1>11. Steady' => SteadyInv'
  BY <1>0, <1>9, <1>10, SaysKeeps
<1> QED BY <1>0, <1>1, <1>8, <1>11 DEF IInv

LEMMA ChangeBlockKeeps ==
  ASSUME IInv, NEW p \in Positions, NEW s \in States, ChangeBlock(p, s)
  PROVE  IInv'
<1>0. Types /\ Ordered(tracker.predictions, tracker.nextSequence) /\ (Steady => SteadyInv)
  BY DEF IInv
<1>1. /\ server' = [server EXCEPT !.blocks[p] = s] /\ budget > 0 /\ budget' = budget - 1
      /\ UNCHANGED <<client, tracker, creative, placed, toServer>>
  BY DEF ChangeBlock
<1>2. PICK m : m = Announce(p, s)
  OBVIOUS
<1>3. toClient' = IF server.sent THEN Append(toClient, m) ELSE toClient
  BY <1>2 DEF ChangeBlock
<1>4. server \in Servers /\ toClient \in Seq(Packets) /\ budget \in Nat
  BY <1>0 DEF Types
<1>5. PICK old : old = server.blocks
  OBVIOUS
<1>6. old \in [Positions -> States]
  BY <1>4, <1>5 DEF Servers
<1>7. PICK blocks : blocks = [old EXCEPT ![p] = s]
  OBVIOUS
<1>8. blocks \in [Positions -> States] /\ \A x \in Positions : blocks[x] = IF x = p THEN s ELSE old[x]
  BY <1>6, <1>7
<1>9. server' = [server EXCEPT !.blocks = blocks]
  BY <1>1, <1>4, <1>5, <1>7 DEF Servers
<1>10. /\ server' \in Servers /\ server'.ack = server.ack /\ server'.habits = server.habits
       /\ server'.sent = server.sent /\ server'.blocks = blocks
  BY <1>4, <1>8, <1>9 DEF Servers
<1>11. m \in Packets /\ m.kind = "update" /\ m.state = s /\ m.position = p
  BY <1>2 DEF Announce, Packets
<1>12. toClient' \in Seq(Packets)
  BY <1>3, <1>4, <1>11, AppendLemma
<1>13. budget' \in Nat
  BY <1>1, <1>4
<1>14. Types'
  BY <1>0, <1>1, <1>10, <1>12, <1>13, ServerTypes
<1>15. ASSUME Steady' PROVE SteadyInv'
  <2>1. SteadyInv
    BY <1>0, <1>10, <1>15 DEF Steady, Has
  <2>2. server.sent
    BY <2>1 DEF SteadyInv, Undisturbed
  <2>3. \A x \in Positions : Updates(m, x) <=> x = p
    BY <1>11 DEF Updates
  <2>4. \A x \in Positions : server'.blocks[x] = IF Updates(m, x) THEN m.state ELSE server.blocks[x]
    BY <1>5, <1>8, <1>10, <1>11, <2>3
  <2>5. Says(m)
    BY <1>1, <1>3, <1>10, <1>11, <2>2, <2>4 DEF Says
  <2> QED BY <1>0, <2>1, <2>5, SaysKeeps
<1> QED BY <1>0, <1>1, <1>14, <1>15 DEF IInv

LEMMA ChangeModeKeeps ==
  ASSUME IInv, ChangeMode
  PROVE  IInv'
<1>0. Types /\ Ordered(tracker.predictions, tracker.nextSequence) /\ (Steady => SteadyInv)
  BY DEF IInv
<1>1. PICK mode : mode = ~server.creative
  OBVIOUS
<1>2. PICK m : m = [kind |-> "mode", creative |-> mode]
  OBVIOUS
<1>3. /\ toClient' = Append(toClient, m) /\ budget > 0 /\ budget' = budget - 1
      /\ UNCHANGED <<client, tracker, creative, placed, toServer>>
  BY <1>1, <1>2 DEF ChangeMode
<1>4. server \in Servers /\ toClient \in Seq(Packets) /\ budget \in Nat
  BY <1>0 DEF Types
<1>5. server' = [server EXCEPT !.creative = mode]
  BY <1>1, <1>4 DEF ChangeMode, Servers
<1>6. mode \in BOOLEAN
  BY <1>1
<1>7. /\ server' \in Servers /\ server'.ack = server.ack /\ server'.habits = server.habits
      /\ server'.sent = server.sent /\ server'.blocks = server.blocks
  BY <1>4, <1>5, <1>6 DEF Servers
<1>8. m \in Packets /\ m.kind = "mode"
  BY <1>2, <1>6 DEF Packets
<1>9. toClient' \in Seq(Packets) /\ budget' \in Nat
  BY <1>3, <1>4, <1>8, AppendLemma
<1>10. Types'
  BY <1>0, <1>3, <1>7, <1>9, ServerTypes
<1>11. Says(m)
  BY <1>3, <1>7, <1>8 DEF Says, Updates
<1>12. Steady' => Steady
  BY <1>7 DEF Steady, Has
<1>13. Steady' => SteadyInv'
  BY <1>0, <1>11, <1>12, SaysKeeps
<1> QED BY <1>0, <1>3, <1>10, <1>13 DEF IInv

\* What replaces the world or the session is the habit of a server that is not steady.
LEMMA DisturbersKeep ==
  ASSUME IInv, UnloadChunk \/ SendChunk \/ Respawn
  PROVE  IInv'
<1>0. Types /\ Ordered(tracker.predictions, tracker.nextSequence)
  BY DEF IInv
<1>1. server \in Servers /\ toClient \in Seq(Packets) /\ budget \in Nat
  BY <1>0 DEF Types
<1>2. UNCHANGED <<client, tracker, creative, placed, toServer>> /\ (Has("reloads") \/ Has("respawns"))
  BY DEF UnloadChunk, SendChunk, Respawn
<1>3. server' \in Servers /\ server'.habits = server.habits
  <2>1. \E sent \in BOOLEAN : server' = [server EXCEPT !.sent = sent]
    <3>1. CASE UnloadChunk
      BY <3>1 DEF UnloadChunk
    <3>2. CASE SendChunk
      BY <3>2 DEF SendChunk
    <3>3. CASE Respawn
      BY <1>1, <3>3 DEF Respawn, Servers
    <3> QED BY <3>1, <3>2, <3>3
  <2> QED BY <1>1, <2>1 DEF Servers
<1>4. budget' \in Nat
  <2>1. server.sent \in BOOLEAN
    BY <1>1 DEF Servers
  <2>2. budget' = budget \/ (budget > 0 /\ budget' = budget - 1)
    BY <2>1 DEF UnloadChunk, SendChunk, Respawn
  <2> QED BY <1>1, <2>2
<1>5. PICK u, r, p, c : /\ u = [kind |-> "unload"] /\ r = [kind |-> "respawn"] /\ p = [kind |-> "position"]
                        /\ c = [kind |-> "chunk", blocks |-> server.blocks]
  OBVIOUS
<1>6. u \in Packets /\ r \in Packets /\ p \in Packets
  BY <1>5 DEF Packets
<1>7. c \in Packets
  BY <1>1, <1>5 DEF Packets, Servers
<1>8. toClient' \in Seq(Packets)
  <2>1. CASE UnloadChunk
    BY <1>1, <1>5, <1>6, <2>1, AppendLemma DEF UnloadChunk
  <2>2. CASE SendChunk
    BY <1>1, <1>5, <1>7, <2>2, AppendLemma DEF SendChunk
  <2>3. CASE Respawn
    <3>1. toClient' = toClient \o <<r, p, c>>
      BY <1>5, <2>3 DEF Respawn
    <3>2. <<r, p, c>> \in Seq(Packets)
      BY <1>6, <1>7
    <3> QED BY <1>1, <3>1, <3>2, ConcatProperties
  <2> QED BY <2>1, <2>2, <2>3
<1>9. Types'
  BY <1>0, <1>2, <1>3, <1>4, <1>8, ServerTypes
<1>10. ~Steady'
  BY <1>2, <1>3 DEF Steady, Has
<1> QED BY <1>0, <1>2, <1>9, <1>10 DEF IInv


-----------------------------------------------------------------------------
(* The theorems.                                                           *)

LEMMA InitInv ==
  Init => IInv
<1> SUFFICES ASSUME Init PROVE IInv
  OBVIOUS
<1>1. PICK habits \in Habits :
        /\ creative \in IF "modes" \in habits THEN BOOLEAN ELSE {FALSE}
        /\ server = [habits |-> habits, blocks |-> client, creative |-> creative, ack |-> None, sent |-> TRUE]
  BY DEF Init
<1>2. /\ client \in [Positions -> States] /\ tracker = NewTracker /\ placed = TRUE
      /\ toServer = <<>> /\ toClient = <<>> /\ budget \in Nat
  BY PredictionAssumption DEF Init
<1>3. creative \in BOOLEAN
  BY <1>1
<1>4. /\ server \in Servers /\ server.blocks = client /\ server.ack = None /\ server.sent
  BY <1>1, <1>2, <1>3 DEF Servers
<1>5. /\ tracker \in Trackers /\ tracker.predictions = <<>> /\ tracker.latestAcknowledged = None
      /\ tracker.nextSequence = 0
  <2>1. DestroyDelay \in Nat
    BY PredictionAssumption
  <2>2. <<>> \in Seq(Predictions)
    BY EmptySeq
  <2> QED BY <1>2, <2>1, <2>2 DEF NewTracker, Trackers
<1>6. Len(<<>>) = 0 /\ 1..0 = {} /\ toServer \in Seq(Actions) /\ toClient \in Seq(Packets)
  BY <1>2, EmptySeq
<1>7. client \in [Positions -> States \cup {Unloaded}]
  BY <1>2
<1>8. Types
  BY <1>2, <1>3, <1>4, <1>5, <1>6, <1>7 DEF Types
<1>9. Ordered(tracker.predictions, tracker.nextSequence)
  <2>1. MaxPredictions >= 0
    BY PredictionAssumption
  <2> QED BY <1>5, <1>6, <2>1 DEF Ordered
<1>10. Undisturbed
  <2>1. \A p \in Positions : client[p] # Unloaded
    BY PredictionAssumption, <1>2
  <2> QED BY <1>2, <1>4, <1>6, <2>1 DEF Undisturbed
<1>11. Presented /\ Awaited
  BY <1>5, <1>6 DEF Presented, Awaited
<1>12. Ahead
  BY <1>2, <1>4, <1>5, <1>6 DEF Ahead
<1>13. ASSUME NEW p \in Positions PROVE Agrees(p)
  <2>1. PICK b : b = Base(client, tracker.predictions, p)
    OBVIOUS
  <2>2. b = client[p]
    <3>1. tracker.predictions \in Seq(Predictions)
      BY <1>5, EmptySeq
    <3>2. \A i \in 1..Len(tracker.predictions) : tracker.predictions[i].position # p
      BY <1>5, <1>6
    <3> QED BY <2>1, <3>1, <3>2, BaseShown
  <2>3. LastTold(toClient, p, b, server.blocks[p])
    BY <1>2, <1>4, <1>6, <2>2 DEF LastTold
  <2> QED BY <2>1, <2>3 DEF Agrees
<1> QED BY <1>8, <1>9, <1>10, <1>11, <1>12, <1>13 DEF IInv, SteadyInv

LEMMA NextInv ==
  IInv /\ [Next]_vars => IInv'
<1> SUFFICES ASSUME IInv, [Next]_vars PROVE IInv'
  OBVIOUS
<1>1. CASE TickStep
  <2>1. PICK target \in Targets : \E use \in Uses(target) :
          \/ Tick(target, FALSE, FALSE, use)
          \/ \E edge \in BOOLEAN : Tick(target, TRUE, edge, use)
    BY <1>1 DEF TickStep
  <2>2. PICK use \in Uses(target), attack \in BOOLEAN, edge \in BOOLEAN : Tick(target, attack, edge, use)
    BY <2>1
  <2> QED BY <2>2, TickKeeps
<1>2. CASE Receive
  <2>1. CASE ReceiveUpdate
    BY <2>1, UpdateKeeps
  <2>2. CASE ReceiveAck /\ Fresh(Head(toClient).sequence)
    BY <2>2, FreshAckKeeps
  <2>3. CASE ReceiveAck /\ ~Fresh(Head(toClient).sequence)
    BY <2>3, StaleAckKeeps
  <2>4. CASE ReceiveChunk \/ ReceiveUnload \/ ReceiveRespawn \/ ReceivePosition
    BY <2>4, OtherPacketsKeep
  <2>5. CASE ReceiveMode
    BY <2>5, ModeKeeps
  <2> QED BY <1>2, <2>1, <2>2, <2>3, <2>4, <2>5 DEF Receive
<1>3. CASE ServerStep
  <2>1. CASE Process
    BY <2>1, ProcessKeeps
  <2>2. CASE SendAck
    BY <2>2, SendAckKeeps
  <2>3. CASE \E p \in Positions, s \in States : ChangeBlock(p, s)
    BY <2>3, ChangeBlockKeeps
  <2>4. CASE ChangeMode
    BY <2>4, ChangeModeKeeps
  <2>5. CASE UnloadChunk \/ SendChunk \/ Respawn
    BY <2>5, DisturbersKeep
  <2> QED BY <1>3, <2>1, <2>2, <2>3, <2>4, <2>5 DEF ServerStep
<1>4. CASE UNCHANGED vars
  <2>1. /\ client' = client /\ tracker' = tracker /\ creative' = creative /\ placed' = placed /\ server' = server
        /\ toServer' = toServer /\ toClient' = toClient /\ budget' = budget
    BY <1>4 DEF vars
  <2>2. Types' /\ Ordered(tracker.predictions, tracker.nextSequence)'
    BY <2>1 DEF IInv, Types
  <2>3. ASSUME Steady' PROVE SteadyInv'
    <3>1. SteadyInv
      BY <2>1, <2>3 DEF IInv, Steady, Has
    <3>2. Undisturbed' /\ Presented' /\ Ahead'
      BY <2>1, <3>1 DEF SteadyInv, Undisturbed, Presented, Ahead
    <3>3. Awaited'
      BY <2>1, <3>1 DEF SteadyInv, Awaited, Outstanding
    <3>4. ASSUME (Has("corrects") \/ OneKind)', NEW p \in Positions PROVE Agrees(p)'
      <4>1. Agrees(p)
        BY <2>1, <3>1, <3>4 DEF SteadyInv, Has, OneKind
      <4> QED BY <2>1, <4>1 DEF Agrees, Has, Stopping
    <3> QED BY <3>2, <3>3, <3>4 DEF SteadyInv
  <2> QED BY <2>2, <2>3 DEF IInv
<1> QED BY <1>1, <1>2, <1>3, <1>4 DEF Next

\* The ledger's invariant: the queue is ordered and, in a steady world, shown on screen, ahead of
\* what was acknowledged, covered by an action or an acknowledgement under way, and its retained
\* state is the server's once what is under way has arrived.
THEOREM Inductive == Spec => []IInv
BY InitInv, NextInv, PTL DEF Spec

\* The types of the tracker, the world and both channels, and the order and the bound of the
\* prediction queue.
THEOREM TypeCorrect == Spec => []TypeOK
<1>1. IInv => TypeOK
  <2> SUFFICES ASSUME IInv PROVE TypeOK
    OBVIOUS
  <2>1. Types /\ Ordered(tracker.predictions, tracker.nextSequence)
    BY DEF IInv
  <2>2. \A t \in Trackers : t \in [activeBreak : [position : Positions, state : States] \cup {None},
                  destroyDelay : 0..DestroyDelay, nextSequence : Nat,
                  latestAcknowledged : Nat \cup {None}, predictions : Seq(Predictions)]
    <3>1. Breakable \subseteq States
      BY PredictionAssumption
    <3> QED BY <3>1 DEF Trackers
  <2>3. Actions \subseteq Frames
    BY DEF Actions, Frames
  <2>4. toServer \in Seq(Frames)
    <3>1. Len(toServer) \in Nat /\ \A i \in 1..Len(toServer) : toServer[i] \in Frames
      BY <2>1, <2>3, TypesLemma
    <3>2. toServer = [i \in 1..Len(toServer) |-> toServer[i]]
      BY <2>1, SeqDef DEF Types
    <3> QED BY <3>1, <3>2, SeqDef
  <2>5. QueueOrdered
    <3>1. DOMAIN tracker.predictions = 1..Len(tracker.predictions)
      BY <2>1, TypesLemma, LenProperties
    <3> QED BY <2>1, <3>1 DEF QueueOrdered, Ordered
  <2>6. tracker \in [activeBreak : [position : Positions, state : States] \cup {None},
                  destroyDelay : 0..DestroyDelay, nextSequence : Nat,
                  latestAcknowledged : Nat \cup {None}, predictions : Seq(Predictions)]
    BY <2>1, <2>2 DEF Types
  <2>7. server \in [habits : Habits, blocks : [Positions -> States], creative : BOOLEAN,
                 ack : Nat \cup {None}, sent : BOOLEAN]
    BY <2>1 DEF Types, Servers
  <2> QED BY <2>1, <2>4, <2>5, <2>6, <2>7 DEF TypeOK, Types
<1> QED BY <1>1, Inductive, PTL

\* No prediction flickers: in a steady world the client shows what it predicted until an
\* acknowledgement covers it.
THEOREM NoFlicker == Spec => []PredictionShown
<1>1. IInv => PredictionShown
  <2> SUFFICES ASSUME IInv, Steady PROVE \A i \in DOMAIN tracker.predictions :
                 client[tracker.predictions[i].position] = tracker.predictions[i].expected
    BY DEF PredictionShown
  <2>1. Types /\ Presented
    BY DEF IInv, SteadyInv
  <2>2. DOMAIN tracker.predictions = 1..Len(tracker.predictions)
    BY <2>1, TypesLemma, LenProperties
  <2> QED BY <2>1, <2>2 DEF Presented
<1> QED BY <1>1, Inductive, PTL

\* Once everything in flight has been processed, no prediction is left and the client shows the
\* server's blocks: of a server that corrects every action, or where there is one kind of block.
THEOREM ServerPrevails == Spec => []SteadyServerWins
<1>1. IInv => SteadyServerWins
  <2> SUFFICES ASSUME IInv, Steady, Has("corrects") \/ OneKind, Quiet
               PROVE tracker.predictions = <<>> /\ client = server.blocks
    BY DEF SteadyServerWins, ServerWins
  <2>1. Types /\ SteadyInv
    BY DEF IInv
  <2>2. Undisturbed /\ Awaited /\ \A p \in Positions : Agrees(p)
    BY <2>1 DEF SteadyInv
  <2>3. toServer = <<>> /\ toClient = <<>> /\ server.ack = None
    BY DEF Quiet
  <2>4. Len(<<>>) = 0 /\ 1..0 = {}
    BY EmptySeq
  <2>5. \A s : ~Outstanding(s)
    BY <2>3, <2>4 DEF Outstanding
  <2>6. Len(tracker.predictions) \in Nat /\ tracker.predictions \in Seq(Predictions)
    BY <2>1, TypesLemma
  <2>7. ~(1 \in 1..Len(tracker.predictions))
    BY <2>2, <2>5 DEF Awaited
  <2>8. Len(tracker.predictions) = 0
    BY <2>6, <2>7
  <2>9. tracker.predictions = <<>>
    BY <2>6, <2>8, EmptySeq
  <2>10. \A p \in Positions : client[p] = server.blocks[p]
    <3> TAKE p \in Positions
    <3>1. PICK b : b = Base(client, tracker.predictions, p)
      OBVIOUS
    <3>2. b = client[p]
      <4>1. \A i \in 1..Len(tracker.predictions) : tracker.predictions[i].position # p
        BY <2>4, <2>8
      <4> QED BY <2>6, <3>1, <4>1, BaseShown
    <3>3. ~Stopping(p)
      BY <2>3, <2>4 DEF Stopping
    <3>4. LastTold(toClient, p, b, server.blocks[p])
      BY <2>2, <3>1, <3>3 DEF Agrees
    <3> QED BY <2>3, <2>4, <3>2, <3>4 DEF LastTold
  <2>11. client = server.blocks
    <3>1. client \in [Positions -> States \cup {Unloaded}] /\ server.blocks \in [Positions -> States]
      BY <2>1, TypesLemma DEF Types
    <3> QED BY <2>10, <3>1
  <2> QED BY <2>9, <2>11
<1> QED BY <1>1, Inductive, PTL
=============================================================================
