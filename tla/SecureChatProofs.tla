-------------------------- MODULE SecureChatProofs --------------------------
(***************************************************************************)
(* Proofs about signed chat, for every capacity, threshold and number of   *)
(* messages, chats and sessions.                                           *)
(*                                                                         *)
(* What travels in either direction is described by a walk: a function     *)
(* from the positions of a queue to what its receiver will know when it    *)
(* has taken the messages before that position.  A walk starts at what the *)
(* receiver knows and ends at what the sender assumes, so appending a      *)
(* message extends it and receiving one drops its first step.              *)
(***************************************************************************)
EXTENDS SecureChat, SequenceTheorems, TLAPS

Places == [signature : Signatures \cup {None}, pending : BOOLEAN]

UpMessages ==
  [kind : {"session"}, session : Nat] \cup [kind : {"ack"}, count : Nat]
  \cup [kind : {"configured"}]
  \cup [kind : {"chat"}, session : Nat \cup {None}, index : Nat, offset : Nat,
        window : [1..Capacity -> Nat \cup {None}]]

DownMessages ==
  [kind : {"chat"}, index : Nat, signature : Signatures \cup {None}]
  \cup [kind : {"configure"}] \cup [kind : {"login"}]

ChatRecords ==
  [authenticated : Securities,
   sequence : [session : 1..MaxSessions, outgoing : 0..MaxChats,
               incoming : 0..MaxMessages,
               entries : [1..Capacity -> Signatures \cup {None}],
               last : Signatures \cup {None}, offset : 0..MaxMessages],
   expired : BOOLEAN, phase : {"play", "configuration", "failed"},
   chats : 0..MaxChats, lost : BOOLEAN]

ServerRecords ==
  [phase : {"play", "awaiting"}, session : Nat \cup {None}, index : 0..MaxMessages, chain : Nat,
   sent : 0..MaxMessages, signed : 0..MaxMessages, last : Signatures \cup {None},
   tracked : Seq(Places), sessions : 1..MaxSessions, fault : BOOLEAN, repeated : BOOLEAN]

Types ==
  /\ chat \in ChatRecords /\ chat.sequence.outgoing <= chat.chats
  /\ server \in ServerRecords
  /\ server.index <= server.sent /\ server.signed <= server.sent
  /\ server.last # None => server.last <= server.signed
  /\ down \in Seq(DownMessages) /\ up \in Seq(UpMessages)

\* Where the control messages of a reconfiguration can be.
InTurn ==
  /\ \A i \in 1..Len(down) :
       /\ down[i].kind = "configure" => i = Len(down)
       /\ down[i].kind = "login" => i = 1 /\ up = <<>>
  /\ \A i \in 1..Len(up) :
       up[i].kind = "configured" => i = Len(up) /\ down = <<>> /\ chat.phase = "configuration"
  /\ chat.phase = "configuration" =>
       down # <<>> \/ (up # <<>> /\ up[Len(up)].kind = "configured")

-----------------------------------------------------------------------------
(* The walk along down: what the client has seen of the signed messages    *)
(* and of the global index, its phase and its session.                     *)

Views(signed) ==
  [seen : 0..signed, last : Signatures \cup {None}, incoming : 0..MaxMessages,
   phase : {"play", "configuration"}, session : 1..MaxSessions]

\* A player chat is unsigned, repeats the last signature, or carries the next one.
DownStep(repeated, a, m, b) ==
  \/ /\ m.kind = "chat" /\ a.phase = "play" /\ m.index = a.incoming
     /\ m.signature = None \/ (m.signature = a.last /\ repeated)
     /\ b = [a EXCEPT !.incoming = a.incoming + 1]
  \/ /\ m.kind = "chat" /\ a.phase = "play" /\ m.index = a.incoming
     /\ m.signature = a.seen + 1 /\ m.signature # a.last
     /\ b = [a EXCEPT !.incoming = a.incoming + 1, !.seen = a.seen + 1, !.last = m.signature]
  \/ /\ m.kind = "configure" /\ a.phase = "play"
     /\ b = [a EXCEPT !.phase = "configuration", !.session = a.session + 1]
  \/ /\ m.kind = "login" /\ a.phase = "configuration"
     /\ b = [a EXCEPT !.phase = "play", !.incoming = 0, !.last = None]

DownWalk(signed, repeated, q, d) ==
  /\ d \in [Nat -> Views(signed)]
  /\ \A i \in 1..Len(q) : DownStep(repeated, d[i-1], q[i], d[i])

\* What the client knows ...
ClientView(a) ==
  /\ a.phase = chat.phase
  /\ Authenticated =>
       /\ a.session = (IF chat.phase = "play" THEN chat.sequence.session ELSE chat.sequence.session + 1)
       /\ chat.phase = "play" => a.last = chat.sequence.last /\ a.incoming = chat.sequence.incoming
       /\ chat.sequence.offset <= a.seen /\ chat.sequence.offset <= Threshold

\* ... and what the server takes for granted.
ServerView ==
  [seen |-> server.signed, last |-> server.last, incoming |-> server.index,
   phase |-> IF server.phase = "play" THEN "play" ELSE "configuration", session |-> server.sessions]

-----------------------------------------------------------------------------
(* The walk along up: how many signed messages were reported to the        *)
(* server, and its place in the chain.  The client decides once, for each  *)
(* place, whether it claims it: record maps the places to the claims.      *)

Reports(seen) == [at : 0..seen, chain : Nat, session : Nat \cup {None}]

UpStep(auth, seen, record, a, m, b) ==
  \/ m.kind = "session" /\ b = [at |-> a.at, chain |-> 0, session |-> m.session]
  \/ m.kind = "ack" /\ b = [a EXCEPT !.at = a.at + m.count]
  \/ /\ m.kind = "chat" /\ m.session = a.session /\ m.index = a.chain
     /\ b = [at |-> a.at + m.offset, chain |-> IF auth THEN a.chain + 1 ELSE a.chain, session |-> a.session]
     /\ \A k \in 1..Capacity : m.window[k] = record[b.at + k]
  \/ m.kind = "configured" /\ b = [at |-> seen, chain |-> 0, session |-> None]

Records == [Nat -> Nat \cup {None}]

UpWalk(auth, seen, record, q, g) ==
  /\ g \in [Nat -> Reports(seen)]
  /\ \A i \in 1..Len(q) : UpStep(auth, seen, record, g[i-1], q[i], g[i])

\* The server's record of the messages fits the client's, as far as the client has seen them.
Tracks(tracked, at, seen, record) ==
  \A k \in 1..Len(tracked) :
    IF at + k <= seen + Capacity
    THEN PlaceFits(tracked[k], record[at + k])
    ELSE tracked[k].pending /\ tracked[k].signature # None /\ tracked[k].signature + Capacity = at + k

ServerReport(a, seen, record) ==
  /\ a.chain = server.chain /\ a.session = server.session
  /\ a.at + Len(server.tracked) = server.signed + Capacity
  /\ Tracks(server.tracked, a.at, seen, record)

\* The window is what is recorded of the last places the client has seen.
ClientReport(a, seen, record) ==
  /\ IF Authenticated /\ chat.phase = "play"
     THEN /\ a.at + chat.sequence.offset = seen
          /\ a.chain = chat.sequence.outgoing /\ a.session = chat.sequence.session
          /\ \A k \in 1..Capacity : chat.sequence.entries[k] = record[seen + k]
     ELSE a.at = seen /\ a.chain = 0 /\ a.session = None
  /\ ~Authenticated => \A p \in Nat : record[p] = None
  /\ chat.phase = "configuration" /\ up = <<>> => \A k \in 1..Capacity : record[seen + k] = None

\* Nothing happened that loses or repeats a report.
Sound == ~chat.lost /\ (Authenticated \/ ~server.repeated)

Reported(seen) ==
  \E g, record :
    /\ record \in Records /\ UpWalk(chat.authenticated, seen, record, up, g)
    /\ ServerReport(g[0], seen, record) /\ ClientReport(g[Len(up)], seen, record)

IInv ==
  /\ Types /\ InTurn
  /\ \E d :
       /\ DownWalk(server.signed, server.repeated, down, d)
       /\ ClientView(d[0]) /\ d[Len(down)] = ServerView
       /\ Sound => ~server.fault /\ Reported(d[0].seen)

USE ChatAssumption

-----------------------------------------------------------------------------
(* Queues and walks.                                                       *)

LEMMA TailLemma ==
  ASSUME NEW M, NEW q \in Seq(M), q # <<>>
  PROVE  /\ Len(q) \in Nat /\ Len(q) >= 1 /\ Head(q) = q[1] /\ Head(q) \in M
         /\ Tail(q) \in Seq(M) /\ Len(Tail(q)) = Len(q) - 1
         /\ \A i \in 1..Len(Tail(q)) : Tail(q)[i] = q[i+1] /\ i + 1 \in 1..Len(q)
         /\ (Len(q) = 1 => Tail(q) = <<>>)
<1>1. Len(q) \in Nat /\ Len(q) >= 1
  BY EmptySeq
<1>2. /\ Head(q) \in M /\ Tail(q) \in Seq(M) /\ Len(Tail(q)) = Len(q) - 1
      /\ \A i \in 1..Len(Tail(q)) : Tail(q)[i] = q[i+1]
  BY HeadTailProperties
<1>3. Head(q) = q[1]
  BY <1>1
<1>4. ASSUME Len(q) = 1 PROVE Tail(q) = <<>>
  <2>1. Len(Tail(q)) = 0
    BY <1>2, <1>4
  <2>2. Tail(q) # <<>> => Len(Tail(q)) \in Nat \ {0}
    BY <1>2, EmptySeq
  <2> QED BY <2>1, <2>2
<1> QED BY <1>1, <1>2, <1>3, <1>4

LEMMA AppendLemma ==
  ASSUME NEW M, NEW q \in Seq(M), NEW m \in M
  PROVE  /\ Append(q, m) \in Seq(M) /\ Len(Append(q, m)) = Len(q) + 1 /\ Len(q) \in Nat
         /\ Append(q, m)[Len(q) + 1] = m
         /\ \A i \in 1..Len(q) : Append(q, m)[i] = q[i]
         /\ Append(q, m) # <<>>
<1>1. /\ Append(q, m) \in Seq(M) /\ Len(Append(q, m)) = Len(q) + 1
      /\ Append(q, m)[Len(q) + 1] = m
      /\ \A i \in 1..Len(q) : Append(q, m)[i] = q[i]
  BY AppendProperties
<1>2. Len(q) \in Nat
  BY LenProperties
<1> QED BY <1>1, <1>2, EmptySeq

LEMMA DownTail ==
  ASSUME NEW signed \in Nat, NEW repeated, NEW q \in Seq(DownMessages), q # <<>>, NEW d,
         DownWalk(signed, repeated, q, d)
  PROVE  /\ DownStep(repeated, d[0], Head(q), d[1]) /\ d[0] \in Views(signed) /\ d[1] \in Views(signed)
         /\ \E e :
              /\ DownWalk(signed, repeated, Tail(q), e)
              /\ e[0] = d[1] /\ e[Len(Tail(q))] = d[Len(q)]
<1> DEFINE e == [i \in Nat |-> d[i+1]]
<1>1. d \in [Nat -> Views(signed)] /\ \A i \in 1..Len(q) : DownStep(repeated, d[i-1], q[i], d[i])
  BY DEF DownWalk
<1>2. /\ Len(q) \in Nat /\ Len(q) >= 1 /\ Head(q) = q[1] /\ Len(Tail(q)) = Len(q) - 1
      /\ \A i \in 1..Len(Tail(q)) : Tail(q)[i] = q[i+1] /\ i + 1 \in 1..Len(q)
  BY TailLemma
<1>3. DownStep(repeated, d[0], Head(q), d[1])
  <2>1. DownStep(repeated, d[1-1], q[1], d[1])
    BY <1>1, <1>2
  <2> QED BY <1>2, <2>1
<1>4. e \in [Nat -> Views(signed)] /\ \A i \in Nat : e[i] = d[i+1]
  BY <1>1
<1> HIDE DEF e
<1>5. ASSUME NEW i \in 1..Len(Tail(q)) PROVE DownStep(repeated, e[i-1], Tail(q)[i], e[i])
  <2>1. DownStep(repeated, d[(i+1)-1], q[i+1], d[i+1])
    BY <1>1, <1>2
  <2>2. e[i] = d[i+1] /\ e[i-1] = d[(i+1)-1]
    <3>1. i \in Nat /\ i-1 \in Nat /\ (i-1)+1 = (i+1)-1
      BY <1>2
    <3> QED BY <1>4, <3>1
  <2> QED BY <1>2, <2>1, <2>2
<1>6. e[0] = d[1] /\ e[Len(Tail(q))] = d[Len(q)]
  <2>1. Len(q) - 1 \in Nat /\ (Len(q) - 1) + 1 = Len(q)
    BY <1>2
  <2>2. e[Len(q) - 1] = d[(Len(q) - 1) + 1] /\ e[0] = d[0 + 1]
    BY <1>4, <2>1
  <2> QED BY <1>2, <2>1, <2>2
<1> QED BY <1>1, <1>3, <1>4, <1>5, <1>6 DEF DownWalk

LEMMA DownAppend ==
  ASSUME NEW signed \in Nat, NEW repeated, NEW q \in Seq(DownMessages), NEW m \in DownMessages, NEW d,
         DownWalk(signed, repeated, q, d), NEW b \in Views(signed), DownStep(repeated, d[Len(q)], m, b)
  PROVE  \E e :
           DownWalk(signed, repeated, Append(q, m), e) /\ e[0] = d[0] /\ e[Len(Append(q, m))] = b
<1> DEFINE e == [d EXCEPT ![Len(q) + 1] = b]
<1>1. d \in [Nat -> Views(signed)] /\ \A i \in 1..Len(q) : DownStep(repeated, d[i-1], q[i], d[i])
  BY DEF DownWalk
<1>2. /\ Len(Append(q, m)) = Len(q) + 1 /\ Len(q) \in Nat
      /\ Append(q, m)[Len(q) + 1] = m
      /\ \A i \in 1..Len(q) : Append(q, m)[i] = q[i]
  BY AppendLemma
<1>3. /\ e \in [Nat -> Views(signed)] /\ e[Len(q) + 1] = b
      /\ \A i \in 0..Len(q) : e[i] = d[i]
  BY <1>1, <1>2
<1> HIDE DEF e
<1>4. ASSUME NEW i \in 1..Len(Append(q, m)) PROVE DownStep(repeated, e[i-1], Append(q, m)[i], e[i])
  <2>1. CASE i = Len(q) + 1
    <3>1. i - 1 = Len(q) /\ e[i-1] = d[Len(q)]
      BY <1>2, <1>3, <2>1
    <3> QED BY <1>2, <1>3, <2>1, <3>1
  <2>2. CASE i # Len(q) + 1
    <3>1. i \in 1..Len(q) /\ i \in 0..Len(q) /\ i-1 \in 0..Len(q)
      BY <1>2, <2>2
    <3> QED BY <1>1, <1>2, <1>3, <3>1
  <2> QED BY <2>1, <2>2
<1>5. e[0] = d[0]
  BY <1>2, <1>3
<1> QED BY <1>2, <1>3, <1>4, <1>5 DEF DownWalk

LEMMA UpTail ==
  ASSUME NEW auth, NEW seen \in Nat, NEW record, NEW q \in Seq(UpMessages), q # <<>>, NEW g,
         UpWalk(auth, seen, record, q, g)
  PROVE  /\ UpStep(auth, seen, record, g[0], Head(q), g[1]) /\ g[0] \in Reports(seen) /\ g[1] \in Reports(seen)
         /\ \E h :
              /\ UpWalk(auth, seen, record, Tail(q), h)
              /\ h[0] = g[1] /\ h[Len(Tail(q))] = g[Len(q)]
<1> DEFINE h == [i \in Nat |-> g[i+1]]
<1>1. g \in [Nat -> Reports(seen)] /\ \A i \in 1..Len(q) : UpStep(auth, seen, record, g[i-1], q[i], g[i])
  BY DEF UpWalk
<1>2. /\ Len(q) \in Nat /\ Len(q) >= 1 /\ Head(q) = q[1] /\ Len(Tail(q)) = Len(q) - 1
      /\ \A i \in 1..Len(Tail(q)) : Tail(q)[i] = q[i+1] /\ i + 1 \in 1..Len(q)
  BY TailLemma
<1>3. UpStep(auth, seen, record, g[0], Head(q), g[1])
  <2>1. UpStep(auth, seen, record, g[1-1], q[1], g[1])
    BY <1>1, <1>2
  <2> QED BY <1>2, <2>1
<1>4. h \in [Nat -> Reports(seen)] /\ \A i \in Nat : h[i] = g[i+1]
  BY <1>1
<1> HIDE DEF h
<1>5. ASSUME NEW i \in 1..Len(Tail(q)) PROVE UpStep(auth, seen, record, h[i-1], Tail(q)[i], h[i])
  <2>1. UpStep(auth, seen, record, g[(i+1)-1], q[i+1], g[i+1])
    BY <1>1, <1>2
  <2>2. h[i] = g[i+1] /\ h[i-1] = g[(i+1)-1]
    <3>1. i \in Nat /\ i-1 \in Nat /\ (i-1)+1 = (i+1)-1
      BY <1>2
    <3> QED BY <1>4, <3>1
  <2> QED BY <1>2, <2>1, <2>2
<1>6. h[0] = g[1] /\ h[Len(Tail(q))] = g[Len(q)]
  <2>1. Len(q) - 1 \in Nat /\ (Len(q) - 1) + 1 = Len(q)
    BY <1>2
  <2>2. h[Len(q) - 1] = g[(Len(q) - 1) + 1] /\ h[0] = g[0 + 1]
    BY <1>4, <2>1
  <2> QED BY <1>2, <2>1, <2>2
<1> QED BY <1>1, <1>3, <1>4, <1>5, <1>6 DEF UpWalk

LEMMA UpAppend ==
  ASSUME NEW auth, NEW seen \in Nat, NEW record, NEW q \in Seq(UpMessages), NEW m \in UpMessages,
         NEW g,
         UpWalk(auth, seen, record, q, g), NEW b \in Reports(seen), UpStep(auth, seen, record, g[Len(q)], m, b)
  PROVE  \E h :
           UpWalk(auth, seen, record, Append(q, m), h) /\ h[0] = g[0] /\ h[Len(Append(q, m))] = b
<1> DEFINE h == [g EXCEPT ![Len(q) + 1] = b]
<1>1. g \in [Nat -> Reports(seen)] /\ \A i \in 1..Len(q) : UpStep(auth, seen, record, g[i-1], q[i], g[i])
  BY DEF UpWalk
<1>2. /\ Len(Append(q, m)) = Len(q) + 1 /\ Len(q) \in Nat
      /\ Append(q, m)[Len(q) + 1] = m
      /\ \A i \in 1..Len(q) : Append(q, m)[i] = q[i]
  BY AppendLemma
<1>3. /\ h \in [Nat -> Reports(seen)] /\ h[Len(q) + 1] = b
      /\ \A i \in 0..Len(q) : h[i] = g[i]
  BY <1>1, <1>2
<1> HIDE DEF h
<1>4. ASSUME NEW i \in 1..Len(Append(q, m)) PROVE UpStep(auth, seen, record, h[i-1], Append(q, m)[i], h[i])
  <2>1. CASE i = Len(q) + 1
    <3>1. i - 1 = Len(q) /\ h[i-1] = g[Len(q)]
      BY <1>2, <1>3, <2>1
    <3> QED BY <1>2, <1>3, <2>1, <3>1
  <2>2. CASE i # Len(q) + 1
    <3>1. i \in 1..Len(q) /\ i \in 0..Len(q) /\ i-1 \in 0..Len(q)
      BY <1>2, <2>2
    <3> QED BY <1>1, <1>2, <1>3, <3>1
  <2> QED BY <2>1, <2>2
<1>5. h[0] = g[0]
  BY <1>2, <1>3
<1> QED BY <1>2, <1>3, <1>4, <1>5 DEF UpWalk

\* What a step of the walk along down says, message by message.
LEMMA DownStepLemma ==
  ASSUME NEW signed \in Nat, NEW a \in Views(signed), NEW repeated, NEW m, NEW b, DownStep(repeated, a, m, b)
  PROVE  /\ a.seen \in Nat /\ a.incoming \in Nat /\ a.session \in 1..MaxSessions
         /\ m.kind = "configure" =>
              /\ a.phase = "play" /\ b.phase = "configuration" /\ b.session = a.session + 1
              /\ b.seen = a.seen /\ b.last = a.last /\ b.incoming = a.incoming
         /\ m.kind = "login" =>
              /\ a.phase = "configuration" /\ b.phase = "play" /\ b.session = a.session
              /\ b.seen = a.seen /\ b.last = None /\ b.incoming = 0
         /\ m.kind = "chat" =>
              /\ a.phase = "play" /\ b.phase = "play" /\ b.session = a.session
              /\ m.index = a.incoming /\ b.incoming = a.incoming + 1
              /\ \/ /\ m.signature = None \/ (m.signature = a.last /\ repeated)
                    /\ b.seen = a.seen /\ b.last = a.last
                 \/ /\ m.signature = a.seen + 1 /\ m.signature # a.last
                    /\ b.seen = a.seen + 1 /\ b.last = m.signature
<1>1. a.seen \in Nat /\ a.incoming \in Nat /\ a.session \in 1..MaxSessions
  BY DEF Views
<1>2. ASSUME m.kind = "chat"
      PROVE  /\ a.phase = "play" /\ b.phase = "play" /\ b.session = a.session
             /\ m.index = a.incoming /\ b.incoming = a.incoming + 1
             /\ \/ /\ m.signature = None \/ (m.signature = a.last /\ repeated)
                   /\ b.seen = a.seen /\ b.last = a.last
                \/ /\ m.signature = a.seen + 1 /\ m.signature # a.last
                   /\ b.seen = a.seen + 1 /\ b.last = m.signature
  <2>1. CASE b = [a EXCEPT !.incoming = a.incoming + 1]
             /\ (m.signature = None \/ (m.signature = a.last /\ repeated))
    BY <1>2, <2>1 DEF DownStep, Views
  <2>2. CASE b = [a EXCEPT !.incoming = a.incoming + 1, !.seen = a.seen + 1, !.last = m.signature]
             /\ m.signature = a.seen + 1 /\ m.signature # a.last
    BY <1>2, <2>2 DEF DownStep, Views
  <2> QED BY <1>2, <2>1, <2>2 DEF DownStep
<1>3. m.kind = "configure" =>
        /\ a.phase = "play" /\ b.phase = "configuration" /\ b.session = a.session + 1
        /\ b.seen = a.seen /\ b.last = a.last /\ b.incoming = a.incoming
  BY DEF DownStep, Views
<1>4. m.kind = "login" =>
        /\ a.phase = "configuration" /\ b.phase = "play" /\ b.session = a.session
        /\ b.seen = a.seen /\ b.last = None /\ b.incoming = 0
  BY DEF DownStep, Views
<1> QED BY <1>1, <1>2, <1>3, <1>4

LEMMA GrowDown ==
  ASSUME NEW signed \in Nat, NEW more \in Nat, signed <= more, NEW repeated \in BOOLEAN, NEW again \in BOOLEAN,
         repeated => again, NEW q \in Seq(DownMessages), NEW d, DownWalk(signed, repeated, q, d)
  PROVE  DownWalk(more, again, q, d)
<1>1. Views(signed) \subseteq Views(more)
  <2>1. 0..signed \subseteq 0..more
    OBVIOUS
  <2> QED BY <2>1 DEF Views
<1>2. d \in [Nat -> Views(more)]
  BY <1>1 DEF DownWalk
<1>3. ASSUME NEW i \in 1..Len(q) PROVE DownStep(again, d[i-1], q[i], d[i])
  BY <1>3 DEF DownWalk, DownStep
<1> QED BY <1>2, <1>3 DEF DownWalk

LEMMA GrowUp ==
  ASSUME NEW auth, NEW seen \in Nat, NEW record \in Records, NEW record2 \in Records,
         \A p \in 0..(seen + Capacity) : record2[p] = record[p],
         NEW q \in Seq(UpMessages), \A i \in 1..Len(q) : q[i].kind # "configured",
         NEW g, UpWalk(auth, seen, record, q, g)
  PROVE  UpWalk(auth, seen + 1, record2, q, g)
<1>1. Reports(seen) \subseteq Reports(seen + 1)
  <2>1. 0..seen \subseteq 0..(seen + 1)
    OBVIOUS
  <2> QED BY <2>1 DEF Reports
<1>2. g \in [Nat -> Reports(seen)] /\ g \in [Nat -> Reports(seen + 1)]
  BY <1>1 DEF UpWalk
<1>3. ASSUME NEW i \in 1..Len(q) PROVE UpStep(auth, seen + 1, record2, g[i-1], q[i], g[i])
  <2>1. UpStep(auth, seen, record, g[i-1], q[i], g[i]) /\ q[i].kind # "configured"
    BY DEF UpWalk
  <2>2. i \in Nat /\ g[i].at \in 0..seen
    BY <1>2, LenProperties DEF Reports
  <2>3. \A k \in 1..Capacity : record2[g[i].at + k] = record[g[i].at + k]
    <3> TAKE k \in 1..Capacity
    <3>1. g[i].at + k \in 0..(seen + Capacity)
      BY <2>2
    <3> QED BY <3>1
  <2> QED BY <2>1, <2>3 DEF UpStep
<1> QED BY <1>2, <1>3 DEF UpWalk

\* LastSeenTracker::add moves the window by one place.
LEMMA WindowLemma ==
  ASSUME NEW S, NEW e \in [1..Capacity -> S], NEW v \in S
  PROVE  /\ Append(Tail(e), v) \in [1..Capacity -> S]
         /\ Append(Tail(e), v)[Capacity] = v
         /\ \A k \in 1..Capacity : k # Capacity => Append(Tail(e), v)[k] = e[k+1] /\ k + 1 \in 1..Capacity
<1>1. e \in Seq(S) /\ Len(e) = Capacity /\ e # <<>>
  <2>1. e \in Seq(S)
    BY SeqDef
  <2>2. Len(e) = Capacity
    BY <2>1, LenProperties
  <2> QED BY <2>1, <2>2, EmptySeq
<1>2. /\ Tail(e) \in Seq(S) /\ Len(Tail(e)) = Capacity - 1
      /\ \A i \in 1..Len(Tail(e)) : Tail(e)[i] = e[i+1]
  BY <1>1, HeadTailProperties
<1>3. /\ Append(Tail(e), v) \in Seq(S) /\ Len(Append(Tail(e), v)) = (Capacity - 1) + 1
      /\ Append(Tail(e), v)[(Capacity - 1) + 1] = v
      /\ \A i \in 1..(Capacity - 1) : Append(Tail(e), v)[i] = Tail(e)[i]
  BY <1>2, AppendProperties
<1>4. (Capacity - 1) + 1 = Capacity
  OBVIOUS
<1>5. Append(Tail(e), v) \in [1..Capacity -> S]
  BY <1>3, <1>4, LenProperties
<1>6. ASSUME NEW k \in 1..Capacity, k # Capacity PROVE Append(Tail(e), v)[k] = e[k+1] /\ k + 1 \in 1..Capacity
  <2>1. k \in 1..(Capacity - 1) /\ k + 1 \in 1..Capacity
    BY <1>6
  <2> QED BY <1>2, <1>3, <2>1
<1> QED BY <1>3, <1>4, <1>5, <1>6

LEMMA TracksGrow ==
  ASSUME NEW t \in Seq(Places), NEW at \in Nat, NEW seen \in Nat, NEW record \in Records,
         Tracks(t, at, seen, record), NEW record2 \in Records,
         \A p \in 0..(seen + Capacity) : record2[p] = record[p],
         record2[(seen + 1) + Capacity] \in {None, seen + 1}
  PROVE  Tracks(t, at, seen + 1, record2)
<1> SUFFICES ASSUME NEW k \in 1..Len(t)
             PROVE  IF at + k <= (seen + 1) + Capacity
                    THEN PlaceFits(t[k], record2[at + k])
                    ELSE t[k].pending /\ t[k].signature # None /\ t[k].signature + Capacity = at + k
  BY DEF Tracks
<1>1. k \in Nat /\ t[k] \in Places
  BY ElementOfSeq, LenProperties
<1>2. IF at + k <= seen + Capacity
      THEN PlaceFits(t[k], record[at + k])
      ELSE t[k].pending /\ t[k].signature # None /\ t[k].signature + Capacity = at + k
  BY DEF Tracks
<1>3. CASE at + k <= seen + Capacity
  <2>1. at + k \in 0..(seen + Capacity) /\ at + k <= (seen + 1) + Capacity
    BY <1>1, <1>3
  <2> QED BY <1>2, <1>3, <2>1
<1>4. CASE ~(at + k <= seen + Capacity) /\ at + k <= (seen + 1) + Capacity
  <2>1. at + k = (seen + 1) + Capacity
    BY <1>1, <1>4
  <2>2. t[k].signature = seen + 1
    BY <1>1, <1>2, <1>4, <2>1 DEF Places, Signatures
  <2> QED BY <1>2, <1>4, <2>1, <2>2 DEF PlaceFits
<1>5. CASE ~(at + k <= (seen + 1) + Capacity)
  BY <1>1, <1>2, <1>5
<1> QED BY <1>3, <1>4, <1>5

LEMMA AdvanceLemma ==
  ASSUME NEW t \in Seq(Places), NEW c \in Nat, c + Capacity <= Len(t)
  PROVE  /\ Advance(t, c) \in Seq(Places) /\ Len(Advance(t, c)) + c = Len(t)
         /\ Len(Advance(t, c)) \in Nat /\ Capacity <= Len(Advance(t, c))
         /\ \A k \in 1..Len(Advance(t, c)) : Advance(t, c)[k] = t[c + k] /\ c + k \in 1..Len(t)
<1>1. Len(t) \in Nat /\ \A i \in 1..Len(t) : t[i] \in Places
  BY LenProperties, ElementOfSeq
<1>2. \A i \in (c + 1)..Len(t) : t[i] \in Places
  BY <1>1
<1>3. /\ Advance(t, c) \in Seq(Places)
      /\ Len(Advance(t, c)) = (IF c + 1 <= Len(t) THEN Len(t) - (c + 1) + 1 ELSE 0)
      /\ \A i \in 1..(Len(t) - (c + 1) + 1) : Advance(t, c)[i] = t[(c + 1) + i - 1]
  BY <1>1, <1>2, SubSeqProperties DEF Advance
<1>4. c + 1 <= Len(t) /\ Len(t) - (c + 1) + 1 = Len(t) - c
  BY <1>1
<1>5. ASSUME NEW k \in 1..(Len(t) - c) PROVE (c + 1) + k - 1 = c + k /\ c + k \in 1..Len(t)
  BY <1>1
<1> QED BY <1>1, <1>3, <1>4, <1>5

LEMMA TracksAdvance ==
  ASSUME NEW t \in Seq(Places), NEW c \in Nat, c + Capacity <= Len(t),
         NEW at \in Nat, NEW seen \in Nat, NEW record \in Records, Tracks(t, at, seen, record)
  PROVE  Tracks(Advance(t, c), at + c, seen, record)
<1> DEFINE u == Advance(t, c)
<1>1. /\ Len(u) \in Nat
      /\ \A k \in 1..Len(u) : u[k] = t[c + k] /\ c + k \in 1..Len(t)
  BY AdvanceLemma
<1> HIDE DEF u
<1>2. ASSUME NEW k \in 1..Len(u)
      PROVE  IF (at + c) + k <= seen + Capacity
             THEN PlaceFits(u[k], record[(at + c) + k])
             ELSE u[k].pending /\ u[k].signature # None /\ u[k].signature + Capacity = (at + c) + k
  <2>1. (at + c) + k = at + (c + k)
    BY <1>1
  <2>2. IF at + (c + k) <= seen + Capacity
        THEN PlaceFits(t[c + k], record[at + (c + k)])
        ELSE t[c + k].pending /\ t[c + k].signature # None /\ t[c + k].signature + Capacity = at + (c + k)
    BY <1>1 DEF Tracks
  <2> QED BY <1>1, <2>1, <2>2
<1> QED BY <1>2 DEF Tracks, u

LEMMA FreshLemma ==
  ASSUME NEW seen \in Nat, NEW record \in Records, \A k \in 1..Capacity : record[seen + k] = None
  PROVE  /\ FreshValidator \in Seq(Places) /\ Len(FreshValidator) = Capacity
         /\ Tracks(FreshValidator, seen, seen, record)
<1>1. FreshValidator \in [1..Capacity -> Places]
      /\ \A k \in 1..Capacity : FreshValidator[k] = [signature |-> None, pending |-> FALSE]
  BY DEF FreshValidator, Places
<1>2. FreshValidator \in Seq(Places)
  BY <1>1, SeqDef
<1>3. Len(FreshValidator) = Capacity
  BY <1>1, <1>2, LenProperties
<1>4. ASSUME NEW k \in 1..Capacity PROVE PlaceFits(FreshValidator[k], record[seen + k]) /\ seen + k <= seen + Capacity
  BY <1>1 DEF PlaceFits
<1> QED BY <1>2, <1>3, <1>4 DEF Tracks

NoClaims == [p \in Nat |-> None]

LEMMA NoClaimsLemma == NoClaims \in Records /\ \A p \in Nat : NoClaims[p] = None
  BY DEF NoClaims, Records

LEMMA FreshSequenceLemma ==
  ASSUME NEW s \in 1..MaxSessions
  PROVE  /\ FreshSequence(s) \in [session : 1..MaxSessions, outgoing : 0..MaxChats, incoming : 0..MaxMessages,
                                  entries : [1..Capacity -> Signatures \cup {None}],
                                  last : Signatures \cup {None}, offset : 0..MaxMessages]
         /\ FreshSequence(s).session = s /\ FreshSequence(s).outgoing = 0 /\ FreshSequence(s).incoming = 0
         /\ FreshSequence(s).last = None /\ FreshSequence(s).offset = 0
         /\ \A k \in 1..Capacity : FreshSequence(s).entries[k] = None
  BY DEF FreshSequence

LEMMA InitInv == Init => IInv
<1> SUFFICES ASSUME Init PROVE IInv
  OBVIOUS
<1>0. PICK authenticated \in Securities :
        /\ chat = [authenticated |-> authenticated, sequence |-> FreshSequence(1),
                   expired |-> FALSE, phase |-> "play", chats |-> 0, lost |-> FALSE]
        /\ up = IF authenticated THEN <<SessionUpdate(1)>> ELSE <<>>
  BY DEF Init
<1>1. /\ server = [phase |-> "play", session |-> None, index |-> 0, chain |-> 0, sent |-> 0,
                   signed |-> 0, last |-> None, tracked |-> FreshValidator, sessions |-> 1,
                   fault |-> FALSE, repeated |-> FALSE]
      /\ down = <<>> /\ Len(down) = 0
  BY DEF Init
<1>2. 1 \in 1..MaxSessions /\ authenticated \in BOOLEAN
  OBVIOUS
<1>3. /\ chat \in ChatRecords /\ chat.sequence = FreshSequence(1) /\ chat.chats = 0
      /\ chat.phase = "play" /\ chat.authenticated = authenticated /\ ~chat.lost
  BY <1>0, <1>2, FreshSequenceLemma DEF ChatRecords
<1>4. server \in ServerRecords
  BY <1>1, <1>2, NoClaimsLemma, FreshLemma DEF ServerRecords
<1>5. up \in Seq(UpMessages) /\ \A i \in 1..Len(up) : up[i] = SessionUpdate(1) /\ i = 1
  <2>1. CASE authenticated
    <3>1. up = <<SessionUpdate(1)>>
      BY <1>0, <2>1
    <3>2. SessionUpdate(1) \in UpMessages
      BY DEF SessionUpdate, UpMessages
    <3> QED BY <3>1, <3>2
  <2>2. CASE ~authenticated
    BY <1>0, <2>2
  <2> QED BY <2>1, <2>2
<1>6. Types
  BY <1>1, <1>2, <1>3, <1>4, <1>5, FreshSequenceLemma DEF Types
<1>7. InTurn
  BY <1>1, <1>3, <1>5 DEF InTurn, SessionUpdate
<1> DEFINE a == [seen |-> 0, last |-> None, incoming |-> 0, phase |-> "play", session |-> 1]
           d == [i \in Nat |-> a]
<1>8. a \in Views(0) /\ a = ServerView
  BY <1>1, <1>2 DEF Views, ServerView
<1>9. ClientView(a)
  BY <1>2, <1>3, FreshSequenceLemma DEF ClientView
<1>s. a.seen = 0
  OBVIOUS
<1> HIDE DEF a
<1>10. d \in [Nat -> Views(0)] /\ d[0] = a
  BY <1>8
<1> HIDE DEF d
<1>11. DownWalk(0, server.repeated, down, d) /\ d[Len(down)] = ServerView
  BY <1>1, <1>8, <1>10 DEF DownWalk
<1>12. Reported(0)
  <2> DEFINE b == [at |-> 0, chain |-> 0, session |-> None]
             c == [at |-> 0, chain |-> 0, session |-> IF authenticated THEN 1 ELSE None]
             g == [i \in Nat |-> IF i = 0 THEN b ELSE c]
  <2>1. /\ b \in Reports(0) /\ c \in Reports(0) /\ b.at = 0 /\ b.chain = 0 /\ b.session = None
        /\ c = [at |-> b.at, chain |-> 0, session |-> IF authenticated THEN 1 ELSE None]
        /\ (~authenticated => c = b)
    BY DEF Reports
  <2> HIDE DEF b, c
  <2>2. g \in [Nat -> Reports(0)] /\ g[0] = b /\ g[1] = c
    BY <2>1
  <2> HIDE DEF g
  <2>3. UpWalk(chat.authenticated, 0, NoClaims, up, g)
    <3>1. ASSUME NEW i \in 1..Len(up) PROVE UpStep(chat.authenticated, 0, NoClaims, g[i-1], up[i], g[i])
      <4>1. i = 1 /\ up[i] = SessionUpdate(1) /\ authenticated
        BY <1>0, <1>5
      <4> QED BY <2>1, <2>2, <4>1 DEF UpStep, SessionUpdate
    <3> QED BY <2>2, <3>1 DEF UpWalk
  <2>4. ServerReport(g[0], 0, NoClaims)
    <3>1. \A k \in 1..Capacity : NoClaims[0 + k] = None
      BY NoClaimsLemma
    <3>2. Len(FreshValidator) = Capacity /\ Tracks(FreshValidator, 0, 0, NoClaims)
      BY <3>1, NoClaimsLemma, FreshLemma
    <3> QED BY <1>1, <2>1, <2>2, <3>2 DEF ServerReport
  <2>5. g[Len(up)] = c
    BY <1>0, <2>1, <2>2
  <2>6. ClientReport(c, 0, NoClaims)
    BY <1>2, <1>3, <2>1, NoClaimsLemma, FreshSequenceLemma DEF ClientReport, Authenticated
  <2> QED BY <2>2, <2>3, <2>4, <2>5, <2>6, NoClaimsLemma DEF Reported
<1>13. server.signed = 0 /\ ~server.fault
  BY <1>1
<1> QED BY <1>6, <1>7, <1>9, <1>10, <1>11, <1>12, <1>13, <1>s DEF IInv

-----------------------------------------------------------------------------
(* The client.                                                             *)

\* What the types say of a client whose record changed.
LEMMA ClientTypes ==
  ASSUME Types, chat' \in ChatRecords, chat'.sequence.outgoing <= chat'.chats,
         down' \in Seq(DownMessages), up' \in Seq(UpMessages), server' = server
  PROVE  Types'
  BY DEF Types

\* The certificate expires.
LEMMA ExpireInv == ASSUME IInv, Expire PROVE IInv'
<1>0. chat \in ChatRecords
  BY DEF IInv, Types
<1>1. chat' = [chat EXCEPT !.expired = TRUE] /\ UNCHANGED <<server, down, up>>
  BY DEF Expire
<1>2. /\ chat' \in ChatRecords /\ chat'.sequence = chat.sequence /\ chat'.phase = chat.phase
      /\ chat'.chats = chat.chats /\ chat'.lost = chat.lost /\ chat'.authenticated = chat.authenticated
  BY <1>0, <1>1 DEF ChatRecords
<1>3. Types' /\ InTurn'
  BY <1>1, <1>2, ClientTypes DEF IInv, Types, InTurn
<1>4. \A a : ClientView(a)' <=> ClientView(a)
  BY <1>2 DEF ClientView, Authenticated
<1>5. \A seen : Reported(seen) => Reported(seen)'
  BY <1>1, <1>2 DEF Reported, ServerReport, ClientReport, Authenticated
<1>6. (Sound' <=> Sound) /\ ServerView' = ServerView
  BY <1>1, <1>2 DEF Sound, Authenticated, ServerView
<1> QED BY <1>1, <1>3, <1>4, <1>5, <1>6 DEF IInv

\* A message that is not signed takes the offset with it, if there was one.
LEMMA SignFailsInv == ASSUME IInv, SignFails PROVE IInv'
<1> DEFINE s == [chat.sequence EXCEPT !.offset = 0]
           lost == chat.lost \/ chat.sequence.offset > 0
           n == chat.chats + 1
<1>0. chat \in ChatRecords /\ chat.sequence.outgoing <= chat.chats
  BY DEF IInv, Types
<1>1. /\ chat' = [chat EXCEPT !.chats = n, !.sequence = s, !.lost = lost]
      /\ UNCHANGED <<server, down, up>>
      /\ Authenticated /\ chat.phase = "play" /\ chat.chats < MaxChats
  BY <1>0 DEF SignFails, CanSend, ChatRecords
<1>2. n \in 0..MaxChats /\ chat.chats <= n /\ chat.chats \in Nat /\ n \in Nat /\ chat.sequence.outgoing \in Nat
  BY <1>0, <1>1 DEF ChatRecords
<1>3. lost \in BOOLEAN /\ (~lost => ~chat.lost /\ chat.sequence.offset = 0)
  BY <1>0 DEF ChatRecords
<1>4. /\ s \in [session : 1..MaxSessions, outgoing : 0..MaxChats, incoming : 0..MaxMessages,
                entries : [1..Capacity -> Signatures \cup {None}],
                last : Signatures \cup {None}, offset : 0..MaxMessages]
      /\ s.session = chat.sequence.session /\ s.outgoing = chat.sequence.outgoing
      /\ s.incoming = chat.sequence.incoming /\ s.entries = chat.sequence.entries
      /\ s.last = chat.sequence.last /\ s.offset = 0
      /\ (chat.sequence.offset = 0 => s = chat.sequence)
  BY <1>0 DEF ChatRecords
<1> HIDE DEF s, lost, n
<1>5. /\ chat' \in ChatRecords /\ chat'.sequence = s /\ chat'.phase = chat.phase
      /\ chat'.chats = n /\ chat'.lost = lost /\ chat'.authenticated = chat.authenticated
  BY <1>0, <1>1, <1>2, <1>3, <1>4 DEF ChatRecords
<1>6. Types'
  <2>1. chat'.sequence.outgoing <= chat'.chats
    BY <1>0, <1>2, <1>4, <1>5
  <2>2. down' \in Seq(DownMessages) /\ up' \in Seq(UpMessages)
    BY <1>1 DEF IInv, Types
  <2> QED BY <1>1, <1>5, <2>1, <2>2, ClientTypes DEF IInv
<1>7. InTurn'
  BY <1>1, <1>5 DEF IInv, InTurn
<1>8. \A a \in Views(server.signed) : ClientView(a) => ClientView(a)'
  BY <1>4, <1>5 DEF ClientView, Authenticated, Views
<1>9. \A seen : Sound' => Sound /\ (Reported(seen) => Reported(seen)')
  <2>1. Sound' => Sound /\ chat'.sequence = chat.sequence
    BY <1>1, <1>3, <1>4, <1>5 DEF Sound, Authenticated
  <2>2. ASSUME chat'.sequence = chat.sequence, NEW seen, Reported(seen) PROVE Reported(seen)'
    <3>1. /\ chat'.sequence = chat.sequence /\ chat'.phase = chat.phase
          /\ chat'.authenticated = chat.authenticated /\ UNCHANGED <<server, up>>
      BY <1>1, <1>5, <2>2
    <3>2. PICK g, record :
            /\ record \in Records /\ UpWalk(chat.authenticated, seen, record, up, g)
            /\ ServerReport(g[0], seen, record) /\ ClientReport(g[Len(up)], seen, record)
      BY <2>2 DEF Reported
    <3>3. /\ UpWalk(chat.authenticated, seen, record, up, g)'
          /\ record \in Records /\ ServerReport(g[0], seen, record)' /\ ClientReport(g[Len(up)], seen, record)'
      BY <3>1, <3>2 DEF ServerReport, ClientReport, Authenticated, UpWalk
    <3> QED BY <3>3 DEF Reported
  <2> QED BY <2>1, <2>2
<1>10. ServerView' = ServerView
  BY <1>1 DEF ServerView
<1>11. PICK d :
        /\ DownWalk(server.signed, server.repeated, down, d)
        /\ ClientView(d[0]) /\ d[Len(down)] = ServerView
        /\ Sound => ~server.fault /\ Reported(d[0].seen)
  BY DEF IInv
<1>12. d[0] \in Views(server.signed)
  BY <1>11 DEF DownWalk
<1> QED BY <1>1, <1>6, <1>7, <1>8, <1>9, <1>10, <1>11, <1>12 DEF IInv

LEMMA ClientStep ==
  ASSUME Types', InTurn', server' = server, NEW e,
         DownWalk(server.signed, server.repeated, down', e), ClientView(e[0])', e[Len(down')] = ServerView,
         Sound' => ~server.fault /\ Reported(e[0].seen)'
  PROVE  IInv'
<1>1. ServerView' = ServerView
  BY DEF ServerView
<1> QED BY <1>1 DEF IInv

\* While the client is in Play, nothing of a reconfiguration but its announcement is under way.
LEMMA InPlay ==
  ASSUME IInv, chat.phase = "play"
  PROVE  /\ \A i \in 1..Len(down) : down[i].kind # "login"
         /\ \A i \in 1..Len(up) : up[i].kind # "configured"
<1>1. PICK d :
        DownWalk(server.signed, server.repeated, down, d) /\ ClientView(d[0])
  BY DEF IInv
<1>2. ASSUME NEW i \in 1..Len(down), down[i].kind = "login" PROVE FALSE
  <2>1. i = 1
    BY <1>2 DEF IInv, InTurn
  <2>2. DownStep(server.repeated, d[1-1], down[1], d[1])
    BY <1>1, <2>1 DEF DownWalk
  <2>3. DownStep(server.repeated, d[0], down[1], d[1])
    BY <2>2
  <2> QED BY <1>1, <1>2, <2>1, <2>3 DEF DownStep, ClientView
<1> QED BY <1>2 DEF IInv, InTurn

\* send_chat: the message fits what was reported before it.
LEMMA SendChatInv == ASSUME IInv, SendChat PROVE IInv'
<1> DEFINE s == chat.sequence
           s2 == IF Authenticated THEN Prepared(s) ELSE s
           n == chat.chats + 1
           m == Message(s)
<1>0. chat \in ChatRecords /\ s.outgoing <= chat.chats /\ up \in Seq(UpMessages) /\ down \in Seq(DownMessages)
  BY DEF IInv, Types
<1>1. /\ chat' = [chat EXCEPT !.chats = n, !.sequence = s2]
      /\ up' = Append(up, m) /\ server' = server /\ down' = down
      /\ chat.phase = "play" /\ chat.chats < MaxChats
  BY DEF SendChat, CanSend
<1>2. /\ n \in 0..MaxChats /\ chat.chats <= n /\ n \in Nat /\ s.outgoing \in Nat
      /\ s.outgoing + 1 <= n /\ s.outgoing <= n /\ s.outgoing + 1 \in 0..MaxChats
  BY <1>0, <1>1 DEF ChatRecords
<1>3. /\ s2 \in [session : 1..MaxSessions, outgoing : 0..MaxChats, incoming : 0..MaxMessages,
                 entries : [1..Capacity -> Signatures \cup {None}],
                 last : Signatures \cup {None}, offset : 0..MaxMessages]
      /\ s2.session = s.session /\ s2.incoming = s.incoming /\ s2.entries = s.entries /\ s2.last = s.last
      /\ Authenticated => s2.offset = 0 /\ s2.outgoing = s.outgoing + 1
      /\ ~Authenticated => s2 = s
  <2>1. CASE Authenticated
    <3> DEFINE o == s.outgoing + 1
    <3>1. s2 = [s EXCEPT !.offset = 0, !.outgoing = o]
      BY <2>1 DEF Prepared
    <3>2. o \in 0..MaxChats /\ o = s.outgoing + 1 /\ 0 \in 0..MaxMessages
      BY <1>2
    <3> HIDE DEF s2, o
    <3> QED BY <1>0, <2>1, <3>1, <3>2 DEF ChatRecords
  <2>2. CASE ~Authenticated
    BY <1>0, <2>2 DEF ChatRecords
  <2> QED BY <2>1, <2>2
<1>4. m \in UpMessages /\ m.kind = "chat"
  <2>1. s.entries \in [1..Capacity -> Nat \cup {None}] /\ s.session \in Nat /\ s.outgoing \in Nat /\ s.offset \in Nat
    BY <1>0 DEF ChatRecords, Signatures
  <2>2. CASE Authenticated
    BY <2>1, <2>2 DEF Message, UpMessages
  <2>3. CASE ~Authenticated
    BY <2>3 DEF Message, UpMessages
  <2> QED BY <2>2, <2>3
<1>5. /\ (Authenticated => m.session = s.session /\ m.index = s.outgoing /\ m.offset = s.offset /\ m.window = s.entries)
      /\ (~Authenticated => /\ m.session = None /\ m.index = 0 /\ m.offset = 0
                            /\ \A k \in 1..Capacity : m.window[k] = None)
  BY DEF Message
<1> HIDE DEF s2, n, m
<1>6. /\ chat' \in ChatRecords /\ chat'.sequence = s2 /\ chat'.phase = "play"
      /\ chat'.chats = n /\ chat'.lost = chat.lost /\ chat'.authenticated = chat.authenticated
  BY <1>0, <1>1, <1>2, <1>3 DEF ChatRecords
<1>7. /\ up' \in Seq(UpMessages) /\ Len(up') = Len(up) + 1 /\ Len(up) \in Nat
      /\ up'[Len(up) + 1] = m /\ \A i \in 1..Len(up) : up'[i] = up[i]
  BY <1>0, <1>1, <1>4, AppendLemma
<1>8. Types'
  <2>1. chat'.sequence.outgoing <= chat'.chats
    BY <1>2, <1>3, <1>6
  <2> QED BY <1>0, <1>1, <1>6, <1>7, <2>1, ClientTypes DEF IInv
<1>9. InTurn'
  <2>1. \A i \in 1..Len(down) : down[i].kind # "login" /\ (down[i].kind = "configure" => i = Len(down))
    BY <1>1, InPlay DEF IInv, InTurn
  <2>2. ASSUME NEW i \in 1..Len(up') PROVE up'[i].kind # "configured"
    <3>1. i \in 1..Len(up) \/ i = Len(up) + 1
      BY <1>7
    <3> QED BY <1>1, <1>4, <1>7, <3>1, InPlay
  <2> QED BY <1>1, <1>6, <2>1, <2>2 DEF InTurn
<1>10. PICK d :
        /\ DownWalk(server.signed, server.repeated, down, d)
        /\ ClientView(d[0]) /\ d[Len(down)] = ServerView
        /\ Sound => ~server.fault /\ Reported(d[0].seen)
  BY DEF IInv
<1>11. d[0] \in Views(server.signed) /\ d[0].seen \in Nat
  BY <1>0, <1>10 DEF Views, DownWalk
<1>12. ClientView(d[0])'
  <2>1. /\ d[0].phase = "play"
        /\ Authenticated => /\ d[0].session = s.session /\ d[0].last = s.last /\ d[0].incoming = s.incoming
    BY <1>1, <1>10 DEF ClientView
  <2>2. 0 <= d[0].seen /\ 0 <= Threshold
    BY <1>11
  <2> QED BY <1>3, <1>6, <2>1, <2>2 DEF ClientView, Authenticated
<1>13. ASSUME Sound' PROVE ~server.fault /\ Reported(d[0].seen)'
  <2>0. PICK seen \in Nat : seen = d[0].seen
    BY <1>11
  <2>b. PICK b : b = [at |-> seen, chain |-> IF Authenticated THEN s.outgoing + 1 ELSE 0,
                      session |-> IF Authenticated THEN s.session ELSE None]
    OBVIOUS
  <2>1. Sound
    BY <1>1, <1>6, <1>13 DEF Sound, Authenticated
  <2>2. PICK g, record :
          /\ record \in Records /\ UpWalk(chat.authenticated, seen, record, up, g)
          /\ ServerReport(g[0], seen, record) /\ ClientReport(g[Len(up)], seen, record)
    BY <1>10, <2>0, <2>1 DEF Reported
  <2>3. /\ b \in Reports(seen) /\ b.at = seen
        /\ Authenticated => b.chain = s.outgoing + 1 /\ b.session = s.session
        /\ ~Authenticated => b.chain = 0 /\ b.session = None
    <3>1. seen \in 0..seen /\ s.outgoing + 1 \in Nat /\ s.session \in Nat
      BY <1>0, <1>2, <1>11 DEF ChatRecords
    <3> QED BY <2>b, <3>1 DEF Reports
  <2> DEFINE a == g[Len(up)]
  <2>4. /\ ~Authenticated => \A p \in Nat : record[p] = None
        /\ IF Authenticated
           THEN /\ a.at + s.offset = seen
                /\ a.chain = s.outgoing /\ a.session = s.session
                /\ \A k \in 1..Capacity : s.entries[k] = record[seen + k]
           ELSE a.at = seen /\ a.chain = 0 /\ a.session = None
    BY <1>1, <2>2 DEF ClientReport
  <2>5. UpStep(chat.authenticated, seen, record, a, m, b)
    <3>1. m.session = a.session /\ m.index = a.chain
      BY <1>5, <2>4
    <3>2. a.at + m.offset = seen
      BY <1>5, <1>11, <2>4
    <3>3. b = [at |-> a.at + m.offset, chain |-> IF Authenticated THEN a.chain + 1 ELSE a.chain, session |-> a.session]
      BY <2>b, <2>4, <3>2
    <3>4. \A k \in 1..Capacity : m.window[k] = record[b.at + k]
      BY <1>5, <1>11, <2>3, <2>4
    <3> QED BY <1>4, <3>1, <3>3, <3>4 DEF UpStep, Authenticated
  <2> HIDE DEF a
  <2>6. PICK h :
          UpWalk(chat.authenticated, seen, record, Append(up, m), h) /\ h[0] = g[0] /\ h[Len(Append(up, m))] = b
    <3>1. up \in Seq(UpMessages) /\ m \in UpMessages
      BY <1>0, <1>4
    <3>2. UpWalk(chat.authenticated, seen, record, up, g)
      BY <2>2
    <3>3. b \in Reports(seen)
      BY <2>3
    <3>4. UpStep(chat.authenticated, seen, record, g[Len(up)], m, b)
      BY <2>5 DEF a
    <3> QED BY <3>1, <3>2, <3>3, <3>4, UpAppend
  <2>7. ServerReport(h[0], seen, record)'
    BY <1>1, <2>2, <2>6 DEF ServerReport
  <2>8. ClientReport(b, seen, record)'
    <3>1. seen + 0 = seen
      BY <1>11
    <3>2. CASE chat.authenticated
      <4>1. /\ b.at = seen /\ b.chain = s.outgoing + 1 /\ b.session = s.session
            /\ \A k \in 1..Capacity : s.entries[k] = record[seen + k]
        BY <2>3, <2>4, <3>2 DEF Authenticated
      <4>2. s2.offset = 0 /\ s2.outgoing = s.outgoing + 1 /\ s2.session = s.session /\ s2.entries = s.entries
        BY <1>3, <3>2 DEF Authenticated
      <4> QED BY <1>6, <3>1, <3>2, <4>1, <4>2 DEF ClientReport, Authenticated
    <3>3. CASE ~chat.authenticated
      <4>1. /\ b.at = seen /\ b.chain = 0 /\ b.session = None
            /\ \A p \in Nat : record[p] = None
        BY <2>3, <2>4, <3>3 DEF Authenticated
      <4> QED BY <1>6, <3>3, <4>1 DEF ClientReport, Authenticated
    <3> QED BY <3>2, <3>3
  <2>9. UpWalk(chat.authenticated, seen, record, up, h)' /\ h[Len(up')] = b
    BY <1>1, <1>6, <2>6
  <2>10. Reported(seen)'
    BY <2>2, <2>7, <2>8, <2>9 DEF Reported
  <2> QED BY <1>10, <2>0, <2>1, <2>10
<1> QED BY <1>1, <1>8, <1>9, <1>10, <1>12, <1>13, ClientStep

\* begin_configuration: it follows every message of the session, in both directions.
LEMMA BeginConfigurationInv == ASSUME IInv, BeginConfiguration PROVE IInv'
<1> DEFINE m == [kind |-> "configured"]
<1>0. chat \in ChatRecords /\ up \in Seq(UpMessages) /\ down \in Seq(DownMessages)
      /\ chat.sequence.outgoing <= chat.chats
  BY DEF IInv, Types
<1>1. /\ chat' = [chat EXCEPT !.phase = "configuration"]
      /\ up' = Append(up, m) /\ server' = server /\ down' = Tail(down)
      /\ chat.phase = "play" /\ down # <<>> /\ Head(down).kind = "configure"
  BY DEF BeginConfiguration
<1>2. /\ chat' \in ChatRecords /\ chat'.sequence = chat.sequence /\ chat'.phase = "configuration"
      /\ chat'.chats = chat.chats /\ chat'.lost = chat.lost /\ chat'.authenticated = chat.authenticated
  BY <1>0, <1>1 DEF ChatRecords
<1>3. m \in UpMessages
  BY DEF UpMessages
<1>4. down' = <<>> /\ Len(down) = 1
  <2>1. /\ Len(down) \in Nat /\ Len(down) >= 1 /\ Head(down) = down[1] /\ (Len(down) = 1 => Tail(down) = <<>>)
    BY <1>0, <1>1, TailLemma
  <2>2. 1 \in 1..Len(down)
    BY <2>1
  <2> QED BY <1>1, <2>1, <2>2 DEF IInv, InTurn
<1>5. /\ up' \in Seq(UpMessages) /\ Len(up') = Len(up) + 1 /\ Len(up) \in Nat
      /\ up'[Len(up) + 1] = m /\ \A i \in 1..Len(up) : up'[i] = up[i]
      /\ up' # <<>>
  BY <1>0, <1>1, <1>3, AppendLemma
<1>6. Types'
  <2>1. down' \in Seq(DownMessages)
    BY <1>0, <1>1, TailLemma
  <2> QED BY <1>0, <1>1, <1>2, <1>5, <2>1, ClientTypes DEF IInv
<1>7. InTurn'
  <2>1. ASSUME NEW i \in 1..Len(up'), up'[i].kind = "configured" PROVE i = Len(up')
    <3>1. i \in 1..Len(up) \/ i = Len(up) + 1
      BY <1>5
    <3> QED BY <1>1, <1>5, <2>1, <3>1, InPlay
  <2>2. Len(down') = 0
    BY <1>4
  <2> QED BY <1>2, <1>4, <1>5, <2>1, <2>2 DEF InTurn
<1>8. PICK d :
        /\ DownWalk(server.signed, server.repeated, down, d)
        /\ ClientView(d[0]) /\ d[Len(down)] = ServerView
        /\ Sound => ~server.fault /\ Reported(d[0].seen)
  BY DEF IInv
<1>9. server.signed \in Nat
  BY DEF IInv, Types, ServerRecords
<1>10. /\ DownStep(server.repeated, d[0], Head(down), d[1]) /\ d[0] \in Views(server.signed)
       /\ \E e : /\ DownWalk(server.signed, server.repeated, down', e)
                 /\ e[0] = d[1] /\ e[Len(down')] = ServerView
  <2>1. down \in Seq(DownMessages) /\ down # <<>> /\ DownWalk(server.signed, server.repeated, down, d)
    BY <1>0, <1>1, <1>8
  <2>2. /\ DownStep(server.repeated, d[0], Head(down), d[1]) /\ d[0] \in Views(server.signed)
        /\ \E e : /\ DownWalk(server.signed, server.repeated, Tail(down), e)
                  /\ e[0] = d[1] /\ e[Len(Tail(down))] = d[Len(down)]
    BY <1>9, <2>1, DownTail
  <2> QED BY <1>1, <1>8, <2>2
<1>11. PICK e : /\ DownWalk(server.signed, server.repeated, down', e)
                /\ e[0] = d[1] /\ e[Len(down')] = ServerView
  BY <1>10
<1>12. /\ e[0].phase = "configuration" /\ e[0].session = d[0].session + 1
       /\ e[0].seen = d[0].seen /\ d[0].seen \in Nat
  BY <1>1, <1>9, <1>10, <1>11, DownStepLemma
<1>13. ClientView(e[0])'
  BY <1>1, <1>2, <1>8, <1>12 DEF ClientView, Authenticated
<1>14. ASSUME Sound' PROVE ~server.fault /\ Reported(e[0].seen)'
  <2>0. PICK seen \in Nat : seen = d[0].seen
    BY <1>12
  <2>b. PICK b : b = [at |-> seen, chain |-> 0, session |-> None]
    OBVIOUS
  <2>1. Sound
    BY <1>1, <1>2, <1>14 DEF Sound, Authenticated
  <2>2. PICK g, record :
          /\ record \in Records /\ UpWalk(chat.authenticated, seen, record, up, g)
          /\ ServerReport(g[0], seen, record) /\ ClientReport(g[Len(up)], seen, record)
    BY <1>8, <2>0, <2>1 DEF Reported
  <2>3. b \in Reports(seen)
    BY <2>b DEF Reports
  <2>4. UpStep(chat.authenticated, seen, record, g[Len(up)], m, b)
    BY <2>b DEF UpStep
  <2> HIDE DEF m
  <2>5. PICK h : UpWalk(chat.authenticated, seen, record, Append(up, m), h) /\ h[0] = g[0] /\ h[Len(Append(up, m))] = b
    BY <1>0, <1>3, <2>2, <2>3, <2>4, UpAppend
  <2>6. ServerReport(h[0], seen, record)'
    BY <1>1, <2>2, <2>5 DEF ServerReport
  <2>7. ClientReport(b, seen, record)'
    BY <1>2, <1>5, <2>b, <2>2 DEF ClientReport, Authenticated
  <2>8. UpWalk(chat.authenticated, seen, record, up, h)' /\ h[Len(up')] = b
    BY <1>1, <1>2, <2>5
  <2>9. Reported(seen)'
    BY <2>2, <2>6, <2>7, <2>8 DEF Reported
  <2> QED BY <1>8, <1>12, <2>0, <2>1, <2>9
<1> QED BY <1>1, <1>6, <1>7, <1>11, <1>13, <1>14, ClientStep

\* enter_play with a new chat session, which the server hears of before anything else.
LEMMA EnterPlayInv == ASSUME IInv, EnterPlay PROVE IInv'
<1> DEFINE s == chat.sequence
           s2 == IF Authenticated THEN FreshSequence(s.session + 1) ELSE s
           m == SessionUpdate(s.session + 1)
<1>0. chat \in ChatRecords /\ up \in Seq(UpMessages) /\ down \in Seq(DownMessages)
      /\ s.outgoing <= chat.chats /\ chat.chats \in Nat /\ s.session \in Nat
  BY DEF IInv, Types, ChatRecords
<1>1. /\ chat' = [chat EXCEPT !.phase = "play", !.sequence = s2]
      /\ up' = (IF Authenticated THEN Append(up, m) ELSE up)
      /\ server' = server /\ down' = Tail(down)
      /\ chat.phase = "configuration" /\ down # <<>> /\ Head(down).kind = "login"
  <2>1. CASE Authenticated
    BY <2>1, FreshSequenceLemma DEF EnterPlay, ResetSequence, FreshSequence
  <2>2. CASE ~Authenticated
    BY <1>0, <2>2 DEF EnterPlay, ChatRecords
  <2> QED BY <2>1, <2>2
<1>2. PICK d :
        /\ DownWalk(server.signed, server.repeated, down, d)
        /\ ClientView(d[0]) /\ d[Len(down)] = ServerView
        /\ Sound => ~server.fault /\ Reported(d[0].seen)
  BY DEF IInv
<1>3. server.signed \in Nat
  BY DEF IInv, Types, ServerRecords
<1>4. /\ DownStep(server.repeated, d[0], Head(down), d[1]) /\ d[0] \in Views(server.signed)
       /\ \E e : /\ DownWalk(server.signed, server.repeated, down', e)
                 /\ e[0] = d[1] /\ e[Len(down')] = ServerView
  <2>1. down \in Seq(DownMessages) /\ down # <<>> /\ DownWalk(server.signed, server.repeated, down, d)
    BY <1>0, <1>1, <1>2
  <2>2. /\ DownStep(server.repeated, d[0], Head(down), d[1]) /\ d[0] \in Views(server.signed)
        /\ \E e : /\ DownWalk(server.signed, server.repeated, Tail(down), e)
                  /\ e[0] = d[1] /\ e[Len(Tail(down))] = d[Len(down)]
    BY <1>3, <2>1, DownTail
  <2> QED BY <1>1, <1>2, <2>2
<1>5. PICK e : /\ DownWalk(server.signed, server.repeated, down', e)
               /\ e[0] = d[1] /\ e[Len(down')] = ServerView
  BY <1>4
<1>6. /\ e[0].phase = "play" /\ e[0].session = d[0].session /\ e[0].last = None /\ e[0].incoming = 0
      /\ e[0].seen = d[0].seen /\ d[0].seen \in Nat /\ d[0].session \in 1..MaxSessions
  BY <1>1, <1>3, <1>4, <1>5, DownStepLemma
<1>7. Authenticated => s.session + 1 = d[0].session /\ s.session + 1 \in 1..MaxSessions
  BY <1>1, <1>2, <1>6 DEF ClientView
<1>8. /\ s2 \in [session : 1..MaxSessions, outgoing : 0..MaxChats, incoming : 0..MaxMessages,
                 entries : [1..Capacity -> Signatures \cup {None}],
                 last : Signatures \cup {None}, offset : 0..MaxMessages]
      /\ Authenticated => /\ s2.session = s.session + 1 /\ s2.outgoing = 0 /\ s2.incoming = 0
                          /\ s2.last = None /\ s2.offset = 0
                          /\ \A k \in 1..Capacity : s2.entries[k] = None
      /\ ~Authenticated => s2 = s
      /\ s2.outgoing <= chat.chats
  <2>1. CASE Authenticated
    <3>1. s2 = FreshSequence(s.session + 1)
      BY <2>1
    <3> HIDE DEF s2
    <3> QED BY <1>0, <1>7, <2>1, <3>1, FreshSequenceLemma
  <2>2. CASE ~Authenticated
    BY <1>0, <2>2 DEF ChatRecords
  <2> QED BY <2>1, <2>2
<1>9. m \in UpMessages /\ m.kind = "session" /\ m.session = s.session + 1 /\ s.session + 1 \in Nat
  BY <1>0 DEF SessionUpdate, UpMessages
<1> HIDE DEF s2, m
<1>10. /\ chat' \in ChatRecords /\ chat'.sequence = s2 /\ chat'.phase = "play"
       /\ chat'.chats = chat.chats /\ chat'.lost = chat.lost /\ chat'.authenticated = chat.authenticated
  BY <1>0, <1>1, <1>8 DEF ChatRecords
<1>11. /\ Len(down) \in Nat /\ Len(down) >= 1 /\ Head(down) = down[1] /\ down' \in Seq(DownMessages)
       /\ Len(down') = Len(down) - 1
       /\ \A i \in 1..Len(down') : down'[i] = down[i+1] /\ i + 1 \in 1..Len(down)
  BY <1>0, <1>1, TailLemma
<1>12. up = <<>> /\ Len(up) = 0
  <2>1. 1 \in 1..Len(down)
    BY <1>11
  <2> QED BY <1>1, <1>11, <2>1 DEF IInv, InTurn
<1>13. /\ up' \in Seq(UpMessages)
       /\ \A i \in 1..Len(up') : up'[i].kind # "configured"
  <2>1. CASE Authenticated
    BY <1>0, <1>1, <1>9, <1>12, <2>1, AppendLemma
  <2>2. CASE ~Authenticated
    BY <1>0, <1>1, <1>12, <2>2
  <2> QED BY <2>1, <2>2
<1>14. Types'
  BY <1>1, <1>8, <1>10, <1>11, <1>13, ClientTypes DEF IInv
<1>15. InTurn'
  <2>1. ASSUME NEW i \in 1..Len(down')
        PROVE  down'[i].kind # "login" /\ (down'[i].kind = "configure" => i = Len(down'))
    <3>1. i + 1 # 1 /\ i \in Nat
      BY <1>11
    <3>2. down[i+1].kind = "configure" => i + 1 = Len(down)
      BY <1>11 DEF IInv, InTurn
    <3>3. down[i+1].kind # "login"
      BY <1>11, <3>1 DEF IInv, InTurn
    <3> QED BY <1>11, <3>1, <3>2, <3>3
  <2> QED BY <1>10, <1>13, <2>1 DEF InTurn
<1>16. ClientView(e[0])'
  BY <1>6, <1>7, <1>8, <1>10 DEF ClientView, Authenticated
<1>17. ASSUME Sound' PROVE ~server.fault /\ Reported(e[0].seen)'
  <2>0. PICK seen \in Nat : seen = d[0].seen
    BY <1>6
  <2>1. Sound
    BY <1>1, <1>10, <1>17 DEF Sound, Authenticated
  <2>2. PICK g, record :
          /\ record \in Records /\ UpWalk(chat.authenticated, seen, record, up, g)
          /\ ServerReport(g[0], seen, record) /\ ClientReport(g[Len(up)], seen, record)
    BY <1>2, <2>0, <2>1 DEF Reported
  <2>3. /\ g[0].at = seen /\ g[0].chain = 0 /\ g[0].session = None
        /\ ~Authenticated => \A p \in Nat : record[p] = None
        /\ \A k \in 1..Capacity : record[seen + k] = None
    BY <1>1, <1>12, <2>2 DEF ClientReport
  <2>4. CASE chat.authenticated
    <3>b. PICK b : b = [at |-> seen, chain |-> 0, session |-> s.session + 1]
      OBVIOUS
    <3>1. b \in Reports(seen)
      BY <1>9, <3>b DEF Reports
    <3>2. UpStep(chat.authenticated, seen, record, g[Len(up)], m, b)
      BY <1>9, <1>12, <2>3, <3>b DEF UpStep
    <3>3. PICK h : UpWalk(chat.authenticated, seen, record, Append(up, m), h) /\ h[0] = g[0] /\ h[Len(Append(up, m))] = b
      BY <1>0, <1>9, <2>2, <3>1, <3>2, UpAppend
    <3>4. ServerReport(h[0], seen, record)'
      BY <1>1, <2>2, <3>3 DEF ServerReport
    <3>5. seen + 0 = seen
      OBVIOUS
    <3>6. ClientReport(b, seen, record)'
      BY <1>8, <1>10, <2>3, <2>4, <3>b, <3>5 DEF ClientReport, Authenticated
    <3>7. UpWalk(chat.authenticated, seen, record, up, h)' /\ h[Len(up')] = b
      BY <1>1, <1>10, <2>4, <3>3 DEF Authenticated
    <3> QED BY <2>2, <3>4, <3>6, <3>7, <1>2, <1>6, <2>0, <2>1 DEF Reported
  <2>5. CASE ~chat.authenticated
    <3>1. up' = up
      BY <1>1, <2>5 DEF Authenticated
    <3>2. UpWalk(chat.authenticated, seen, record, up, g)' /\ ServerReport(g[0], seen, record)'
      BY <1>1, <1>10, <2>2, <3>1 DEF ServerReport
    <3>3. ClientReport(g[0], seen, record)'
      BY <1>10, <2>3, <2>5 DEF ClientReport, Authenticated
    <3> QED BY <1>12, <2>2, <3>1, <3>2, <3>3, <1>2, <1>6, <2>0, <2>1 DEF Reported
  <2> QED BY <2>4, <2>5
<1> QED BY <1>1, <1>5, <1>14, <1>15, <1>16, <1>17, ClientStep

\* One more signed message was seen: what the client claims of it is recorded.
LEMMA SeenReports ==
  ASSUME Types, NEW seen \in Nat, Reported(seen), chat.phase = "play",
         \A i \in 1..Len(up) : up[i].kind # "configured",
         NEW v \in {None, seen + 1}, ~Authenticated => v = None
  PROVE  \E g, record :
           /\ record \in Records
           /\ UpWalk(chat.authenticated, seen + 1, record, up, g)
           /\ ServerReport(g[0], seen + 1, record)
           /\ IF Authenticated
              THEN /\ g[Len(up)].at + chat.sequence.offset = seen
                   /\ g[Len(up)].chain = chat.sequence.outgoing /\ g[Len(up)].session = chat.sequence.session
                   /\ \A k \in 1..Capacity : chat.sequence.entries[k] = record[seen + k]
                   /\ record[(seen + 1) + Capacity] = v
              ELSE /\ g[Len(up)].at = seen /\ g[Len(up)].chain = 0 /\ g[Len(up)].session = None
                   /\ \A p \in Nat : record[p] = None
<1>0. /\ up \in Seq(UpMessages) /\ server.tracked \in Seq(Places)
  BY DEF Types, ServerRecords
<1>1. PICK g, record :
        /\ record \in Records /\ UpWalk(chat.authenticated, seen, record, up, g)
        /\ ServerReport(g[0], seen, record) /\ ClientReport(g[Len(up)], seen, record)
  BY DEF Reported
<1>2. /\ ~Authenticated => \A p \in Nat : record[p] = None
      /\ IF Authenticated
         THEN /\ g[Len(up)].at + chat.sequence.offset = seen
              /\ g[Len(up)].chain = chat.sequence.outgoing /\ g[Len(up)].session = chat.sequence.session
              /\ \A k \in 1..Capacity : chat.sequence.entries[k] = record[seen + k]
         ELSE g[Len(up)].at = seen /\ g[Len(up)].chain = 0 /\ g[Len(up)].session = None
  BY <1>1 DEF ClientReport
<1> DEFINE n == (seen + 1) + Capacity
           record2 == [record EXCEPT ![n] = v]
<1>3. /\ record2 \in Records /\ record2[n] = v
      /\ \A p \in 0..(seen + Capacity) : record2[p] = record[p]
      /\ \A p \in Nat : record2[p] = record[p] \/ record2[p] = v
  <2>1. n \in Nat /\ n > seen + Capacity /\ v \in Nat \cup {None}
    OBVIOUS
  <2> HIDE DEF n
  <2>2. \A p \in 0..(seen + Capacity) : p \in Nat /\ p # n
    BY <2>1
  <2> QED BY <1>1, <2>1, <2>2 DEF Records
<1> HIDE DEF record2
<1>4. UpWalk(chat.authenticated, seen + 1, record2, up, g)
  BY <1>0, <1>1, <1>3, GrowUp
<1>5. g[0].at \in Nat
  BY <1>1 DEF UpWalk, Reports
<1>6. Tracks(server.tracked, g[0].at, seen + 1, record2)
  <2>1. Tracks(server.tracked, g[0].at, seen, record)
    BY <1>1 DEF ServerReport
  <2> QED BY <1>0, <1>1, <1>3, <1>5, <2>1, TracksGrow
<1>7. ServerReport(g[0], seen + 1, record2)
  BY <1>1, <1>6 DEF ServerReport
<1>8. \A k \in 1..Capacity : record2[seen + k] = record[seen + k]
  <2>1. \A k \in 1..Capacity : seen + k \in 0..(seen + Capacity)
    OBVIOUS
  <2> QED BY <1>3, <2>1
<1>9. ~Authenticated => \A p \in Nat : record2[p] = None
  BY <1>2, <1>3
<1> QED BY <1>2, <1>3, <1>4, <1>7, <1>8, <1>9

\* What the standalone acknowledgement leaves of the sequence, and what it reports.
Continued(s) == IF Due(s) THEN [s EXCEPT !.offset = 0] ELSE s
Acknowledged(s) == IF Due(s) THEN s.offset ELSE 0

\* accept_incoming and the standalone acknowledgement: a new signature moves the window and
\* is counted, and more than Threshold are reported at once.
LEMMA SequenceLemma ==
  ASSUME Types, NEW m \in DownMessages, m.kind = "chat", NEW displayed \in BOOLEAN,
         chat.sequence.offset <= Threshold, chat.sequence.incoming + 1 \in 0..MaxMessages,
         m.signature = None \/ m.signature = chat.sequence.last \/ chat.sequence.offset + 1 <= MaxMessages
  PROVE  LET s == chat.sequence
             after == Accepted(s, m, displayed)
             s2 == Continued(after)
             acks == Acknowledged(after)
         IN  /\ m.signature = None \/ m.signature = s.last =>
                  /\ acks = 0 /\ s2.offset = s.offset /\ s2.entries = s.entries /\ s2.last = s.last
             /\ m.signature # None /\ m.signature # s.last =>
                  /\ \/ acks = 0 /\ s2.offset = s.offset + 1 /\ s2.offset <= Threshold
                     \/ acks = s.offset + 1 /\ acks > 0 /\ s2.offset = 0
                  /\ s2.last = m.signature
                  /\ s2.entries = Append(Tail(s.entries), IF displayed THEN m.signature ELSE None)
             /\ s2 \in [session : 1..MaxSessions, outgoing : 0..MaxChats,
                        incoming : 0..MaxMessages,
                        entries : [1..Capacity -> Signatures \cup {None}],
                        last : Signatures \cup {None}, offset : 0..MaxMessages]
             /\ s2.session = s.session /\ s2.outgoing = s.outgoing /\ s2.incoming = s.incoming + 1
             /\ Due(after) <=> acks > 0
<1> DEFINE s == chat.sequence
           S == [session : 1..MaxSessions, outgoing : 0..MaxChats, incoming : 0..MaxMessages,
                 entries : [1..Capacity -> Signatures \cup {None}],
                 last : Signatures \cup {None}, offset : 0..MaxMessages]
           after == Accepted(s, m, displayed)
           s2 == Continued(after)
           acks == Acknowledged(after)
           incoming == s.incoming + 1
           counted == [s EXCEPT !.incoming = incoming]
           v == IF displayed THEN m.signature ELSE None
<1>0. s \in S /\ m.signature \in Signatures \cup {None} /\ s.offset \in Nat
  BY DEF Types, ChatRecords, DownMessages
<1>n. incoming \in 0..MaxMessages /\ incoming = s.incoming + 1
  OBVIOUS
<1> HIDE DEF incoming
<1>1. counted \in S /\ counted.session = s.session /\ counted.outgoing = s.outgoing /\ counted.incoming = incoming
      /\ counted.entries = s.entries /\ counted.last = s.last /\ counted.offset = s.offset
  BY <1>0, <1>n
<1>2. after = IF m.signature = None THEN counted ELSE Added(counted, m.signature, displayed)
  BY <1>n DEF Accepted
<1> HIDE DEF counted
<1>3. s2 = (IF Due(after) THEN [after EXCEPT !.offset = 0] ELSE after) /\ acks = (IF Due(after) THEN after.offset ELSE 0)
  BY DEF Continued, Acknowledged
<1> HIDE DEF after, s2, acks
<1>4. CASE m.signature = None \/ m.signature = s.last
  <2>1. after = counted
    BY <1>1, <1>2, <1>4 DEF Added
  <2>2. ~Due(after)
    BY <1>0, <1>1, <2>1 DEF Due
  <2>3. s2 = counted /\ acks = 0
    BY <1>3, <2>1, <2>2
  <2> QED BY <1>0, <1>1, <1>4, <1>n, <2>2, <2>3 DEF after, s2, acks
<1>5. CASE m.signature # None /\ m.signature # s.last /\ s.offset + 1 <= MaxMessages
  <2> DEFINE entries == Append(Tail(s.entries), v)
             offset == s.offset + 1
  <2>1. after = [counted EXCEPT !.last = m.signature, !.offset = offset, !.entries = entries]
    BY <1>1, <1>2, <1>5 DEF Added
  <2>2. entries \in [1..Capacity -> Signatures \cup {None}]
    BY <1>0, WindowLemma
  <2>3. offset \in 0..MaxMessages /\ offset \in Nat /\ offset > 0 /\ 0 \in 0..MaxMessages
    BY <1>0, <1>5
  <2> HIDE DEF offset, entries
  <2>4. /\ after \in S /\ after.session = s.session /\ after.outgoing = s.outgoing /\ after.incoming = incoming
        /\ after.entries = entries /\ after.last = m.signature /\ after.offset = offset
    BY <1>0, <1>1, <2>1, <2>2, <2>3
  <2>5. CASE Due(after)
    <3>1. s2 = [after EXCEPT !.offset = 0] /\ acks = offset
      BY <1>3, <2>4, <2>5
    <3>2. /\ s2 \in S /\ s2.session = s.session /\ s2.outgoing = s.outgoing /\ s2.incoming = incoming
          /\ s2.entries = entries /\ s2.last = m.signature /\ s2.offset = 0
      BY <2>3, <2>4, <3>1
    <3> QED BY <1>5, <1>n, <2>3, <2>5, <3>1, <3>2 DEF entries, offset, after, s2, acks
  <2>6. CASE ~Due(after)
    <3>1. s2 = after /\ acks = 0
      BY <1>3, <2>6
    <3>2. offset <= Threshold
      BY <2>3, <2>4, <2>6 DEF Due
    <3> QED BY <1>5, <1>n, <2>4, <2>6, <3>1, <3>2 DEF entries, offset, after, s2, acks
  <2> QED BY <2>5, <2>6
<1> QED BY <1>4, <1>5

\* An acknowledgement of what is left to report brings the walk along up to its end.
LEMMA AckWalk ==
  ASSUME Types, NEW seen \in Nat, NEW record, NEW g, UpWalk(chat.authenticated, seen, record, up, g),
         NEW n \in Nat, g[Len(up)].at + n = seen
  PROVE  \E h : /\ UpWalk(chat.authenticated, seen, record, Append(up, Ack(n)), h) /\ h[0] = g[0]
                /\ h[Len(Append(up, Ack(n)))] = [g[Len(up)] EXCEPT !.at = seen]
<1>0. up \in Seq(UpMessages) /\ Len(up) \in Nat
  BY LenProperties DEF Types
<1>1. g[Len(up)] \in Reports(seen)
  BY <1>0 DEF UpWalk
<1>b. PICK b : b = [g[Len(up)] EXCEPT !.at = seen]
  OBVIOUS
<1>2. b \in Reports(seen)
  BY <1>1, <1>b DEF Reports
<1>3. UpStep(chat.authenticated, seen, record, g[Len(up)], Ack(n), b)
  BY <1>b DEF UpStep, Ack
<1>4. Ack(n) \in UpMessages
  BY DEF Ack, UpMessages
<1>5. \E h : UpWalk(chat.authenticated, seen, record, Append(up, Ack(n)), h) /\ h[0] = g[0]
             /\ h[Len(Append(up, Ack(n)))] = b
  BY <1>0, <1>2, <1>3, <1>4, UpAppend
<1> QED BY <1>b, <1>5

\* accept_incoming with the standalone acknowledgement, for a message the queue took or dropped.
LEMMA PlayerChatInv == ASSUME IInv, NEW displayed \in BOOLEAN, PlayerChat(displayed) PROVE IInv'
<1>m. PICK m : m = Head(down)
  OBVIOUS
<1> DEFINE s == chat.sequence
           after == Accepted(s, m, displayed)
           s2 == Continued(after)
           acks == Acknowledged(after)
<1>0. chat \in ChatRecords /\ up \in Seq(UpMessages) /\ down \in Seq(DownMessages)
      /\ s.outgoing <= chat.chats /\ chat.chats \in Nat /\ server.signed \in Nat /\ server.signed <= MaxMessages
      /\ Types
  BY DEF IInv, Types, ChatRecords, ServerRecords
<1>1. /\ chat.phase = "play" /\ down # <<>> /\ m.kind = "chat"
      /\ server' = server /\ down' = Tail(down)
  BY <1>m DEF PlayerChat
<1>2. PICK d :
        /\ DownWalk(server.signed, server.repeated, down, d)
        /\ ClientView(d[0]) /\ d[Len(down)] = ServerView
        /\ Sound => ~server.fault /\ Reported(d[0].seen)
  BY DEF IInv
<1>3. /\ DownStep(server.repeated, d[0], m, d[1])
      /\ d[0] \in Views(server.signed) /\ d[1] \in Views(server.signed)
      /\ \E e : /\ DownWalk(server.signed, server.repeated, Tail(down), e)
                /\ e[0] = d[1] /\ e[Len(Tail(down))] = ServerView
  <2>1. down \in Seq(DownMessages) /\ down # <<>> /\ DownWalk(server.signed, server.repeated, down, d)
    BY <1>0, <1>1, <1>2
  <2>2. /\ DownStep(server.repeated, d[0], Head(down), d[1])
        /\ d[0] \in Views(server.signed) /\ d[1] \in Views(server.signed)
        /\ \E e : /\ DownWalk(server.signed, server.repeated, Tail(down), e)
                  /\ e[0] = d[1] /\ e[Len(Tail(down))] = d[Len(down)]
    BY <1>0, <2>1, DownTail
  <2> QED BY <1>2, <1>m, <2>2
<1>4. PICK e : /\ DownWalk(server.signed, server.repeated, down', e)
               /\ e[0] = d[1] /\ e[Len(down')] = ServerView
  BY <1>1, <1>3
<1>5. /\ Len(down) \in Nat /\ Len(down) >= 1 /\ m = down[1] /\ down' \in Seq(DownMessages) /\ m \in DownMessages
      /\ Len(down') = Len(down) - 1
      /\ \A i \in 1..Len(down') : down'[i] = down[i+1] /\ i + 1 \in 1..Len(down)
  BY <1>0, <1>1, <1>m, TailLemma
<1>6. PICK seen \in Nat, seen2 \in Nat, incoming \in Nat :
        /\ seen = d[0].seen /\ seen2 = e[0].seen /\ incoming = e[0].incoming
        /\ seen2 \in 0..MaxMessages /\ incoming \in 0..MaxMessages
        /\ e[0].phase = "play" /\ e[0].session = d[0].session
        /\ m.index = d[0].incoming /\ incoming = d[0].incoming + 1
        /\ \/ /\ m.signature = None \/ (m.signature = d[0].last /\ server.repeated)
              /\ seen2 = seen /\ e[0].last = d[0].last
           \/ /\ m.signature = seen + 1 /\ m.signature # d[0].last
              /\ seen2 = seen + 1 /\ e[0].last = m.signature
  <2>1. /\ d[0].seen \in Nat /\ d[1].seen \in Nat /\ d[1].incoming \in Nat
        /\ d[1].seen \in 0..MaxMessages /\ d[1].incoming \in 0..MaxMessages
    BY <1>0, <1>3 DEF Views
  <2>2. /\ d[1].phase = "play" /\ d[1].session = d[0].session
        /\ m.index = d[0].incoming /\ d[1].incoming = d[0].incoming + 1
        /\ \/ /\ m.signature = None \/ (m.signature = d[0].last /\ server.repeated)
              /\ d[1].seen = d[0].seen /\ d[1].last = d[0].last
           \/ /\ m.signature = d[0].seen + 1 /\ m.signature # d[0].last
              /\ d[1].seen = d[0].seen + 1 /\ d[1].last = m.signature
    <3>1. /\ server.signed \in Nat /\ d[0] \in Views(server.signed)
          /\ DownStep(server.repeated, d[0], m, d[1]) /\ m.kind = "chat"
      BY <1>0, <1>1, <1>3
    <3> QED BY <3>1, DownStepLemma
  <2> QED BY <1>4, <2>1, <2>2
<1>7. /\ \A i \in 1..Len(down') : down'[i].kind # "login" /\ (down'[i].kind = "configure" => i = Len(down'))
      /\ \A i \in 1..Len(up) : up[i].kind # "configured"
  <2>1. \A i \in 1..Len(down) : down[i].kind # "login" /\ (down[i].kind = "configure" => i = Len(down))
    BY <1>1, InPlay DEF IInv, InTurn
  <2>2. ASSUME NEW i \in 1..Len(down') PROVE i + 1 = Len(down) => i = Len(down')
    BY <1>5
  <2> QED BY <1>1, <1>5, <2>1, <2>2, InPlay
\* An acknowledgement that may be written.
<1>8. ASSUME NEW n \in Nat
      PROVE  /\ Ack(n) \in UpMessages /\ Ack(n).kind = "ack" /\ Ack(n).count = n
             /\ Append(up, Ack(n)) \in Seq(UpMessages) /\ up \o <<Ack(n)>> = Append(up, Ack(n))
             /\ \A i \in 1..Len(Append(up, Ack(n))) : Append(up, Ack(n))[i].kind # "configured"
  <2>1. Ack(n) \in UpMessages /\ Ack(n).kind = "ack" /\ Ack(n).count = n
    BY DEF Ack, UpMessages
  <2>2. /\ Append(up, Ack(n)) \in Seq(UpMessages) /\ Len(Append(up, Ack(n))) = Len(up) + 1 /\ Len(up) \in Nat
        /\ Append(up, Ack(n))[Len(up) + 1] = Ack(n)
        /\ \A i \in 1..Len(up) : Append(up, Ack(n))[i] = up[i]
    BY <1>0, <2>1, AppendLemma
  <2>3. up \o <<Ack(n)>> = Append(up, Ack(n))
    BY <1>0, <2>1, AppendIsConcat
  <2>4. ASSUME NEW i \in 1..Len(Append(up, Ack(n))) PROVE Append(up, Ack(n))[i].kind # "configured"
    <3>1. i \in 1..Len(up) \/ i = Len(up) + 1
      BY <2>2
    <3> QED BY <1>7, <2>1, <2>2, <3>1
  <2> QED BY <2>1, <2>2, <2>3, <2>4
<1>9. ASSUME chat' \in ChatRecords, chat'.sequence.outgoing <= chat'.chats, chat'.phase = "play",
             up' = up \/ \E n \in Nat : up' = Append(up, Ack(n)),
             ClientView(e[0])', Sound' => ~server.fault /\ Reported(seen2)'
      PROVE  IInv'
  <2>1. up' \in Seq(UpMessages) /\ \A i \in 1..Len(up') : up'[i].kind # "configured"
    <3>1. CASE up' = up
      BY <1>0, <1>7, <3>1
    <3>2. ASSUME NEW n \in Nat, up' = Append(up, Ack(n)) PROVE up' \in Seq(UpMessages) /\ \A i \in 1..Len(up') : up'[i].kind # "configured"
      BY <1>8, <3>2
    <3> QED BY <1>9, <3>1, <3>2
  <2>2. Types'
    BY <1>0, <1>1, <1>5, <1>9, <2>1, ClientTypes
  <2>3. InTurn'
    BY <1>7, <1>9, <2>1 DEF InTurn
  <2> QED BY <1>1, <1>4, <1>6, <1>9, <2>2, <2>3, ClientStep
<1>11. CASE ~chat.authenticated
  <2>1. chat' = chat /\ up' = up \o UnsignedAcks(m)
    BY <1>11, <1>m DEF PlayerChat, Authenticated
  <2>2. IF m.signature = None THEN up' = up ELSE up' = Append(up, Ack(1))
    <3>1. up \o <<>> = up
      BY <1>0, ConcatEmptySeq
    <3> QED BY <1>8, <2>1, <3>1 DEF UnsignedAcks
  <2>3. ClientView(e[0])'
    BY <1>1, <1>6, <1>11, <2>1 DEF ClientView, Authenticated
  <2>4. ASSUME Sound' PROVE ~server.fault /\ Reported(seen2)'
    <3>1. Sound /\ ~server.repeated
      BY <1>1, <1>11, <2>1, <2>4 DEF Sound, Authenticated
    <3>2. ~server.fault /\ Reported(seen)
      BY <1>2, <1>6, <3>1
    <3>3. CASE m.signature = None
      <4>1. seen2 = seen /\ up' = up
        BY <1>6, <2>2, <3>3
      <4>2. PICK g, record :
              /\ record \in Records /\ UpWalk(chat.authenticated, seen, record, up, g)
              /\ ServerReport(g[0], seen, record) /\ ClientReport(g[Len(up)], seen, record)
        BY <3>2 DEF Reported
      <4>3. /\ UpWalk(chat.authenticated, seen, record, up, g)'
            /\ ServerReport(g[0], seen, record)' /\ ClientReport(g[Len(up)], seen, record)'
        BY <1>1, <2>1, <4>1, <4>2 DEF ServerReport, ClientReport, Authenticated
      <4> QED BY <3>2, <4>1, <4>2, <4>3 DEF Reported
    <3>4. CASE m.signature # None
      <4>1. seen2 = seen + 1 /\ up' = Append(up, Ack(1))
        BY <1>6, <2>2, <3>1, <3>4
      <4>2. PICK g, record :
              /\ record \in Records
              /\ UpWalk(chat.authenticated, seen + 1, record, up, g)
              /\ ServerReport(g[0], seen + 1, record)
              /\ g[Len(up)].at = seen /\ g[Len(up)].chain = 0 /\ g[Len(up)].session = None
              /\ \A p \in Nat : record[p] = None
        BY <1>0, <1>1, <1>7, <1>11, <3>2, SeenReports DEF Authenticated
      <4>3. PICK h : /\ UpWalk(chat.authenticated, seen2, record, Append(up, Ack(1)), h) /\ h[0] = g[0]
                     /\ h[Len(Append(up, Ack(1)))] = [g[Len(up)] EXCEPT !.at = seen2]
        <5>1. UpWalk(chat.authenticated, seen2, record, up, g) /\ record \in Records /\ g[Len(up)].at + 1 = seen2
          BY <4>1, <4>2
        <5>2. Types /\ 1 \in Nat
          BY <1>0
        <5> QED BY <5>1, <5>2, AckWalk
      <4>4. g[Len(up)] \in Reports(seen2)
        <5>1. Len(up) \in Nat
          BY <1>0, LenProperties
        <5> QED BY <4>1, <4>2, <5>1 DEF UpWalk
      <4>5. h[Len(up')].at = seen2 /\ h[Len(up')].chain = 0 /\ h[Len(up')].session = None
        BY <4>1, <4>2, <4>3, <4>4 DEF Reports
      <4>b. PICK b : b = h[Len(up')]
        OBVIOUS
      <4>6. ClientReport(b, seen2, record)'
        BY <1>1, <1>11, <2>1, <4>2, <4>5, <4>b DEF ClientReport, Authenticated
      <4>7. ServerReport(h[0], seen2, record)' /\ UpWalk(chat.authenticated, seen2, record, up, h)'
        BY <1>1, <2>1, <4>1, <4>2, <4>3 DEF ServerReport
      <4> QED BY <3>2, <4>2, <4>6, <4>7, <4>b DEF Reported
    <3> QED BY <3>3, <3>4
  <2>5. up' = up \/ \E n \in Nat : up' = Append(up, Ack(n))
    BY <2>2
  <2> QED BY <1>0, <1>1, <1>9, <2>1, <2>3, <2>4, <2>5
<1>12. CASE chat.authenticated
  <2>0. /\ s.last = d[0].last /\ s.incoming = d[0].incoming /\ s.offset <= seen /\ s.offset <= Threshold
        /\ d[0].session = s.session
    BY <1>1, <1>2, <1>6, <1>12 DEF ClientView, Authenticated
  <2>1. /\ chat' = [chat EXCEPT !.sequence = s2]
        /\ up' = IF Due(after) THEN Append(up, Ack(acks)) ELSE up
    BY <1>6, <1>12, <1>m, <2>0 DEF PlayerChat, Authenticated, Continued, Acknowledged
  <2>2. PICK q, n : q = s2 /\ n = acks
    OBVIOUS
  <2>3. up' = Append(up, Ack(n)) \/ (up' = up /\ n = 0)
    BY <2>1, <2>2 DEF Acknowledged
  <2>o. s.offset \in Nat
    BY <1>0 DEF ChatRecords
  <2>4. q = Continued(Accepted(chat.sequence, m, displayed)) /\ n = Acknowledged(Accepted(chat.sequence, m, displayed))
    BY <2>2
  <2>5. /\ m.signature = None \/ m.signature = s.last =>
             /\ n = 0 /\ q.offset = s.offset /\ q.entries = s.entries /\ q.last = s.last
        /\ m.signature # None /\ m.signature # s.last =>
             /\ \/ n = 0 /\ q.offset = s.offset + 1 /\ q.offset <= Threshold
                \/ n = s.offset + 1 /\ n > 0 /\ q.offset = 0
             /\ q.last = m.signature
             /\ q.entries = Append(Tail(s.entries), IF displayed THEN m.signature ELSE None)
        /\ q \in [session : 1..MaxSessions, outgoing : 0..MaxChats, incoming : 0..MaxMessages,
                  entries : [1..Capacity -> Signatures \cup {None}],
                  last : Signatures \cup {None}, offset : 0..MaxMessages]
        /\ q.session = s.session /\ q.outgoing = s.outgoing /\ q.incoming = incoming
    <3>1. m.signature = None \/ m.signature = s.last \/ s.offset + 1 <= MaxMessages
      BY <1>6, <2>0, <2>o
    <3>2. /\ chat.sequence.offset <= Threshold /\ chat.sequence.incoming + 1 = incoming
          /\ incoming \in 0..MaxMessages
      BY <1>6, <2>0
    <3>3. /\ Types /\ m \in DownMessages /\ m.kind = "chat"
          /\ chat.sequence.offset <= Threshold /\ chat.sequence.incoming + 1 \in 0..MaxMessages
          /\ m.signature = None \/ m.signature = chat.sequence.last \/ chat.sequence.offset + 1 <= MaxMessages
      BY <1>0, <1>1, <1>5, <3>1, <3>2
    <3>4. LET c == chat.sequence
              w == Accepted(c, m, displayed)
              x == Continued(w)
              y == Acknowledged(w)
         IN  /\ m.signature = None \/ m.signature = c.last =>
                  /\ y = 0 /\ x.offset = c.offset /\ x.entries = c.entries /\ x.last = c.last
             /\ m.signature # None /\ m.signature # c.last =>
                  /\ \/ y = 0 /\ x.offset = c.offset + 1 /\ x.offset <= Threshold
                     \/ y = c.offset + 1 /\ y > 0 /\ x.offset = 0
                  /\ x.last = m.signature
                  /\ x.entries = Append(Tail(c.entries), IF displayed THEN m.signature ELSE None)
             /\ x \in [session : 1..MaxSessions, outgoing : 0..MaxChats,
                        incoming : 0..MaxMessages,
                        entries : [1..Capacity -> Signatures \cup {None}],
                        last : Signatures \cup {None}, offset : 0..MaxMessages]
             /\ x.session = c.session /\ x.outgoing = c.outgoing /\ x.incoming = c.incoming + 1
             /\ Due(w) <=> y > 0
      <4> HIDE DEF s, after, s2, acks
      <4> QED BY <3>3, SequenceLemma
    <3> QED BY <2>4, <3>2, <3>4
  <2>6. /\ chat' \in ChatRecords /\ chat'.sequence = q /\ chat'.phase = "play"
        /\ chat'.chats = chat.chats /\ chat'.lost = chat.lost /\ chat'.authenticated = chat.authenticated
    <3>1. chat' = [chat EXCEPT !.sequence = q]
      BY <2>1, <2>2
    <3> QED BY <1>0, <1>1, <2>5, <3>1 DEF ChatRecords
  <2>p. n = 0 => up' = up
    <3>1. Due(after) => n > 0
      <4>1. m.signature = None \/ m.signature = s.last \/ s.offset + 1 <= MaxMessages
        BY <1>6, <2>0, <2>o
      <4>2. s.offset <= Threshold /\ s.incoming + 1 \in 0..MaxMessages
        BY <1>6, <2>0
      <4>3. Due(Accepted(s, m, displayed)) <=> Acknowledged(Accepted(s, m, displayed)) > 0
        <5>1. /\ Types /\ m \in DownMessages /\ m.kind = "chat"
              /\ chat.sequence.offset <= Threshold /\ chat.sequence.incoming + 1 \in 0..MaxMessages
              /\ m.signature = None \/ m.signature = chat.sequence.last \/ chat.sequence.offset + 1 <= MaxMessages
          BY <1>0, <1>1, <1>5, <4>1, <4>2
        <5> QED BY <5>1, SequenceLemma
      <4> QED BY <2>2, <4>3
    <3> QED BY <2>1, <3>1
  <2> HIDE DEF after, s2, acks
  \* The two kinds of message: nothing new, or the next signed one.
  <2>7. \/ /\ seen2 = seen /\ n = 0 /\ q.offset = s.offset /\ q.entries = s.entries
           /\ e[0].last = q.last
        \/ /\ seen2 = seen + 1 /\ m.signature = seen + 1 /\ e[0].last = q.last
           /\ \/ n = 0 /\ q.offset = s.offset + 1 /\ q.offset <= Threshold
              \/ n = s.offset + 1 /\ n > 0 /\ q.offset = 0
           /\ q.entries = Append(Tail(s.entries), IF displayed THEN m.signature ELSE None)
    <3>1. CASE (m.signature = None \/ m.signature = d[0].last) /\ seen2 = seen /\ e[0].last = d[0].last
      BY <2>0, <2>5, <3>1
    <3>2. CASE m.signature = seen + 1 /\ m.signature # d[0].last /\ seen2 = seen + 1 /\ e[0].last = m.signature
      <4>1. m.signature # None
        BY <3>2
      <4> QED BY <2>0, <2>5, <3>2, <4>1
    <3> QED BY <1>6, <3>1, <3>2
  <2>8. n \in Nat /\ q.offset \in Nat /\ q.offset <= seen2 /\ q.offset <= Threshold
    BY <2>0, <2>o, <2>7
  <2>9. ClientView(e[0])'
    BY <1>6, <2>0, <2>5, <2>6, <2>7, <2>8 DEF ClientView, Authenticated
  <2>10. ASSUME Sound' PROVE ~server.fault /\ Reported(seen2)'
    <3>1. ~server.fault /\ Reported(seen)
      BY <1>1, <1>2, <1>6, <2>6, <2>10 DEF Sound, Authenticated
    <3>2. CASE seen2 = seen /\ n = 0 /\ q.offset = s.offset /\ q.entries = s.entries /\ up' = up
      <4>1. PICK g, record :
              /\ record \in Records /\ UpWalk(chat.authenticated, seen, record, up, g)
              /\ ServerReport(g[0], seen, record) /\ ClientReport(g[Len(up)], seen, record)
        BY <3>1 DEF Reported
      <4>2. ClientReport(g[Len(up)], seen, record)'
        BY <1>1, <1>12, <2>5, <2>6, <3>2, <4>1 DEF ClientReport, Authenticated
      <4>3. ServerReport(g[0], seen, record)' /\ UpWalk(chat.authenticated, seen, record, up, g)'
        BY <1>1, <2>6, <3>2, <4>1 DEF ServerReport
      <4>4. Reported(seen)'
        BY <3>2, <4>1, <4>2, <4>3 DEF Reported
      <4> QED BY <3>1, <3>2, <4>4
    <3>3. CASE seen2 = seen + 1
      <4>v. PICK v : v = IF displayed THEN m.signature ELSE None
        OBVIOUS
      <4>1. v \in {None, seen + 1} /\ q.entries = Append(Tail(s.entries), v)
            /\ \/ n = 0 /\ q.offset = s.offset + 1 /\ up' = up
               \/ n = s.offset + 1 /\ q.offset = 0 /\ up' = Append(up, Ack(n))
        <5>1. /\ m.signature = seen + 1
              /\ q.entries = Append(Tail(s.entries), v)
              /\ \/ n = 0 /\ q.offset = s.offset + 1
                 \/ n = s.offset + 1 /\ n > 0 /\ q.offset = 0
          BY <2>7, <3>3, <4>v
        <5>2. n = 0 => up' = up
          BY <2>p
        <5> QED BY <2>3, <4>v, <5>1, <5>2
      <4>2. PICK g, record :
              /\ record \in Records
              /\ UpWalk(chat.authenticated, seen + 1, record, up, g)
              /\ ServerReport(g[0], seen + 1, record)
              /\ g[Len(up)].at + s.offset = seen
              /\ g[Len(up)].chain = s.outgoing /\ g[Len(up)].session = s.session
              /\ \A k \in 1..Capacity : s.entries[k] = record[seen + k]
              /\ record[(seen + 1) + Capacity] = v
        <5>1. /\ Types /\ seen \in Nat /\ Reported(seen) /\ v \in {None, seen + 1} /\ Authenticated
              /\ chat.phase = "play" /\ \A i \in 1..Len(up) : up[i].kind # "configured"
          BY <1>0, <1>1, <1>7, <1>12, <3>1, <4>1 DEF Authenticated
        <5>2. \E g, record :
           /\ record \in Records
           /\ UpWalk(chat.authenticated, seen + 1, record, up, g)
           /\ ServerReport(g[0], seen + 1, record)
           /\ IF Authenticated
              THEN /\ g[Len(up)].at + chat.sequence.offset = seen
                   /\ g[Len(up)].chain = chat.sequence.outgoing /\ g[Len(up)].session = chat.sequence.session
                   /\ \A k \in 1..Capacity : chat.sequence.entries[k] = record[seen + k]
                   /\ record[(seen + 1) + Capacity] = v
              ELSE /\ g[Len(up)].at = seen /\ g[Len(up)].chain = 0 /\ g[Len(up)].session = None
                   /\ \A p \in Nat : record[p] = None
          BY <5>1, SeenReports
        <5> QED BY <5>1, <5>2
      <4>3. \A k \in 1..Capacity : q.entries[k] = record[seen2 + k]
        <5>1. v \in Nat \cup {None} /\ s.entries \in [1..Capacity -> Nat \cup {None}]
          BY <1>0, <4>1 DEF ChatRecords, Signatures
        <5>2. /\ q.entries[Capacity] = v
              /\ \A k \in 1..Capacity : k # Capacity => q.entries[k] = s.entries[k+1] /\ k + 1 \in 1..Capacity
          BY <4>1, <5>1, WindowLemma
        <5>3. ASSUME NEW k \in 1..Capacity PROVE q.entries[k] = record[seen2 + k]
          <6>1. CASE k = Capacity
            BY <3>3, <4>2, <5>2, <6>1
          <6>2. CASE k # Capacity
            <7>1. seen + (k + 1) = seen2 + k
              BY <3>3
            <7> QED BY <4>2, <5>2, <6>2, <7>1
          <6> QED BY <6>1, <6>2
        <5> QED BY <5>3
      <4>4. Len(up) \in Nat /\ g[Len(up)] \in Reports(seen2)
        <5>1. Len(up) \in Nat
          BY <1>0, LenProperties
        <5> QED BY <3>3, <4>2, <5>1 DEF UpWalk
      <4>5. g[Len(up)].at \in Nat
        BY <4>4 DEF Reports
      <4>6. CASE q.offset = s.offset + 1 /\ up' = up
        <5>1. g[Len(up)].at + q.offset = seen2
          BY <2>o, <3>3, <4>2, <4>5, <4>6
        <5>2. ClientReport(g[Len(up)], seen2, record)'
          BY <1>12, <2>5, <2>6, <4>2, <4>3, <4>6, <5>1 DEF ClientReport, Authenticated
        <5>3. ServerReport(g[0], seen2, record)' /\ UpWalk(chat.authenticated, seen2, record, up, g)'
          BY <1>1, <2>6, <3>3, <4>2, <4>6 DEF ServerReport
        <5> QED BY <3>1, <4>2, <4>6, <5>2, <5>3 DEF Reported
      <4>7. CASE n = s.offset + 1 /\ q.offset = 0 /\ up' = Append(up, Ack(n))
        <5>1. g[Len(up)].at + n = seen2
          BY <2>o, <3>3, <4>2, <4>5, <4>7
        <5>2. PICK h : /\ UpWalk(chat.authenticated, seen2, record, Append(up, Ack(n)), h) /\ h[0] = g[0]
                       /\ h[Len(Append(up, Ack(n)))] = [g[Len(up)] EXCEPT !.at = seen2]
          <6>1. UpWalk(chat.authenticated, seen2, record, up, g) /\ n \in Nat /\ Types
            BY <1>0, <2>8, <3>3, <4>2
          <6> QED BY <5>1, <6>1, AckWalk
        <5>3. h[Len(up')].at = seen2 /\ h[Len(up')].chain = s.outgoing /\ h[Len(up')].session = s.session
          BY <4>2, <4>4, <4>7, <5>2 DEF Reports
        <5>4. seen2 + 0 = seen2
          OBVIOUS
        <5>b. PICK b : b = h[Len(up')]
          OBVIOUS
        <5>5. ClientReport(b, seen2, record)'
          BY <1>12, <2>5, <2>6, <4>3, <4>7, <5>3, <5>4, <5>b DEF ClientReport, Authenticated
        <5>6. ServerReport(h[0], seen2, record)' /\ UpWalk(chat.authenticated, seen2, record, up, h)'
          BY <1>1, <2>6, <3>3, <4>2, <4>7, <5>2 DEF ServerReport
        <5> QED BY <3>1, <3>3, <4>2, <5>5, <5>6, <5>b DEF Reported
      <4> QED BY <4>1, <4>6, <4>7
    <3>4. seen2 = seen /\ n = 0 => up' = up
      BY <2>p
    <3> QED BY <2>7, <3>2, <3>3, <3>4
  <2>11. chat'.sequence.outgoing <= chat'.chats
    BY <1>0, <2>5, <2>6
  <2> QED BY <1>9, <2>3, <2>6, <2>8, <2>9, <2>10, <2>11
<1> QED BY <1>11, <1>12


-----------------------------------------------------------------------------
(* The server.                                                             *)

LEMMA ServerStep ==
  ASSUME Types', InTurn', chat' = chat, NEW e,
         DownWalk(server'.signed, server'.repeated, down', e), ClientView(e[0]), e[Len(down')] = ServerView',
         Sound' => ~server'.fault /\ Reported(e[0].seen)'
  PROVE  IInv'
<1>1. ClientView(e[0])'
  BY DEF ClientView, Authenticated
<1> QED BY <1>1 DEF IInv

\* A server in Play has neither announced a reconfiguration nor is about to hear of one.
LEMMA ServerInPlay ==
  ASSUME IInv, server.phase = "play"
  PROVE  /\ \A i \in 1..Len(down) : down[i].kind # "configure"
         /\ \A i \in 1..Len(up) : up[i].kind # "configured"
<1>0. down \in Seq(DownMessages) /\ Len(down) \in Nat
  BY LenProperties DEF IInv, Types
<1>1. PICK d :
        DownWalk(server.signed, server.repeated, down, d) /\ ClientView(d[0]) /\ d[Len(down)] = ServerView
  BY DEF IInv
<1>2. d[Len(down)].phase = "play"
  BY <1>1 DEF ServerView
<1>3. ASSUME NEW i \in 1..Len(down), down[i].kind = "configure" PROVE FALSE
  <2>1. i = Len(down)
    BY <1>3 DEF IInv, InTurn
  <2>2. DownStep(server.repeated, d[i-1], down[i], d[i])
    BY <1>1 DEF DownWalk
  <2>3. d[i-1] \in Views(server.signed)
    <3>1. i - 1 \in Nat
      BY <1>0
    <3> QED BY <1>1, <3>1 DEF DownWalk
  <2>4. d[i].phase = "configuration"
    BY <1>3, <2>2, <2>3 DEF DownStep, Views
  <2> QED BY <1>2, <2>1, <2>4
<1>4. ASSUME NEW i \in 1..Len(up), up[i].kind = "configured" PROVE FALSE
  <2>1. down = <<>> /\ chat.phase = "configuration"
    BY <1>4 DEF IInv, InTurn
  <2>2. Len(down) = 0
    BY <2>1
  <2> QED BY <1>1, <1>2, <2>1, <2>2 DEF ClientView
<1> QED BY <1>3, <1>4

\* A signed message that was just sent is tracked after all the others.
LEMMA TracksAppend ==
  ASSUME NEW t \in Seq(Places), NEW at \in Nat, NEW seen \in Nat, NEW signed \in Nat, NEW record,
         signed + 1 \in Signatures, seen <= signed, at + Len(t) = signed + Capacity,
         Tracks(t, at, seen, record), NEW p, p = [signature |-> signed + 1, pending |-> TRUE]
  PROVE  /\ Append(t, p) \in Seq(Places)
         /\ at + Len(Append(t, p)) = (signed + 1) + Capacity
         /\ Tracks(Append(t, p), at, seen, record)
<1>0. p \in Places
  BY DEF Places
<1>1. /\ Append(t, p) \in Seq(Places) /\ Len(Append(t, p)) = Len(t) + 1 /\ Len(t) \in Nat
      /\ Append(t, p)[Len(t) + 1] = p
      /\ \A i \in 1..Len(t) : Append(t, p)[i] = t[i]
  BY <1>0, AppendLemma
<1>2. at + (Len(t) + 1) = (signed + 1) + Capacity
  BY <1>1
<1>3. ASSUME NEW k \in 1..(Len(t) + 1)
      PROVE  IF at + k <= seen + Capacity
             THEN PlaceFits(Append(t, p)[k], record[at + k])
             ELSE /\ Append(t, p)[k].pending /\ Append(t, p)[k].signature # None
                  /\ Append(t, p)[k].signature + Capacity = at + k
  <2>1. CASE k \in 1..Len(t)
    BY <1>1, <2>1 DEF Tracks
  <2>2. CASE k = Len(t) + 1
    <3>1. ~(at + k <= seen + Capacity) /\ at + k = (signed + 1) + Capacity
      BY <1>1, <1>2, <2>2
    <3>2. Append(t, p)[k] = p /\ signed + 1 # None
      BY <1>1, <2>2
    <3> QED BY <3>1, <3>2
  <2> QED BY <1>1, <2>1, <2>2
<1> QED BY <1>1, <1>2, <1>3 DEF Tracks

\* A player chat: unsigned, signed or the last one again.
LEMMA ServerChatInv == ASSUME IInv, NEW how \in 0..2, ServerChat(how) PROVE IInv'
<1>s. PICK signature : signature = CASE how = 0 -> None [] how = 1 -> server.signed + 1 [] how = 2 -> server.last
  OBVIOUS
<1>m. PICK m : m = [kind |-> "chat", index |-> server.index, signature |-> signature]
  OBVIOUS
<1>p. PICK p : p = [signature |-> server.signed + 1, pending |-> TRUE]
  OBVIOUS
<1>v. PICK sent, index, signed, last, repeated, tracked :
        /\ sent = server.sent + 1 /\ index = server.index + 1
        /\ signed = (IF how = 1 THEN server.signed + 1 ELSE server.signed)
        /\ last = (IF how = 1 THEN server.signed + 1 ELSE server.last)
        /\ repeated = (server.repeated \/ how = 2)
        /\ tracked = (IF how = 1 THEN Append(server.tracked, p) ELSE server.tracked)
  OBVIOUS
<1>0. /\ Types /\ server \in ServerRecords /\ up \in Seq(UpMessages) /\ down \in Seq(DownMessages)
      /\ server.index <= server.sent /\ server.signed <= server.sent
      /\ (server.last # None => server.last <= server.signed)
  BY DEF IInv, Types
<1>1. /\ server.phase = "play" /\ server.sent < MaxMessages /\ (how = 2 => server.last # None)
      /\ down' = Append(down, m) /\ chat' = chat /\ up' = up
      /\ server' = [server EXCEPT !.sent = sent, !.index = index, !.signed = signed, !.last = last,
                                  !.repeated = repeated, !.tracked = tracked]
  <2>1. server.phase = "play" /\ server.sent < MaxMessages /\ (how = 2 => server.last # None) /\ chat' = chat /\ up' = up
    BY DEF ServerChat
  <2>2. /\ down' = Append(down, [kind |-> "chat", index |-> server.index, signature |-> signature])
        /\ server' = [server EXCEPT
              !.sent = @ + 1, !.index = @ + 1,
              !.signed = IF how = 1 THEN @ + 1 ELSE @,
              !.last = IF how = 1 THEN signature ELSE @,
              !.repeated = @ \/ how = 2,
              !.tracked = IF how = 1 THEN Append(@, [signature |-> signature, pending |-> TRUE]) ELSE @]
    BY <1>s DEF ServerChat
  <2>3. CASE how = 1
    <3>1. signature = server.signed + 1
      BY <1>s, <2>3
    <3> QED BY <1>0, <1>m, <1>p, <1>v, <2>1, <2>2, <2>3, <3>1 DEF ServerRecords
  <2>4. CASE how # 1
    BY <1>0, <1>m, <1>p, <1>v, <2>1, <2>2, <2>4 DEF ServerRecords
  <2> QED BY <2>3, <2>4
<1>2. /\ server.sent \in Nat /\ server.index \in Nat /\ server.signed \in Nat
      /\ server.last \in Signatures \cup {None} /\ server.tracked \in Seq(Places) /\ server.repeated \in BOOLEAN
  BY <1>0 DEF ServerRecords
<1>3. /\ sent \in 0..MaxMessages /\ index \in 0..MaxMessages /\ signed \in 0..MaxMessages
      /\ index <= sent /\ signed <= sent /\ server.signed <= signed /\ signed \in Nat
      /\ server.signed + 1 \in Signatures
  <2>1. /\ server.sent + 1 \in 0..MaxMessages /\ server.index + 1 \in 0..MaxMessages
        /\ server.signed + 1 \in 0..MaxMessages /\ server.signed \in 0..MaxMessages
        /\ server.index + 1 <= server.sent + 1 /\ server.signed + 1 <= server.sent + 1 /\ server.signed <= server.sent + 1
        /\ server.signed <= server.signed + 1 /\ server.signed + 1 \in 1..MaxMessages
    <3>1. /\ server.sent \in Nat /\ server.index \in Nat /\ server.signed \in Nat
          /\ server.index <= server.sent /\ server.signed <= server.sent /\ server.sent < MaxMessages
      BY <1>0, <1>1, <1>2
    <3>2. server.sent + 1 <= MaxMessages /\ MaxMessages \in Nat
      BY <3>1
    <3> QED BY <3>1, <3>2
  <2>2. CASE how = 1
    BY <1>v, <2>1, <2>2 DEF Signatures
  <2>3. CASE how # 1
    BY <1>2, <1>v, <2>1, <2>3 DEF Signatures
  <2> QED BY <2>2, <2>3
<1>4. /\ last \in Signatures \cup {None} /\ (last # None => last <= signed)
      /\ repeated \in BOOLEAN /\ (server.repeated => repeated)
  BY <1>0, <1>2, <1>3, <1>v DEF Signatures
<1>5. tracked \in Seq(Places)
  <2>1. p \in Places
    BY <1>3, <1>p DEF Places
  <2> QED BY <1>2, <1>v, <2>1, AppendLemma
<1>6. /\ server' \in ServerRecords
      /\ server'.sent = sent /\ server'.index = index /\ server'.signed = signed /\ server'.last = last
      /\ server'.repeated = repeated /\ server'.tracked = tracked
      /\ server'.phase = server.phase /\ server'.session = server.session /\ server'.chain = server.chain
      /\ server'.sessions = server.sessions /\ server'.fault = server.fault
  BY <1>0, <1>1, <1>3, <1>4, <1>5 DEF ServerRecords
<1>7. m \in DownMessages /\ m.kind = "chat" /\ m.index = server.index /\ m.signature = signature
  <2>1. signature \in Signatures \cup {None}
    BY <1>2, <1>3, <1>s
  <2> QED BY <1>2, <1>m, <2>1 DEF DownMessages
<1>8. /\ down' \in Seq(DownMessages) /\ Len(down') = Len(down) + 1 /\ Len(down) \in Nat
      /\ down'[Len(down) + 1] = m /\ \A i \in 1..Len(down) : down'[i] = down[i]
      /\ down' # <<>>
  BY <1>0, <1>1, <1>7, AppendLemma
<1>9. Types'
  <2>1. chat' \in ChatRecords /\ chat'.sequence.outgoing <= chat'.chats /\ up' \in Seq(UpMessages)
    BY <1>0, <1>1 DEF Types
  <2>2. /\ server' \in ServerRecords /\ down' \in Seq(DownMessages)
        /\ server'.index <= server'.sent /\ server'.signed <= server'.sent
        /\ server'.last # None => server'.last <= server'.signed
    BY <1>3, <1>4, <1>6, <1>8
  <2> QED BY <2>1, <2>2 DEF Types
<1>10. InTurn'
  <2>1. /\ \A i \in 1..Len(up) : up[i].kind # "configured"
        /\ \A i \in 1..Len(down) : down[i].kind # "configure" /\ (down[i].kind = "login" => i = 1 /\ up = <<>>)
    BY <1>1, ServerInPlay DEF IInv, InTurn
  <2>2. ASSUME NEW i \in 1..Len(down')
        PROVE  down'[i].kind # "configure" /\ (down'[i].kind = "login" => i = 1 /\ up = <<>>)
    <3>1. i \in 1..Len(down) \/ i = Len(down) + 1
      BY <1>8
    <3> QED BY <1>7, <1>8, <2>1, <3>1
  <2> QED BY <1>1, <1>8, <2>1, <2>2 DEF InTurn
<1>11. PICK d :
        /\ DownWalk(server.signed, server.repeated, down, d)
        /\ ClientView(d[0]) /\ d[Len(down)] = ServerView
        /\ Sound => ~server.fault /\ Reported(d[0].seen)
  BY DEF IInv
<1>a. PICK a : a = ServerView
  OBVIOUS
<1>b. PICK b : b = ServerView'
  OBVIOUS
<1>12. /\ a = [seen |-> server.signed, last |-> server.last, incoming |-> server.index,
               phase |-> "play", session |-> server.sessions]
       /\ b = [seen |-> signed, last |-> last, incoming |-> index, phase |-> "play", session |-> server.sessions]
  BY <1>1, <1>6, <1>a, <1>b DEF ServerView
<1>13. b \in Views(signed)
  <2>1. server.sessions \in 1..MaxSessions /\ signed \in 0..signed
    BY <1>0, <1>3 DEF ServerRecords
  <2> QED BY <1>3, <1>4, <1>12, <2>1 DEF Views
<1>14. DownStep(repeated, a, m, b)
  <2>1. a.phase = "play" /\ m.index = a.incoming /\ a.incoming + 1 = index /\ a.seen = server.signed /\ a.last = server.last
    BY <1>7, <1>12, <1>v
  <2>2. CASE how = 1
    <3>1. signature = server.signed + 1 /\ signed = server.signed + 1 /\ last = signature
      BY <1>s, <1>v, <2>2
    <3>2. server.last # signature
      BY <1>0, <1>2, <3>1
    <3>3. b = [a EXCEPT !.incoming = a.incoming + 1, !.seen = a.seen + 1, !.last = m.signature]
      <4>1. /\ a = [seen |-> server.signed, last |-> server.last, incoming |-> server.index,
                     phase |-> "play", session |-> server.sessions]
            /\ b = [seen |-> server.signed + 1, last |-> m.signature, incoming |-> server.index + 1,
                     phase |-> "play", session |-> server.sessions]
        BY <1>7, <1>12, <1>v, <3>1
      <4>2. PICK x, y, z : x = a.incoming + 1 /\ y = a.seen + 1 /\ z = m.signature
        OBVIOUS
      <4>3. x = server.index + 1 /\ y = server.signed + 1
        BY <4>1, <4>2
      <4>5. [a EXCEPT !.incoming = x, !.seen = y, !.last = z] = b
        <5>1. PICK a1 : a1 = [a EXCEPT !.incoming = x]
          OBVIOUS
        <5>2. PICK a2 : a2 = [a1 EXCEPT !.seen = y]
          OBVIOUS
        <5>3. a1 = [seen |-> server.signed, last |-> server.last, incoming |-> x, phase |-> "play", session |-> server.sessions]
          BY <4>1, <5>1
        <5>4. a2 = [seen |-> y, last |-> server.last, incoming |-> x, phase |-> "play", session |-> server.sessions]
          BY <5>2, <5>3
        <5>5. [a2 EXCEPT !.last = z] = b
          BY <4>1, <4>2, <4>3, <5>4
        <5>6. [a EXCEPT !.incoming = x, !.seen = y, !.last = z] = [a2 EXCEPT !.last = z]
          BY <5>1, <5>2
        <5> QED BY <5>5, <5>6
      <4> QED BY <4>2, <4>5
    <3> QED BY <1>7, <2>1, <3>1, <3>2, <3>3 DEF DownStep
  <2>3. CASE how # 1
    <3>1. /\ signed = server.signed /\ last = server.last
          /\ signature = None \/ (signature = server.last /\ repeated)
      <4>1. CASE how = 0
        BY <1>s, <1>v, <4>1
      <4>2. CASE how = 2
        <5>1. repeated
          BY <1>v, <4>2
        <5>2. signed = server.signed /\ last = server.last /\ signature = server.last
          BY <1>s, <1>v, <4>2
        <5> QED BY <5>1, <5>2
      <4> QED BY <2>3, <4>1, <4>2
    <3>2. b = [a EXCEPT !.incoming = a.incoming + 1]
      BY <1>12, <2>1, <3>1
    <3> QED BY <1>7, <2>1, <3>1, <3>2 DEF DownStep
  <2> QED BY <2>2, <2>3
<1>15. PICK e : DownWalk(signed, repeated, down', e) /\ e[0] = d[0] /\ e[Len(down')] = b
  <2>1. DownWalk(signed, repeated, down, d)
    <3>1. /\ server.signed \in Nat /\ signed \in Nat /\ server.signed <= signed
          /\ server.repeated \in BOOLEAN /\ repeated \in BOOLEAN /\ (server.repeated => repeated)
          /\ down \in Seq(DownMessages) /\ DownWalk(server.signed, server.repeated, down, d)
      BY <1>0, <1>2, <1>3, <1>4, <1>11
    <3> QED BY <3>1, GrowDown
  <2>2. /\ signed \in Nat /\ down \in Seq(DownMessages) /\ m \in DownMessages /\ b \in Views(signed)
        /\ DownStep(repeated, d[Len(down)], m, b)
    BY <1>0, <1>3, <1>7, <1>11, <1>13, <1>14, <1>a
  <2>3. \E e : DownWalk(signed, repeated, Append(down, m), e) /\ e[0] = d[0] /\ e[Len(Append(down, m))] = b
    BY <2>1, <2>2, DownAppend
  <2> QED BY <1>1, <2>3
<1>16. ASSUME Sound' PROVE ~server'.fault /\ Reported(e[0].seen)'
  <2>0. PICK seen \in Nat : seen = d[0].seen /\ seen <= server.signed
    <3>1. d[0] \in Views(server.signed)
      BY <1>11 DEF DownWalk
    <3> QED BY <1>2, <3>1 DEF Views
  <2>1. Sound
    BY <1>1, <1>4, <1>6, <1>16 DEF Sound, Authenticated
  <2>2. PICK g, record :
          /\ record \in Records /\ UpWalk(chat.authenticated, seen, record, up, g)
          /\ ServerReport(g[0], seen, record) /\ ClientReport(g[Len(up)], seen, record)
    BY <1>11, <2>0, <2>1 DEF Reported
  <2>3. g[0].at \in Nat
    BY <2>2 DEF UpWalk, Reports
  <2>4. g[0].at + Len(tracked) = signed + Capacity /\ Tracks(tracked, g[0].at, seen, record)
    <3>1. g[0].at + Len(server.tracked) = server.signed + Capacity /\ Tracks(server.tracked, g[0].at, seen, record)
      BY <2>2 DEF ServerReport
    <3>2. CASE how = 1
      <4>1. /\ server.tracked \in Seq(Places) /\ g[0].at \in Nat /\ server.signed \in Nat
            /\ server.signed + 1 \in Signatures /\ seen <= server.signed
        BY <1>2, <1>3, <2>0, <2>3
      <4>2. /\ g[0].at + Len(Append(server.tracked, p)) = (server.signed + 1) + Capacity
            /\ Tracks(Append(server.tracked, p), g[0].at, seen, record)
        <5>1. p = [signature |-> server.signed + 1, pending |-> TRUE] /\ record \in Records
          BY <1>p, <2>2
        <5>2. PICK t, at, signed2 : t = server.tracked /\ at = g[0].at /\ signed2 = server.signed
          OBVIOUS
        <5>3. /\ t \in Seq(Places) /\ at \in Nat /\ signed2 \in Nat /\ signed2 + 1 \in Signatures /\ seen <= signed2
              /\ at + Len(t) = signed2 + Capacity /\ Tracks(t, at, seen, record)
              /\ p = [signature |-> signed2 + 1, pending |-> TRUE]
          BY <3>1, <4>1, <5>1, <5>2
        <5>4. at + Len(Append(t, p)) = (signed2 + 1) + Capacity /\ Tracks(Append(t, p), at, seen, record)
          BY <5>3, TracksAppend
        <5> QED BY <5>2, <5>4
      <4> QED BY <1>v, <3>2, <4>2
    <3>3. CASE how # 1
      BY <1>v, <3>1, <3>3
    <3> QED BY <3>2, <3>3
  <2>5. ServerReport(g[0], seen, record)'
    BY <1>6, <2>2, <2>4 DEF ServerReport
  <2>6. ClientReport(g[Len(up)], seen, record)' /\ UpWalk(chat.authenticated, seen, record, up, g)'
    BY <1>1, <2>2 DEF ClientReport, Authenticated
  <2>7. Reported(seen)'
    <3>1. Len(up') = Len(up)
      BY <1>1
    <3> QED BY <1>1, <2>2, <2>5, <2>6, <3>1 DEF Reported
  <2> QED BY <1>6, <1>11, <1>15, <2>0, <2>1, <2>7
<1>17. /\ DownWalk(server'.signed, server'.repeated, down', e) /\ ClientView(e[0]) /\ e[Len(down')] = ServerView'
  BY <1>6, <1>11, <1>15, <1>b
<1> QED BY <1>1, <1>9, <1>10, <1>16, <1>17, ServerStep


\* A reconfiguration is announced: nothing follows it until the client has answered.
LEMMA ServerReconfiguresInv == ASSUME IInv, ServerReconfigures PROVE IInv'
<1>m. PICK m : m = [kind |-> "configure"]
  OBVIOUS
<1>n. PICK sessions : sessions = server.sessions + 1
  OBVIOUS
<1>0. /\ Types /\ server \in ServerRecords /\ up \in Seq(UpMessages) /\ down \in Seq(DownMessages)
  BY DEF IInv, Types
<1>1. /\ server.phase = "play" /\ server.sessions < MaxSessions
      /\ down' = Append(down, m) /\ chat' = chat /\ up' = up
      /\ server' = [server EXCEPT !.phase = "awaiting", !.sessions = sessions]
  BY <1>0, <1>m, <1>n DEF ServerReconfigures, ServerRecords
<1>2. sessions \in 1..MaxSessions /\ server.signed \in Nat
  BY <1>0, <1>1, <1>n DEF ServerRecords
<1>3. /\ server' \in ServerRecords /\ server'.phase = "awaiting" /\ server'.sessions = sessions
      /\ server'.sent = server.sent /\ server'.index = server.index /\ server'.signed = server.signed
      /\ server'.last = server.last /\ server'.repeated = server.repeated /\ server'.tracked = server.tracked
      /\ server'.session = server.session /\ server'.chain = server.chain /\ server'.fault = server.fault
  BY <1>0, <1>1, <1>2 DEF ServerRecords
<1>4. m \in DownMessages /\ m.kind = "configure"
  BY <1>m DEF DownMessages
<1>5. /\ down' \in Seq(DownMessages) /\ Len(down') = Len(down) + 1 /\ Len(down) \in Nat
      /\ down'[Len(down) + 1] = m /\ \A i \in 1..Len(down) : down'[i] = down[i]
      /\ down' # <<>>
  BY <1>0, <1>1, <1>4, AppendLemma
<1>6. Types'
  <2>1. chat' \in ChatRecords /\ chat'.sequence.outgoing <= chat'.chats /\ up' \in Seq(UpMessages)
    BY <1>0, <1>1 DEF Types
  <2>2. /\ server' \in ServerRecords /\ down' \in Seq(DownMessages)
        /\ server'.index <= server'.sent /\ server'.signed <= server'.sent
        /\ server'.last # None => server'.last <= server'.signed
    BY <1>0, <1>3, <1>5 DEF Types
  <2> QED BY <2>1, <2>2 DEF Types
<1>7. InTurn'
  <2>1. /\ \A i \in 1..Len(up) : up[i].kind # "configured"
        /\ \A i \in 1..Len(down) : down[i].kind # "configure" /\ (down[i].kind = "login" => i = 1 /\ up = <<>>)
    BY <1>1, ServerInPlay DEF IInv, InTurn
  <2>2. ASSUME NEW i \in 1..Len(down')
        PROVE  /\ down'[i].kind = "configure" => i = Len(down')
               /\ down'[i].kind = "login" => i = 1 /\ up = <<>>
    <3>1. i \in 1..Len(down) \/ i = Len(down) + 1
      BY <1>5
    <3> QED BY <1>4, <1>5, <2>1, <3>1
  <2> QED BY <1>1, <1>5, <2>1, <2>2 DEF InTurn
<1>8. PICK d :
        /\ DownWalk(server.signed, server.repeated, down, d)
        /\ ClientView(d[0]) /\ d[Len(down)] = ServerView
        /\ Sound => ~server.fault /\ Reported(d[0].seen)
  BY DEF IInv
<1>b. PICK a, b : a = ServerView /\ b = ServerView'
  OBVIOUS
<1>9. /\ a = [seen |-> server.signed, last |-> server.last, incoming |-> server.index,
              phase |-> "play", session |-> server.sessions]
      /\ b = [seen |-> server.signed, last |-> server.last, incoming |-> server.index,
              phase |-> "configuration", session |-> sessions]
  BY <1>1, <1>3, <1>b DEF ServerView
<1>10. b \in Views(server.signed)
  BY <1>0, <1>2, <1>9 DEF Views, ServerRecords
<1>11. DownStep(server.repeated, a, m, b)
  <2>1. a.phase = "play" /\ a.session + 1 = sessions
    BY <1>9, <1>n
  <2>2. PICK a1 : a1 = [a EXCEPT !.phase = "configuration"]
    OBVIOUS
  <2>3. a1 = [seen |-> server.signed, last |-> server.last, incoming |-> server.index,
              phase |-> "configuration", session |-> server.sessions]
    BY <1>9, <2>2
  <2>4. [a1 EXCEPT !.session = sessions] = b
    BY <1>9, <2>3
  <2>5. [a EXCEPT !.phase = "configuration", !.session = sessions] = [a1 EXCEPT !.session = sessions]
    BY <2>2
  <2> QED BY <1>4, <2>1, <2>4, <2>5 DEF DownStep
<1>12. PICK e : DownWalk(server.signed, server.repeated, down', e) /\ e[0] = d[0] /\ e[Len(down')] = b
  <2>1. /\ server.signed \in Nat /\ down \in Seq(DownMessages) /\ m \in DownMessages /\ b \in Views(server.signed)
        /\ DownWalk(server.signed, server.repeated, down, d) /\ DownStep(server.repeated, d[Len(down)], m, b)
    BY <1>0, <1>2, <1>4, <1>8, <1>10, <1>11, <1>b
  <2>2. \E e : DownWalk(server.signed, server.repeated, Append(down, m), e) /\ e[0] = d[0] /\ e[Len(Append(down, m))] = b
    BY <2>1, DownAppend
  <2> QED BY <1>1, <2>2
<1>13. ASSUME Sound' PROVE ~server'.fault /\ Reported(e[0].seen)'
  <2>0. PICK seen : seen = d[0].seen
    OBVIOUS
  <2>1. Sound
    BY <1>1, <1>3, <1>13 DEF Sound, Authenticated
  <2>2. PICK g, record :
          /\ record \in Records /\ UpWalk(chat.authenticated, seen, record, up, g)
          /\ ServerReport(g[0], seen, record) /\ ClientReport(g[Len(up)], seen, record)
    BY <1>8, <2>0, <2>1 DEF Reported
  <2>3. /\ ServerReport(g[0], seen, record)' /\ ClientReport(g[Len(up)], seen, record)'
        /\ UpWalk(chat.authenticated, seen, record, up, g)'
    BY <1>1, <1>3, <2>2 DEF ServerReport, ClientReport, Authenticated
  <2>4. Reported(seen)'
    BY <1>1, <2>2, <2>3 DEF Reported
  <2> QED BY <1>3, <1>8, <1>12, <2>0, <2>1, <2>4
<1>14. /\ DownWalk(server'.signed, server'.repeated, down', e) /\ ClientView(e[0]) /\ e[Len(down')] = ServerView'
  BY <1>3, <1>8, <1>12, <1>b
<1> QED BY <1>1, <1>6, <1>7, <1>13, <1>14, ServerStep

-----------------------------------------------------------------------------
(* The server reads a report.                                              *)


\* While the client is configuring, the server's answer and its own report are the only message.
LEMMA ReportsInTurn ==
  ASSUME IInv, up # <<>>
  PROVE  /\ \A i \in 1..Len(down) : down[i].kind # "login" /\ (down[i].kind = "configure" => i = Len(down))
         /\ chat.phase = "configuration" => down = <<>> /\ up[Len(up)].kind = "configured"
<1>0. down \in Seq(DownMessages)
  BY DEF IInv, Types
<1>1. \A i \in 1..Len(down) : down[i].kind # "login" /\ (down[i].kind = "configure" => i = Len(down))
  BY DEF IInv, InTurn
<1>2. ASSUME chat.phase = "configuration", down # <<>> PROVE FALSE
  <2>1. PICK d : DownWalk(server.signed, server.repeated, down, d) /\ ClientView(d[0])
    BY DEF IInv
  <2>2. Len(down) \in Nat /\ Len(down) >= 1
    BY <1>0, <1>2, EmptySeq
  <2>3. 1 \in 1..Len(down)
    BY <2>2
  <2>4. DownStep(server.repeated, d[1-1], down[1], d[1])
    BY <2>1, <2>3 DEF DownWalk
  <2>5. DownStep(server.repeated, d[0], down[1], d[1])
    BY <2>4
  <2>6. d[0].phase = "configuration"
    BY <1>2, <2>1 DEF ClientView
  <2>7. down[1].kind = "login"
    BY <2>5, <2>6 DEF DownStep
  <2> QED BY <1>1, <2>3, <2>7
<1> QED BY <1>1, <1>2 DEF IInv, InTurn

\* A report other than the end of a session leaves the walk along down alone.
LEMMA ReportStep ==
  ASSUME IInv, up # <<>>, Head(up).kind # "configured", up' = Tail(up), down' = down, chat' = chat,
         server' \in ServerRecords,
         server'.phase = server.phase, server'.index = server.index, server'.sent = server.sent,
         server'.signed = server.signed, server'.last = server.last, server'.sessions = server.sessions,
         server'.repeated = server.repeated,
         \A seen \in 0..server.signed : \A g, h, record :
           /\ ~server.fault /\ record \in Records /\ ServerReport(g[0], seen, record)
           /\ g[0] \in Reports(seen) /\ g[1] \in Reports(seen)
           /\ UpStep(chat.authenticated, seen, record, g[0], Head(up), g[1]) /\ h[0] = g[1]
           => ~server'.fault /\ ServerReport(h[0], seen, record)'
  PROVE  IInv'
<1>0. /\ Types /\ server \in ServerRecords /\ up \in Seq(UpMessages) /\ down \in Seq(DownMessages)
  BY DEF IInv, Types
<1>1. /\ Len(up) \in Nat /\ Len(up) >= 1 /\ Head(up) = up[1] /\ up' \in Seq(UpMessages)
      /\ Len(up') = Len(up) - 1
      /\ \A i \in 1..Len(up') : up'[i] = up[i+1] /\ i + 1 \in 1..Len(up)
      /\ (Len(up) = 1 => up' = <<>>)
  BY <1>0, TailLemma
<1>2. Types'
  <2>1. chat' \in ChatRecords /\ chat'.sequence.outgoing <= chat'.chats /\ down' \in Seq(DownMessages)
    BY <1>0 DEF Types
  <2>2. /\ server'.index <= server'.sent /\ server'.signed <= server'.sent
        /\ server'.last # None => server'.last <= server'.signed
    BY <1>0 DEF Types
  <2> QED BY <1>1, <2>1, <2>2 DEF Types
<1>3. chat.phase = "configuration" => up' # <<>> /\ up'[Len(up')].kind = "configured"
  <2> SUFFICES ASSUME chat.phase = "configuration" PROVE up' # <<>> /\ up'[Len(up')].kind = "configured"
    OBVIOUS
  <2>1. up[Len(up)].kind = "configured"
    BY ReportsInTurn
  <2>2. Len(up) # 1
    BY <1>1, <2>1
  <2>3. Len(up') \in Nat /\ Len(up') >= 1 /\ Len(up') + 1 = Len(up) /\ Len(up') \in 1..Len(up')
    BY <1>1, <2>2
  <2>4. up' # <<>>
    <3>1. up' = <<>> => Len(up') = 0
      OBVIOUS
    <3>2. Len(up') # 0
      BY <2>3
    <3> QED BY <3>1, <3>2
  <2> QED BY <1>1, <2>1, <2>3, <2>4
<1>4. InTurn'
  <2>1. ASSUME NEW i \in 1..Len(up'), up'[i].kind = "configured"
        PROVE  i = Len(up') /\ down = <<>> /\ chat.phase = "configuration"
    <3>1. i + 1 = Len(up) /\ down = <<>> /\ chat.phase = "configuration"
      BY <1>1, <2>1 DEF IInv, InTurn
    <3>2. Len(up') = Len(up) - 1 /\ Len(up) \in Nat
      BY <1>1
    <3>3. i = Len(up')
      BY <3>1, <3>2
    <3> QED BY <3>1, <3>3
  <2>2. \A i \in 1..Len(down) : down[i].kind # "login" /\ (down[i].kind = "configure" => i = Len(down))
    BY ReportsInTurn
  <2> QED BY <1>3, <2>1, <2>2 DEF InTurn
<1>5. PICK d :
        /\ DownWalk(server.signed, server.repeated, down, d)
        /\ ClientView(d[0]) /\ d[Len(down)] = ServerView
        /\ Sound => ~server.fault /\ Reported(d[0].seen)
  BY DEF IInv
<1>6. ServerView' = ServerView
  BY DEF ServerView
<1>7. ASSUME Sound' PROVE ~server'.fault /\ Reported(d[0].seen)'
  <2>0. PICK seen \in 0..server.signed : seen = d[0].seen /\ seen \in Nat
    <3>1. d[0] \in Views(server.signed) /\ server.signed \in Nat
      BY <1>0, <1>5 DEF DownWalk, ServerRecords
    <3> QED BY <3>1 DEF Views
  <2>1. Sound
    BY <1>7 DEF Sound, Authenticated
  <2>2. PICK g, record :
          /\ record \in Records /\ UpWalk(chat.authenticated, seen, record, up, g)
          /\ ServerReport(g[0], seen, record) /\ ClientReport(g[Len(up)], seen, record)
    BY <1>5, <2>0, <2>1 DEF Reported
  <2>3. /\ UpStep(chat.authenticated, seen, record, g[0], Head(up), g[1])
        /\ g[0] \in Reports(seen) /\ g[1] \in Reports(seen)
        /\ \E h : /\ UpWalk(chat.authenticated, seen, record, Tail(up), h)
                  /\ h[0] = g[1] /\ h[Len(Tail(up))] = g[Len(up)]
    <3>1. up \in Seq(UpMessages) /\ up # <<>> /\ UpWalk(chat.authenticated, seen, record, up, g)
      BY <1>0, <2>2
    <3> QED BY <2>0, <3>1, UpTail
  <2>4. PICK h : /\ UpWalk(chat.authenticated, seen, record, Tail(up), h)
                 /\ h[0] = g[1] /\ h[Len(Tail(up))] = g[Len(up)]
    BY <2>3
  <2>5. ~server'.fault /\ ServerReport(h[0], seen, record)'
    BY <1>5, <2>1, <2>2, <2>3, <2>4
  <2>b. PICK b : b = g[Len(up)]
    OBVIOUS
  <2>6. ClientReport(b, seen, record)'
    BY <1>3, <2>2, <2>b DEF ClientReport, Authenticated
  <2>7. UpWalk(chat.authenticated, seen, record, up, h)' /\ h[Len(up')] = b
    BY <2>4, <2>b
  <2>8. Reported(seen)'
    BY <2>2, <2>5, <2>6, <2>7 DEF Reported
  <2> QED BY <2>0, <2>5, <2>8
<1>8. DownWalk(server'.signed, server'.repeated, down', d) /\ d[Len(down')] = ServerView'
  BY <1>5, <1>6
<1> QED BY <1>2, <1>4, <1>5, <1>7, <1>8, ServerStep


\* A chat session update starts the chain anew.
LEMMA SessionReport == ASSUME IInv, ServerReceives, Head(up).kind = "session" PROVE IInv'
<1>m. PICK m : m = Head(up)
  OBVIOUS
<1>0. server \in ServerRecords /\ up \in Seq(UpMessages)
  BY DEF IInv, Types
<1>1. /\ up # <<>> /\ up' = Tail(up) /\ chat' = chat /\ down' = down /\ m.kind = "session"
      /\ server' = [server EXCEPT !.session = m.session, !.chain = 0]
  BY <1>m DEF ServerReceives
<1>2. m \in UpMessages
  BY <1>0, <1>1, <1>m, TailLemma
<1>3. m.session \in Nat \cup {None}
  BY <1>1, <1>2 DEF UpMessages
<1>4. /\ server' \in ServerRecords /\ server'.session = m.session /\ server'.chain = 0
      /\ server'.phase = server.phase /\ server'.sessions = server.sessions /\ server'.sent = server.sent
      /\ server'.index = server.index /\ server'.signed = server.signed /\ server'.last = server.last
      /\ server'.repeated = server.repeated /\ server'.tracked = server.tracked /\ server'.fault = server.fault
  BY <1>0, <1>1, <1>3 DEF ServerRecords
<1>5. ASSUME NEW seen \in 0..server.signed, NEW g, NEW h, NEW record,
             ~server.fault, ServerReport(g[0], seen, record), g[0] \in Reports(seen),
             UpStep(chat.authenticated, seen, record, g[0], Head(up), g[1]), h[0] = g[1]
      PROVE  ~server'.fault /\ ServerReport(h[0], seen, record)'
  <2>1. h[0] = [at |-> g[0].at, chain |-> 0, session |-> m.session]
    BY <1>1, <1>5, <1>m DEF UpStep
  <2>2. PICK b : b = h[0] /\ b.at = g[0].at /\ b.chain = 0 /\ b.session = m.session
    BY <2>1
  <2>3. ServerReport(b, seen, record)'
    BY <1>4, <1>5, <2>2 DEF ServerReport
  <2> QED BY <1>4, <1>5, <2>2, <2>3
<1> QED BY <1>1, <1>4, <1>5, <1>m, ReportStep

\* An acknowledgement never passes what was sent.
LEMMA AckReport == ASSUME IInv, ServerReceives, Head(up).kind = "ack" PROVE IInv'
<1>m. PICK m, moved : m = Head(up) /\ moved = Advance(server.tracked, m.count)
  OBVIOUS
<1>0. server \in ServerRecords /\ up \in Seq(UpMessages)
  BY DEF IInv, Types
<1>1. /\ up # <<>> /\ up' = Tail(up) /\ chat' = chat /\ down' = down /\ m.kind = "ack"
      /\ server' = IF OffsetFits(m.count) THEN [server EXCEPT !.tracked = moved] ELSE [server EXCEPT !.fault = TRUE]
  BY <1>0, <1>m DEF ServerReceives, ServerRecords
<1>2. m \in UpMessages
  BY <1>0, <1>1, <1>m, TailLemma
<1>3. m.count \in Nat
  BY <1>1, <1>2 DEF UpMessages
<1>t. server.tracked \in Seq(Places) /\ Len(server.tracked) \in Nat
  BY <1>0, LenProperties DEF ServerRecords
<1>4. OffsetFits(m.count) <=> m.count + Capacity <= Len(server.tracked)
  BY <1>3, <1>t DEF OffsetFits
<1>5. OffsetFits(m.count) => moved \in Seq(Places) /\ Len(moved) + m.count = Len(server.tracked) /\ Len(moved) \in Nat
  BY <1>3, <1>4, <1>m, <1>t, AdvanceLemma
<1>6. /\ server' \in ServerRecords /\ server'.session = server.session /\ server'.chain = server.chain
      /\ server'.phase = server.phase /\ server'.sessions = server.sessions /\ server'.sent = server.sent
      /\ server'.index = server.index /\ server'.signed = server.signed /\ server'.last = server.last
      /\ server'.repeated = server.repeated
      /\ OffsetFits(m.count) => server'.tracked = moved /\ server'.fault = server.fault
  <2>1. CASE OffsetFits(m.count)
    BY <1>0, <1>1, <1>5, <2>1 DEF ServerRecords
  <2>2. CASE ~OffsetFits(m.count)
    BY <1>0, <1>1, <2>2 DEF ServerRecords
  <2> QED BY <2>1, <2>2
<1>7. ASSUME NEW seen \in 0..server.signed, NEW g, NEW h, NEW record, record \in Records,
             ~server.fault, ServerReport(g[0], seen, record), g[0] \in Reports(seen), g[1] \in Reports(seen),
             UpStep(chat.authenticated, seen, record, g[0], Head(up), g[1]), h[0] = g[1]
      PROVE  ~server'.fault /\ ServerReport(h[0], seen, record)'
  <2>0. server.signed \in Nat /\ seen \in Nat /\ seen <= server.signed
    BY <1>0 DEF ServerRecords
  <2>1. PICK a, b : a = g[0] /\ b = g[1] /\ b = h[0]
    BY <1>7
  <2>2. a \in Reports(seen) /\ b \in Reports(seen) /\ b = [a EXCEPT !.at = a.at + m.count]
    BY <1>1, <1>7, <1>m, <2>1 DEF UpStep
  <2>3. /\ a.at \in Nat /\ b.at = a.at + m.count /\ b.at <= seen /\ b.chain = a.chain /\ b.session = a.session
    BY <1>3, <2>0, <2>2 DEF Reports
  <2>4. /\ a.chain = server.chain /\ a.session = server.session
        /\ a.at + Len(server.tracked) = server.signed + Capacity
        /\ Tracks(server.tracked, a.at, seen, record)
    BY <1>7, <2>1 DEF ServerReport
  <2>5. m.count + Capacity <= Len(server.tracked)
    BY <1>3, <1>t, <2>0, <2>3, <2>4
  <2>6. Tracks(moved, a.at + m.count, seen, record)
    BY <1>3, <1>7, <1>m, <1>t, <2>0, <2>3, <2>4, <2>5, TracksAdvance
  <2>7. b.at + Len(moved) = server.signed + Capacity
    BY <1>3, <1>4, <1>5, <1>t, <2>0, <2>3, <2>4, <2>5
  <2>8. ServerReport(b, seen, record)'
    BY <1>4, <1>6, <2>3, <2>4, <2>5, <2>6, <2>7 DEF ServerReport
  <2> QED BY <1>4, <1>6, <1>7, <2>1, <2>5, <2>8
<1> QED BY <1>1, <1>6, <1>7, <1>m, ReportStep

\* What the server keeps of the places a message has claimed.
Settled(moved, window) ==
  [k \in 1..Len(moved) |-> IF k <= Capacity THEN Claimed(moved[k], window[k]) ELSE moved[k]]

LEMMA SettledLemma ==
  ASSUME NEW moved \in Seq(Places), Capacity <= Len(moved),
         NEW window \in [1..Capacity -> Nat \cup {None}]
  PROVE  /\ Settled(moved, window) \in Seq(Places) /\ Len(Settled(moved, window)) = Len(moved)
         /\ \A k \in 1..Len(moved) :
              Settled(moved, window)[k] = IF k <= Capacity THEN Claimed(moved[k], window[k]) ELSE moved[k]
<1>1. Len(moved) \in Nat /\ \A k \in 1..Len(moved) : moved[k] \in Places
  BY LenProperties, ElementOfSeq
<1>2. \A k \in 1..Len(moved) : (IF k <= Capacity THEN Claimed(moved[k], window[k]) ELSE moved[k]) \in Places
  BY <1>1 DEF Claimed, Places
<1>3. Settled(moved, window) \in [1..Len(moved) -> Places]
  BY <1>2 DEF Settled
<1>4. Settled(moved, window) \in Seq(Places)
  BY <1>1, <1>3, SeqDef
<1>5. Len(Settled(moved, window)) = Len(moved)
  BY <1>1, <1>3, <1>4, LenProperties
<1>6. \A k \in 1..Len(moved) :
        Settled(moved, window)[k] = IF k <= Capacity THEN Claimed(moved[k], window[k]) ELSE moved[k]
  BY DEF Settled
<1> QED BY <1>4, <1>5, <1>6

\* A claim that was made stays made, whatever the window says of it next.
LEMMA TracksSettled ==
  ASSUME NEW moved \in Seq(Places), Capacity <= Len(moved), NEW window \in [1..Capacity -> Nat \cup {None}],
         NEW at \in Nat, NEW seen \in Nat, at <= seen, NEW record,
         Tracks(moved, at, seen, record), \A k \in 1..Capacity : window[k] = record[at + k]
  PROVE  /\ \A k \in 1..Capacity : PlaceFits(moved[k], window[k])
         /\ Tracks(Settled(moved, window), at, seen, record)
<1>0. Len(moved) \in Nat
  BY LenProperties
<1>1. \A k \in 1..Len(moved) :
        IF at + k <= seen + Capacity
        THEN PlaceFits(moved[k], record[at + k])
        ELSE moved[k].pending /\ moved[k].signature # None /\ moved[k].signature + Capacity = at + k
  BY DEF Tracks
<1>2. ASSUME NEW k \in 1..Capacity
      PROVE  k \in 1..Len(moved) /\ at + k <= seen + Capacity /\ window[k] = record[at + k] /\ k <= Capacity
  BY <1>0
<1>3. \A k \in 1..Capacity : PlaceFits(moved[k], window[k])
  BY <1>1, <1>2
<1>4. /\ Len(Settled(moved, window)) = Len(moved)
      /\ \A k \in 1..Len(moved) :
           Settled(moved, window)[k] = IF k <= Capacity THEN Claimed(moved[k], window[k]) ELSE moved[k]
  BY SettledLemma
<1>5. ASSUME NEW k \in 1..Len(moved)
      PROVE  IF at + k <= seen + Capacity
             THEN PlaceFits(Settled(moved, window)[k], record[at + k])
             ELSE /\ Settled(moved, window)[k].pending /\ Settled(moved, window)[k].signature # None
                  /\ Settled(moved, window)[k].signature + Capacity = at + k
  <2>1. CASE k <= Capacity
    <3>1. k \in 1..Capacity
      BY <1>0, <2>1
    <3>2. PICK place, claim : place = moved[k] /\ claim = window[k]
      OBVIOUS
    <3>3. PlaceFits(place, claim) /\ place \in Places
      BY <1>0, <1>3, <3>1, <3>2, ElementOfSeq
    <3>4. PlaceFits(Claimed(place, claim), claim)
      BY <3>3 DEF PlaceFits, Claimed, Places
    <3>5. Settled(moved, window)[k] = Claimed(place, claim)
      BY <1>4, <2>1, <3>2
    <3> QED BY <1>2, <3>1, <3>2, <3>4, <3>5
  <2>2. CASE ~(k <= Capacity)
    BY <1>1, <1>4, <2>2
  <2> QED BY <2>1, <2>2
<1> QED BY <1>3, <1>4, <1>5 DEF Tracks


\* A signed message: its count, its chain and its claims all agree with the server's record.
LEMMA ChatReport == ASSUME IInv, ServerReceives, Head(up).kind = "chat" PROVE IInv'
<1>m. PICK m, moved, chain, settled, fits :
        /\ m = Head(up) /\ moved = Advance(server.tracked, m.offset)
        /\ chain = (IF chat.authenticated THEN server.chain + 1 ELSE server.chain)
        /\ settled = Settled(moved, m.window)
        /\ fits = (/\ OffsetFits(m.offset) /\ m.session = server.session /\ m.index = server.chain
                   /\ \A k \in 1..Capacity : PlaceFits(moved[k], m.window[k]))
  OBVIOUS
<1>0. server \in ServerRecords /\ up \in Seq(UpMessages)
  BY DEF IInv, Types
<1>a. up # <<>> /\ up' = Tail(up) /\ chat' = chat /\ down' = down /\ m.kind = "chat"
  BY <1>m DEF ServerReceives
<1>f. fits <=> /\ OffsetFits(m.offset) /\ m.session = server.session /\ m.index = server.chain
               /\ \A k \in 1..Capacity : PlaceFits(moved[k], m.window[k])
  BY <1>m
<1>1. /\ fits => server' = [server EXCEPT !.chain = chain, !.tracked = settled]
      /\ ~fits => server' = [server EXCEPT !.fault = TRUE]
  <2>1. CASE fits
    <3>1. /\ OffsetFits(m.offset) /\ m.session = server.session /\ m.index = server.chain
          /\ \A k \in 1..Capacity : PlaceFits(moved[k], m.window[k])
      BY <1>f, <2>1
    <3>2. server' = [server EXCEPT
                       !.chain = IF Authenticated THEN @ + 1 ELSE @,
                       !.tracked = [k \in 1..Len(moved) |->
                          IF k <= Capacity THEN Claimed(moved[k], m.window[k]) ELSE moved[k]]]
      BY <1>a, <1>m, <3>1 DEF ServerReceives
    <3> QED BY <1>0, <1>m, <2>1, <3>2 DEF Settled, Authenticated, ServerRecords
  <2>2. CASE ~fits
    <3>1. ~(/\ OffsetFits(m.offset) /\ m.session = server.session /\ m.index = server.chain
            /\ \A k \in 1..Capacity : PlaceFits(moved[k], m.window[k]))
      BY <1>f, <2>2
    <3> QED BY <1>a, <1>m, <2>2, <3>1 DEF ServerReceives
  <2> QED BY <2>1, <2>2
<1>2. m \in UpMessages
  BY <1>0, <1>a, <1>m, TailLemma
<1>3. m.offset \in Nat /\ m.window \in [1..Capacity -> Nat \cup {None}]
  BY <1>a, <1>2 DEF UpMessages
<1>t. server.tracked \in Seq(Places) /\ Len(server.tracked) \in Nat /\ chain \in Nat
  BY <1>0, <1>m, LenProperties DEF ServerRecords
<1>4. OffsetFits(m.offset) <=> m.offset + Capacity <= Len(server.tracked)
  BY <1>3, <1>t DEF OffsetFits
<1>5. m.offset + Capacity <= Len(server.tracked) =>
        /\ moved \in Seq(Places) /\ Len(moved) + m.offset = Len(server.tracked) /\ Len(moved) \in Nat
        /\ Capacity <= Len(moved)
  BY <1>3, <1>m, <1>t, AdvanceLemma
<1>6. m.offset + Capacity <= Len(server.tracked) => settled \in Seq(Places) /\ Len(settled) = Len(moved)
  BY <1>3, <1>5, <1>m, SettledLemma
<1>7. /\ server' \in ServerRecords /\ server'.session = server.session
      /\ server'.phase = server.phase /\ server'.sessions = server.sessions /\ server'.sent = server.sent
      /\ server'.index = server.index /\ server'.signed = server.signed /\ server'.last = server.last
      /\ server'.repeated = server.repeated
      /\ fits => server'.tracked = settled /\ server'.chain = chain /\ server'.fault = server.fault
  <2>1. CASE fits
    <3>1. settled \in Seq(Places)
      BY <1>4, <1>6, <1>f, <2>1
    <3>2. server' = [server EXCEPT !.chain = chain, !.tracked = settled]
      BY <1>1, <2>1
    <3> QED BY <1>0, <1>t, <3>1, <3>2 DEF ServerRecords
  <2>2. CASE ~fits
    BY <1>0, <1>1, <2>2 DEF ServerRecords
  <2> QED BY <2>1, <2>2
<1>8. ASSUME NEW seen \in 0..server.signed, NEW g, NEW h, NEW record, record \in Records,
             ~server.fault, ServerReport(g[0], seen, record), g[0] \in Reports(seen), g[1] \in Reports(seen),
             UpStep(chat.authenticated, seen, record, g[0], Head(up), g[1]), h[0] = g[1]
      PROVE  ~server'.fault /\ ServerReport(h[0], seen, record)'
  <2>0. server.signed \in Nat /\ seen \in Nat /\ seen <= server.signed
    BY <1>0 DEF ServerRecords
  <2>1. PICK a, b : a = g[0] /\ b = g[1] /\ b = h[0]
    BY <1>8
  <2>2. /\ a \in Reports(seen) /\ b \in Reports(seen)
        /\ m.session = a.session /\ m.index = a.chain
        /\ b = [at |-> a.at + m.offset, chain |-> IF chat.authenticated THEN a.chain + 1 ELSE a.chain,
                session |-> a.session]
        /\ \A k \in 1..Capacity : m.window[k] = record[b.at + k]
    BY <1>a, <1>8, <1>m, <2>1 DEF UpStep
  <2>3. /\ a.at \in Nat /\ b.at \in Nat /\ b.at = a.at + m.offset /\ b.at <= seen
        /\ b.chain = (IF chat.authenticated THEN a.chain + 1 ELSE a.chain) /\ b.session = a.session
    BY <1>3, <2>0, <2>2 DEF Reports
  <2>4. /\ a.chain = server.chain /\ a.session = server.session
        /\ a.at + Len(server.tracked) = server.signed + Capacity
        /\ Tracks(server.tracked, a.at, seen, record)
    BY <1>8, <2>1 DEF ServerReport
  <2>5. m.offset + Capacity <= Len(server.tracked)
    BY <1>3, <1>t, <2>0, <2>3, <2>4
  <2>6. Tracks(moved, b.at, seen, record)
    BY <1>3, <1>8, <1>m, <1>t, <2>0, <2>3, <2>4, <2>5, TracksAdvance
  <2>7. b.at + Len(moved) = server.signed + Capacity
    BY <1>3, <1>5, <1>t, <2>0, <2>3, <2>4, <2>5
  <2>8. /\ \A k \in 1..Capacity : PlaceFits(moved[k], m.window[k])
        /\ Tracks(settled, b.at, seen, record)
    <3>1. /\ moved \in Seq(Places) /\ Capacity <= Len(moved) /\ m.window \in [1..Capacity -> Nat \cup {None}]
          /\ b.at \in Nat /\ seen \in Nat /\ b.at <= seen
          /\ Tracks(moved, b.at, seen, record) /\ \A k \in 1..Capacity : m.window[k] = record[b.at + k]
      BY <1>3, <1>5, <2>0, <2>2, <2>3, <2>5, <2>6
    <3>2. /\ \A k \in 1..Capacity : PlaceFits(moved[k], m.window[k])
          /\ Tracks(Settled(moved, m.window), b.at, seen, record)
      BY <3>1, TracksSettled
    <3> QED BY <1>m, <3>2
  <2>9. fits
    BY <1>4, <1>f, <2>2, <2>4, <2>5, <2>8
  <2>10. b.at + Len(settled) = server.signed + Capacity /\ b.chain = chain
    BY <1>6, <1>m, <2>3, <2>4, <2>5, <2>7
  <2>11. ServerReport(b, seen, record)'
    BY <1>7, <2>3, <2>4, <2>8, <2>9, <2>10 DEF ServerReport
  <2> QED BY <1>7, <1>8, <2>1, <2>9, <2>11
<1> QED BY <1>7, <1>8, <1>a, <1>m, ReportStep

\* The client is configuring: everything it had to say was read, and both sides start again.
LEMMA ConfiguredReport == ASSUME IInv, ServerReceives, Head(up).kind = "configured" PROVE IInv'
<1>m. PICK m : m = [kind |-> "login"]
  OBVIOUS
<1>0. /\ Types /\ server \in ServerRecords /\ up \in Seq(UpMessages) /\ down \in Seq(DownMessages)
  BY DEF IInv, Types
<1>1. /\ up # <<>> /\ up' = Tail(up) /\ chat' = chat
      /\ server' = [server EXCEPT !.phase = "play", !.index = 0, !.chain = 0, !.session = None,
                                  !.last = None, !.tracked = FreshValidator]
      /\ down' = Append(down, m)
  BY <1>m DEF ServerReceives
<1>2. up' = <<>> /\ down = <<>> /\ chat.phase = "configuration"
  <2>1. /\ Len(up) \in Nat /\ Len(up) >= 1 /\ Head(up) = up[1] /\ (Len(up) = 1 => Tail(up) = <<>>)
    BY <1>0, <1>1, TailLemma
  <2>2. 1 \in 1..Len(up)
    BY <2>1
  <2>3. 1 = Len(up) /\ down = <<>> /\ chat.phase = "configuration"
    BY <2>1, <2>2 DEF IInv, InTurn
  <2> QED BY <1>1, <2>1, <2>3
<1>3. server.signed \in Nat /\ server.sent \in Nat /\ server.sessions \in 1..MaxSessions
  BY <1>0 DEF ServerRecords
<1>4. /\ FreshValidator \in Seq(Places) /\ Len(FreshValidator) = Capacity
      /\ Tracks(FreshValidator, server.signed, server.signed, NoClaims)
  <2>1. \A k \in 1..Capacity : NoClaims[server.signed + k] = None
    BY <1>3, NoClaimsLemma
  <2> QED BY <1>3, <2>1, NoClaimsLemma, FreshLemma
<1>5. /\ server' \in ServerRecords /\ server'.phase = "play" /\ server'.index = 0 /\ server'.chain = 0
      /\ server'.session = None /\ server'.last = None /\ server'.tracked = FreshValidator
      /\ server'.sessions = server.sessions /\ server'.sent = server.sent /\ server'.signed = server.signed
      /\ server'.repeated = server.repeated /\ server'.fault = server.fault
  <2>1. PICK s : s = [server EXCEPT !.phase = "play", !.index = 0, !.chain = 0]
    OBVIOUS
  <2>2. /\ s \in ServerRecords /\ s.phase = "play" /\ s.index = 0 /\ s.chain = 0
        /\ s.sessions = server.sessions /\ s.sent = server.sent /\ s.signed = server.signed
        /\ s.repeated = server.repeated /\ s.fault = server.fault
    <3>1. 0 \in 0..MaxMessages
      OBVIOUS
    <3> QED BY <1>0, <2>1, <3>1 DEF ServerRecords
  <2>3. server' = [s EXCEPT !.session = None, !.last = None, !.tracked = FreshValidator]
    BY <1>1, <2>1
  <2>4. FreshValidator \in Seq(Places)
    BY <1>4
  <2> QED BY <2>2, <2>3, <2>4 DEF ServerRecords
<1>6. m \in DownMessages /\ m.kind = "login"
  BY <1>m DEF DownMessages
<1>7. /\ down' \in Seq(DownMessages) /\ Len(down') = Len(down) + 1 /\ Len(down) = 0
      /\ down'[Len(down) + 1] = m /\ down' # <<>>
  BY <1>0, <1>1, <1>2, <1>6, AppendLemma
<1>8. Types'
  <2>1. chat' \in ChatRecords /\ chat'.sequence.outgoing <= chat'.chats /\ up' \in Seq(UpMessages)
    BY <1>0, <1>1, <1>2 DEF Types
  <2>2. /\ server' \in ServerRecords /\ down' \in Seq(DownMessages)
        /\ server'.index <= server'.sent /\ server'.signed <= server'.sent
        /\ server'.last # None => server'.last <= server'.signed
    BY <1>0, <1>3, <1>5, <1>7 DEF Types
  <2> QED BY <2>1, <2>2 DEF Types
<1>9. InTurn'
  <2>1. \A i \in 1..Len(down') : i = 1 /\ down'[i] = m
    BY <1>7
  <2>2. Len(up') = 0
    BY <1>2
  <2> QED BY <1>2, <1>6, <1>7, <2>1, <2>2 DEF InTurn
<1>10. PICK d :
        /\ DownWalk(server.signed, server.repeated, down, d)
        /\ ClientView(d[0]) /\ d[Len(down)] = ServerView
        /\ Sound => ~server.fault /\ Reported(d[0].seen)
  BY DEF IInv
<1>b. PICK a, b : a = ServerView /\ b = ServerView'
  OBVIOUS
<1>11. /\ a = [seen |-> server.signed, last |-> server.last, incoming |-> server.index,
               phase |-> "configuration", session |-> server.sessions]
       /\ b = [seen |-> server.signed, last |-> None, incoming |-> 0,
               phase |-> "play", session |-> server.sessions]
       /\ a = d[0]
  <2>1. a = d[0] /\ a.phase = "configuration"
    BY <1>2, <1>7, <1>10, <1>b DEF ClientView
  <2>2. server.phase # "play"
    BY <1>b, <2>1 DEF ServerView
  <2> QED BY <1>5, <1>b, <2>1, <2>2 DEF ServerView
<1>12. b \in Views(server.signed)
  BY <1>3, <1>11 DEF Views
<1>13. DownStep(server.repeated, a, m, b)
  <2>1. PICK a1, a2 : a1 = [a EXCEPT !.phase = "play"] /\ a2 = [a1 EXCEPT !.incoming = 0]
    OBVIOUS
  <2>2. a1 = [seen |-> server.signed, last |-> server.last, incoming |-> server.index,
              phase |-> "play", session |-> server.sessions]
    BY <1>11, <2>1
  <2>3. a2 = [seen |-> server.signed, last |-> server.last, incoming |-> 0,
              phase |-> "play", session |-> server.sessions]
    <3>1. a2 = [a1 EXCEPT !.incoming = 0]
      BY <2>1
    <3> QED BY <2>2, <3>1
  <2>4. [a2 EXCEPT !.last = None] = b
    BY <1>11, <2>3
  <2>5. [a EXCEPT !.phase = "play", !.incoming = 0, !.last = None] = [a2 EXCEPT !.last = None]
    BY <2>1
  <2>6. a.phase = "configuration"
    BY <1>11
  <2> QED BY <1>6, <2>4, <2>5, <2>6 DEF DownStep
<1>14. PICK e : DownWalk(server.signed, server.repeated, down', e) /\ e[0] = d[0] /\ e[Len(down')] = b
  <2>1. /\ server.signed \in Nat /\ down \in Seq(DownMessages) /\ m \in DownMessages /\ b \in Views(server.signed)
        /\ DownWalk(server.signed, server.repeated, down, d) /\ DownStep(server.repeated, d[Len(down)], m, b)
    BY <1>0, <1>3, <1>6, <1>7, <1>10, <1>11, <1>12, <1>13
  <2>2. \E e : DownWalk(server.signed, server.repeated, Append(down, m), e) /\ e[0] = d[0] /\ e[Len(Append(down, m))] = b
    BY <2>1, DownAppend
  <2> QED BY <1>1, <2>2
<1>15. ASSUME Sound' PROVE ~server'.fault /\ Reported(e[0].seen)'
  <2>0. PICK seen \in Nat : seen = server.signed /\ seen = e[0].seen
    BY <1>3, <1>11, <1>14
  <2>1. Sound
    BY <1>1, <1>5, <1>15 DEF Sound, Authenticated
  <2>b. PICK c, g : c = [at |-> seen, chain |-> 0, session |-> None] /\ g = [i \in Nat |-> c]
    OBVIOUS
  <2>2. c \in Reports(seen)
    BY <2>b DEF Reports
  <2>3. g \in [Nat -> Reports(seen)] /\ g[0] = c
    BY <2>b, <2>2
  <2>4. Len(up') = 0
    BY <1>2
  <2>5. UpWalk(chat.authenticated, seen, NoClaims, up, g)'
    <3>1. PICK q : q = up' /\ Len(q) = 0
      BY <2>4
    <3>2. UpWalk(chat.authenticated, seen, NoClaims, q, g)
      BY <2>3, <3>1 DEF UpWalk
    <3> QED BY <1>1, <3>1, <3>2
  <2>6. ServerReport(c, seen, NoClaims)'
    BY <1>4, <1>5, <2>0, <2>b DEF ServerReport
  <2>7. ClientReport(c, seen, NoClaims)'
    <3>1. \A k \in 1..Capacity : NoClaims[seen + k] = None
      BY NoClaimsLemma
    <3> QED BY <1>1, <1>2, <2>b, <3>1, NoClaimsLemma DEF ClientReport, Authenticated
  <2>8. Reported(seen)'
    BY <2>3, <2>4, <2>5, <2>6, <2>7, NoClaimsLemma DEF Reported
  <2> QED BY <1>5, <1>10, <2>0, <2>1, <2>8
<1>16. /\ DownWalk(server'.signed, server'.repeated, down', e) /\ ClientView(e[0]) /\ e[Len(down')] = ServerView'
  BY <1>5, <1>10, <1>14, <1>b
<1> QED BY <1>1, <1>8, <1>9, <1>15, <1>16, ServerStep

-----------------------------------------------------------------------------
(* The theorems.                                                           *)

LEMMA NextInv == IInv /\ [Next]_vars => IInv'
<1> SUFFICES ASSUME IInv, [Next]_vars PROVE IInv'
  OBVIOUS
<1>1. ASSUME NEW displayed \in BOOLEAN, PlayerChat(displayed) PROVE IInv'
  BY <1>1, PlayerChatInv
<1>2. CASE SendChat
  BY <1>2, SendChatInv
<1>3. CASE SignFails
  BY <1>3, SignFailsInv
<1>4. CASE Expire
  BY <1>4, ExpireInv
<1>5. CASE BeginConfiguration
  BY <1>5, BeginConfigurationInv
<1>6. CASE EnterPlay
  BY <1>6, EnterPlayInv
<1>7. CASE ServerReconfigures
  BY <1>7, ServerReconfiguresInv
<1>8. ASSUME NEW how \in 0..2, ServerChat(how) PROVE IInv'
  BY <1>8, ServerChatInv
<1>9. CASE ServerReceives
  <2>1. Head(up) \in UpMessages
    <3>1. up \in Seq(UpMessages) /\ up # <<>>
      BY <1>9 DEF IInv, Types, ServerReceives
    <3> QED BY <3>1, TailLemma
  <2>2. Head(up).kind \in {"session", "ack", "chat", "configured"}
    BY <2>1 DEF UpMessages
  <2> QED BY <1>9, <2>2, SessionReport, AckReport, ChatReport, ConfiguredReport
<1>10. CASE UNCHANGED vars
  BY <1>10 DEF vars, IInv, Types, InTurn, ClientView, ServerView, Sound, Reported, ServerReport, ClientReport, Authenticated
<1> QED BY <1>1, <1>2, <1>3, <1>4, <1>5, <1>6, <1>7, <1>8, <1>9, <1>10 DEF Next, Client, Server

\* Whatever travels in either direction fits what its receiver knows, at every step.
THEOREM Inductive == Spec => []IInv
  BY InitInv, NextInv, PTL DEF Spec

LEMMA Safe == IInv => TypeOK /\ ChatAccepted /\ LagBounded
<1> SUFFICES ASSUME IInv PROVE TypeOK /\ ChatAccepted /\ LagBounded
  OBVIOUS
<1>1. TypeOK
  BY DEF IInv, Types, ChatRecords, ServerRecords, TypeOK, Places
<1>2. PICK d :
        /\ DownWalk(server.signed, server.repeated, down, d)
        /\ ClientView(d[0]) /\ d[Len(down)] = ServerView
        /\ Sound => ~server.fault /\ Reported(d[0].seen)
  BY DEF IInv
<1>3. d[0] \in Views(server.signed)
  BY <1>2 DEF DownWalk
<1>4. ChatAccepted
  BY <1>2, <1>3 DEF ChatAccepted, ClientView, Views, Sound
<1>5. ASSUME down = <<>>, up = <<>>, Authenticated, ~chat.lost
      PROVE  Len(server.tracked) - Capacity = chat.sequence.offset /\ chat.sequence.offset <= Threshold
  <2>1. Len(down) = 0 /\ Len(up) = 0
    BY <1>5
  <2>2. chat.phase = "play"
    BY <1>2, <1>3, <1>5 DEF IInv, InTurn, ClientView, Views
  <2>3. d[0].seen = server.signed
    BY <1>2, <2>1 DEF ServerView
  <2>4. PICK seen : seen = server.signed
    OBVIOUS
  <2>5. PICK g, record :
          /\ UpWalk(chat.authenticated, seen, record, up, g)
          /\ ServerReport(g[0], seen, record) /\ ClientReport(g[Len(up)], seen, record)
    BY <1>2, <1>5, <2>3, <2>4 DEF Reported, Sound
  <2>6. g[0].at + Len(server.tracked) = seen + Capacity /\ g[0].at + chat.sequence.offset = seen
    BY <1>5, <2>1, <2>2, <2>4, <2>5 DEF ServerReport, ClientReport
  <2>7. /\ g[0].at \in Nat /\ Len(server.tracked) \in Nat /\ seen \in Nat /\ chat.sequence.offset \in Nat
    <3>1. server \in ServerRecords /\ chat \in ChatRecords
      BY DEF IInv, Types
    <3>2. seen \in Nat /\ chat.sequence.offset \in Nat /\ server.tracked \in Seq(Places)
      BY <2>4, <3>1 DEF ServerRecords, ChatRecords
    <3>3. g[0] \in Reports(seen)
      BY <2>5 DEF UpWalk
    <3> QED BY <3>2, <3>3, LenProperties DEF Reports
  <2>8. chat.sequence.offset <= Threshold
    BY <1>2, <1>5 DEF ClientView
  <2> QED BY <2>6, <2>7, <2>8
<1>6. LagBounded
  BY <1>5 DEF LagBounded
<1> QED BY <1>1, <1>4, <1>6

\* The window keeps its capacity and the counters their ranges.
THEOREM TypeCorrect == Spec => []TypeOK
  BY Inductive, Safe, PTL

\* The server never finds fault with a report, nor the client with an index.
THEOREM AlwaysAccepted == Spec => []ChatAccepted
  BY Inductive, Safe, PTL

\* What is left to report at rest is what the client counts, and at most Threshold.
THEOREM LagStaysBounded == Spec => []LagBounded
  BY Inductive, Safe, PTL
=============================================================================
