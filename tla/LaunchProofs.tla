---------------------------- MODULE LaunchProofs ----------------------------
(***************************************************************************)
(* Proofs about what comes before a session.  The login: for every         *)
(* threshold and buffer size, any number of frames, and every way in which *)
(* socket reads cut them.  The content cache: for every set of processes   *)
(* and process ids and any number of crashes and damaged files.  The       *)
(* stored accounts: for every set of commands and number of tokens.        *)
(***************************************************************************)
EXTENDS MCLaunch, FiniteSetTheorems, TLAPS

-----------------------------------------------------------------------------
(* The login.                                                              *)

\* What a server awaits after a packet, and the packets whose phase the protocol fixes.
Acknowledgement ==
    [encryption_request |-> "encryption_response", success |-> "login_acknowledged",
     finish |-> "finish_acknowledged", start_configuration |-> "configuration_acknowledged"]
Acknowledgements ==
    {"encryption_response", "login_acknowledged", "finish_acknowledged", "configuration_acknowledged"}
Opening == {"handshake", "status_request", "login_start"}
LoginAnswer == {"plugin_response", "cookie_response"}
Replies ==
    LoginAnswer \cup {"client_information", "keep_alive", "pong", "known_packs", "ping",
                      "teleport_confirmation", "chunk_batch_received", "player_loaded"}
Written == Opening \cup Acknowledgements \cup Replies
Packets == Needed \cup Extras \cup {"garbage"}
Phases == {"Handshake", "Status", "Ping", "Login", "Configuration", "Play", "Session", "Closed"}
Formats == {"plain", "marked", "deflated", "bad_length"}
Frame == [packet : Packets, phase : Phases, size : {1, 2}, format : Formats]
Bytes == (0 .. MaxSent) \X (0 .. 4)

LoginType ==
    /\ conn \in [buffer : Seq(Bytes), decryptor : Nat, encryptor : BOOLEAN,
                 threshold : {0, Threshold}]
    /\ client \in [kind : Kinds, state : States, count : Nat, rounds : 0 .. MaxReconfigurations,
                   phase : [Registries -> 0 .. MaxSent], registries : [Registries -> 0 .. MaxSent],
                   loaded : BOOLEAN, waiting : BOOLEAN, outcome : Outcomes,
                   log : Seq((0 .. MaxSent) \X States)]
    /\ wire \in Seq((0 .. MaxSent) \X (0 .. 4) \X Nat)
    /\ outbox \in Seq([packet : Written, enc : BOOLEAN, zip : BOOLEAN])
    /\ sent \in Seq(Frame) /\ Len(sent) <= MaxSent
    /\ server \in [phase : Phases, key : Nat, zip : BOOLEAN, inKey : BOOLEAN, inZip : BOOLEAN,
                   awaits : Acknowledgements \cup {None}, owed : Nat,
                   done : SUBSET {"set_compression", "encryption_request", "status_response"},
                   confused : BOOLEAN, faulty : BOOLEAN]

Handled == Len(client.log)
Last == Len(sent)
Sent(i, packet) == sent[i].packet = packet
Closed == server.phase = "Closed"

\* The client's state for a phase of the server, and after the first i frames.
StateFor(phase) == IF phase = "Ping" THEN "Status" ELSE phase
First == IF client.kind = "status" THEN "Status" ELSE "Login"
StateAfter(i) ==
    IF i = 0 THEN First
    ELSE CASE sent[i].packet = "success" -> "Configuration"
           [] sent[i].packet = "start_configuration" -> "Configuration"
           [] sent[i].packet = "finish" -> "Play"
           [] sent[i].packet = "login" -> "Session"
           [] OTHER -> StateFor(sent[i].phase)

\* What is buffered and what is on the wire, as one stream of bytes in clear.
Streamed == Len(conn.buffer) + Len(wire)
ByteAt(p) ==
    IF p <= Len(conn.buffer) THEN conn.buffer[p]
    ELSE <<wire[p - Len(conn.buffer)][1], wire[p - Len(conn.buffer)][2]>>
Follower(byte) ==
    IF byte[2] < FrameBytes(sent[byte[1]]) THEN <<byte[1], byte[2] + 1>> ELSE <<byte[1] + 1, 1>>

Earlier(first, second) ==
    first[1] < second[1] \/ (first[1] = second[1] /\ first[2] < second[2])

\* The stream is what the frames not handled consist of.
StreamSound ==
    /\ Handled <= Last
    /\ Streamed = 0 <=> Handled = Last
    /\ \A p \in 1 .. Streamed :
        /\ ByteAt(p)[1] \in Handled + 1 .. Last
        /\ ByteAt(p)[2] \in 1 .. FrameBytes(sent[ByteAt(p)[1]])
        /\ p < Streamed => ByteAt(p + 1) = Follower(ByteAt(p))
    /\ \A p, q \in 1 .. Streamed : p < q => Earlier(ByteAt(p), ByteAt(q))
    /\ Streamed > 0 =>
        /\ ByteAt(1) = <<Handled + 1, 1>>
        /\ ByteAt(Streamed) = <<Last, FrameBytes(sent[Last])>>

\* The bytes on the wire are enciphered from the position at which the client deciphers.
KeysSound ==
    /\ conn.encryptor <=> conn.decryptor # 0
    /\ conn.decryptor # 0 => \E i \in 1 .. Handled : Sent(i, "encryption_request")
    /\ \A i \in DOMAIN wire : wire[i][3] = IF conn.decryptor = 0 THEN 0 ELSE conn.decryptor + i - 1
    /\ conn.decryptor = 0 => server.key = 0
    /\ conn.decryptor # 0 =>
        \/ server.key = conn.decryptor + Len(wire)
        \/ /\ server.key = 0 /\ wire = <<>> /\ conn.decryptor = 1
           /\ Closed \/ server.awaits = "encryption_response"
    /\ ~Closed => \A j \in DOMAIN outbox : outbox[j].packet = "encryption_response" =>
                    wire = <<>> /\ conn.decryptor = 1

\* Each frame was sent in the phase that the frame before it left the client in, and the
\* server is, or waits to be, in the phase that its last frame led to.
PhasesSound ==
    /\ \A i \in DOMAIN sent : StateFor(sent[i].phase) = StateAfter(i - 1)
    /\ client.state = "Handshake" => server.phase = "Handshake" /\ outbox = <<>>
    /\ client.state # "Handshake" => client.state = StateAfter(Handled)
    /\ server.phase \notin {"Handshake", "Closed"} /\ server.awaits = None =>
         StateFor(server.phase) = StateAfter(Last)
    /\ server.phase = "Handshake" =>
        /\ sent = <<>> /\ server.awaits = None /\ server.owed = 0
        /\ \A j \in DOMAIN outbox : outbox[j].packet \in Opening
        /\ \A j \in DOMAIN outbox : outbox[j].packet # "handshake" => j = Len(outbox)
        /\ \A j \in DOMAIN outbox :
            /\ outbox[j].packet = "status_request" => client.kind = "status"
            /\ outbox[j].packet = "login_start" => client.kind # "status"
    /\ server.phase \notin {"Handshake", "Closed"} =>
         \A j \in DOMAIN outbox : outbox[j].packet \notin Opening

\* Packets that belong to one phase.
FramesPlaced ==
    \A i \in DOMAIN sent :
        /\ sent[i].packet \in {"encryption_request", "set_compression", "success", "wrong_success"} =>
             sent[i].phase = "Login"
        /\ sent[i].packet \in Registries \cup {"finish"} => sent[i].phase = "Configuration"
        /\ sent[i].packet \in {"start_configuration", "login"} => sent[i].phase = "Play"
        /\ sent[i].phase \notin {"Handshake", "Closed"}

\* A query stays a query.
KindSound ==
    /\ client.kind = "status" =>
        /\ server.phase \in {"Handshake", "Status", "Ping", "Closed"}
        /\ \A i \in DOMAIN sent : sent[i].phase \in {"Status", "Ping"}
    /\ client.kind # "status" =>
        /\ server.phase \notin {"Status", "Ping"}
        /\ \A i \in DOMAIN sent : sent[i].phase \notin {"Status", "Ping"}
        /\ \A j \in DOMAIN outbox : outbox[j].packet # "ping"

\* A packet that changes the phase or the cipher is the last one until it is acknowledged,
\* and the acknowledgement is under way only when the client has handled everything.
AcksSound ==
    /\ \A i \in DOMAIN sent : sent[i].packet \in DOMAIN Acknowledgement =>
        \/ i <= Handled
        \/ i = Last /\ (Closed \/ server.awaits = Acknowledgement[sent[i].packet])
    /\ server.awaits # None =>
        /\ Last > 0 /\ sent[Last].packet \in DOMAIN Acknowledgement
        /\ server.awaits = Acknowledgement[sent[Last].packet]
        /\ server.phase = sent[Last].phase
    /\ ~Closed => \A j \in DOMAIN outbox : outbox[j].packet \in Acknowledgements =>
        /\ server.awaits = outbox[j].packet /\ Handled = Last
        /\ \A k \in DOMAIN outbox : outbox[k].packet \in Acknowledgements => k = j
    /\ \A i, j \in DOMAIN sent :
        Sent(i, "encryption_request") /\ Sent(j, "encryption_request") => i = j
    /\ \A i \in DOMAIN sent :
        Sent(i, "encryption_request") => "encryption_request" \in server.done

\* What the client writes is enciphered once the encryption response is ahead of it, and
\* compressed as the server expects.
WritesSound ==
    ~Closed =>
        /\ conn.encryptor <=>
             server.inKey \/ \E k \in DOMAIN outbox : outbox[k].packet = "encryption_response"
        /\ \A j \in DOMAIN outbox :
            /\ outbox[j].enc <=>
                 server.inKey \/ \E k \in 1 .. j - 1 : outbox[k].packet = "encryption_response"
            /\ outbox[j].zip <=> server.inZip

\* Compression is on for the frames after set_compression, at either end; what precedes a
\* set_compression that is not handled yet ends the login.
ZipSound ==
    /\ server.zip <=> server.inZip
    /\ server.zip <=> \E c \in DOMAIN sent : Sent(c, "set_compression")
    /\ conn.threshold = IF \E c \in 1 .. Handled : Sent(c, "set_compression") THEN Threshold ELSE 0
    /\ \A c \in Handled + 1 .. Last : Sent(c, "set_compression") =>
         \A i \in Handled + 1 .. c - 1 :
            sent[i].packet \in {"wrong_success", "garbage"} /\ sent[i].phase = "Login"
    /\ ~server.faulty => \A i \in DOMAIN sent :
         sent[i].format = Format(\E c \in 1 .. i - 1 : Sent(c, "set_compression"), sent[i].size)

\* During the login the server counts the answers it is owed, and nothing but answers and
\* acknowledgements is on its way to it.
Unanswered == {i \in Handled + 1 .. Last : sent[i].packet \in DOMAIN LoginReply}
Unread == {j \in DOMAIN outbox : outbox[j].packet \in LoginAnswer}
OwedSound ==
    server.phase = "Login" =>
        /\ \A i \in DOMAIN sent : sent[i].phase = "Login"
        /\ \A j \in DOMAIN outbox :
            /\ outbox[j].packet \in LoginAnswer \cup {"client_information", "encryption_response",
                                                      "login_acknowledged"}
            /\ outbox[j].packet = "client_information" => server.awaits = "login_acknowledged"
        /\ server.owed = Cardinality(Unanswered) + Cardinality(Unread)

\* v is the last of the first k frames that carried registry r, or 0.
LatestIs(r, k, v) ==
    /\ v \in 0 .. k
    /\ v > 0 => Sent(v, r)
    /\ \A i \in v + 1 .. k : ~Sent(i, r)

RegistriesSound ==
    /\ \A r \in Registries : LatestIs(r, Handled, Merged(client.registries, client.phase)[r])
    /\ client.state # "Configuration" => client.phase = [r \in Registries |-> 0]
    /\ \A i \in DOMAIN sent : Sent(i, "login") => server.phase \in {"Session", "Closed"} /\ server.awaits = None
    /\ \A i, k \in DOMAIN sent : Sent(i, "login") /\ i < k => sent[k].phase = "Session"
    /\ client.state = "Session" => \E i \in 1 .. Handled : Sent(i, "login")

\* What a server may have sent in the login phase, and what it sends once.
LoginSound ==
    \A i \in DOMAIN sent :
        /\ sent[i].phase = "Login" =>
             sent[i].packet \in {"success", "wrong_success", "disconnect", "garbage",
                                "encryption_request", "set_compression"} \cup DOMAIN LoginReply
        /\ Sent(i, "disconnect") => Closed
        /\ Sent(i, "set_compression") => "set_compression" \in server.done

\* What holds while the login runs.
Parts ==
    /\ StreamSound /\ KeysSound /\ PhasesSound /\ FramesPlaced /\ KindSound /\ AcksSound
    /\ WritesSound /\ ZipSound /\ OwedSound /\ RegistriesSound /\ LoginSound

\* The inductive invariant.
LoginInv ==
    /\ LoginType /\ FramesIntact /\ ServerUnderstands /\ RegistriesLatest
    /\ Handled <= Last
    /\ Running => Parts

-----------------------------------------------------------------------------
(* Types.                                                                  *)

OutPacket == [packet : Written, enc : BOOLEAN, zip : BOOLEAN]

\* What a write does to the queue towards the server.
LEMMA WriteType ==
    ASSUME LoginType, NEW packets \in Seq(Written), Write(packets)
    PROVE  /\ outbox' \in Seq(OutPacket)
           /\ Len(outbox') = Len(outbox) + Len(packets)
           /\ \A j \in DOMAIN outbox : outbox'[j] = outbox[j]
           /\ \A i \in DOMAIN packets :
                outbox'[Len(outbox) + i] = [packet |-> packets[i], enc |-> conn.encryptor,
                                            zip |-> conn.threshold # 0]
<1>1. outbox \in Seq(OutPacket) /\ conn.encryptor \in BOOLEAN
  BY DEF LoginType, OutPacket
<1> DEFINE new == [i \in DOMAIN packets |-> Outbound(conn, packets[i])]
<1>2. new \in Seq(OutPacket) /\ Len(new) = Len(packets)
  <2>1. DOMAIN packets = 1 .. Len(packets) /\ Len(packets) \in Nat
        /\ \A i \in DOMAIN packets : packets[i] \in Written
    OBVIOUS
  <2>2. \A i \in DOMAIN packets : Outbound(conn, packets[i]) \in OutPacket
    BY <1>1, <2>1 DEF OutPacket, Outbound
  <2> QED BY <2>1, <2>2
<1>3. outbox' = outbox \o new
  BY DEF Write
<1>4. \A i \in DOMAIN packets : new[i] = [packet |-> packets[i], enc |-> conn.encryptor,
                                            zip |-> conn.threshold # 0]
  BY DEF Outbound
<1> HIDE DEF new
<1>5. outbox' \in Seq(OutPacket) /\ Len(outbox') = Len(outbox) + Len(packets)
  BY <1>1, <1>2, <1>3
<1>6. \A j \in DOMAIN outbox : outbox'[j] = outbox[j]
  BY <1>1, <1>2, <1>3
<1>7. \A i \in DOMAIN packets : outbox'[Len(outbox) + i] = new[i]
  BY <1>1, <1>2, <1>3
<1> QED BY <1>4, <1>5, <1>6, <1>7

\* A frame leaves the buffer.
LEMMA ConsumedType ==
    ASSUME LoginType, NEW n \in DOMAIN sent, NextFrame(conn, sent) = n
    PROVE  /\ Consumed(conn, sent[n]) = [conn EXCEPT !.buffer = Consumed(conn, sent[n]).buffer]
           /\ Consumed(conn, sent[n]).buffer \in Seq(Bytes)
           /\ Len(Consumed(conn, sent[n]).buffer) = Len(conn.buffer) - FrameBytes(sent[n])
           /\ Len(conn.buffer) >= FrameBytes(sent[n])
           /\ \A p \in 1 .. Len(conn.buffer) - FrameBytes(sent[n]) :
                Consumed(conn, sent[n]).buffer[p] = conn.buffer[p + FrameBytes(sent[n])]
<1>1. conn.buffer \in Seq(Bytes) /\ n \in Nat \ {0} /\ sent[n] \in Frame
      /\ conn \in [buffer : Seq(Bytes), decryptor : Nat, encryptor : BOOLEAN, threshold : {0, Threshold}]
  BY DEF LoginType
<1>2. FrameBytes(sent[n]) \in {2, 4}
  BY <1>1 DEF FrameBytes, PrefixBytes, Frame
<1>3. Len(conn.buffer) >= FrameBytes(sent[n]) /\ conn.buffer # <<>> /\ n = conn.buffer[1][1]
  <2>1. n # NeedMore /\ n # Malformed
    BY <1>1 DEF NeedMore, Malformed
  <2>2. conn.buffer # <<>>
    BY <2>1 DEF NextFrame
  <2>3. n = conn.buffer[1][1]
    BY <2>1, <2>2, Zenon DEF NextFrame
  <2>4. Complete(conn, sent[n])
    BY <2>1, <2>2, <2>3, Zenon DEF NextFrame
  <2> QED BY <1>1, <2>2, <2>3, <2>4 DEF Complete
<1>4. Consumed(conn, sent[n]).buffer = SubSeq(conn.buffer, FrameBytes(sent[n]) + 1, Len(conn.buffer))
  BY <1>1 DEF Consumed
<1>5. Consumed(conn, sent[n]) = [conn EXCEPT !.buffer = Consumed(conn, sent[n]).buffer]
  BY <1>1 DEF Consumed
<1> QED BY <1>1, <1>2, <1>3, <1>4, <1>5

ClientRecord ==
    [kind : Kinds, state : States, count : Nat, rounds : 0 .. MaxReconfigurations,
     phase : [Registries -> 0 .. MaxSent], registries : [Registries -> 0 .. MaxSent],
     loaded : BOOLEAN, waiting : BOOLEAN, outcome : Outcomes,
     log : Seq((0 .. MaxSent) \X States)]

\* What all handlers of a frame have in common.
Handles(n, packets) ==
    /\ packets \in Seq(Written) /\ Len(packets) <= 2 /\ Write(packets)
    /\ Arrived(n) /\ client.state # "Handshake"
    /\ UNCHANGED <<wire, sent, server>>
    /\ conn' \in {Consumed(conn, sent[n]), EnableEncryption(Consumed(conn, sent[n])),
                  EnableCompression(Consumed(conn, sent[n]))}
    /\ client' \in ClientRecord /\ client'.kind = client.kind /\ client'.outcome # "framing"
    /\ client'.log = Append(client.log, <<n, client.state>>)

\* The states, transforms, registries and answers that the packet of a frame leads to,
\* unless it ends the login.
StateFrom(packet) ==
    CASE packet = "success" -> "Configuration"
      [] packet = "start_configuration" -> "Configuration"
      [] packet = "finish" -> "Play"
      [] packet = "login" -> "Session"
      [] OTHER -> client.state

Leads(n, packet) ==
    /\ conn' = IF packet = "encryption_request" THEN EnableEncryption(Consumed(conn, sent[n]))
               ELSE IF packet = "set_compression" THEN EnableCompression(Consumed(conn, sent[n]))
               ELSE Consumed(conn, sent[n])
    /\ client'.state = StateFrom(packet)
    /\ client'.registries = IF packet = "finish" THEN Merged(client.registries, client.phase)
                            ELSE client.registries
    /\ client'.phase = IF packet = "finish" THEN [r \in Registries |-> 0]
                       ELSE IF packet \in Registries THEN [client.phase EXCEPT ![packet] = n]
                       ELSE client.phase

Answering(packet, packets) ==
    /\ packet \in DOMAIN Acknowledgement =>
        \/ packets = <<Acknowledgement[packet]>>
        \/ /\ packets = <<Acknowledgement[packet], "client_information">>
           /\ packet \in {"success", "start_configuration"}
    /\ packet \notin DOMAIN Acknowledgement =>
         \A i \in DOMAIN packets : packets[i] \in Replies \ {"client_information"}
    /\ packet = "set_compression" => packets = <<>>
    /\ client.state = "Login" /\ packet \notin DOMAIN Acknowledgement =>
         packets = IF packet \in DOMAIN LoginReply THEN <<LoginReply[packet]>> ELSE <<>>
    /\ client.state = "Login" => packet \notin {"wrong_success", "garbage"}
    /\ client.state # "Status" => \A i \in DOMAIN packets : packets[i] # "ping"

\* The frame belongs where the client is.
Placed(n) == FramesPlaced /\ client.state = StateFor(sent[n].phase)

Described(n) ==
    \E packets : /\ Handles(n, packets)
                 /\ Placed(n) /\ Running' =>
                      Leads(n, sent[n].packet) /\ Answering(sent[n].packet, packets)

\* The client after a frame is one of these.
LEMMA TakenType ==
    ASSUME LoginType, NEW n \in DOMAIN sent
    PROVE  /\ Taken(n) \in ClientRecord
           /\ client \in ClientRecord /\ n \in 1 .. MaxSent
           /\ Taken(n) = [client EXCEPT !.log = Append(client.log, <<n, client.state>>),
                                        !.count = client.count + 1]
           /\ \A reason \in Outcomes : [Taken(n) EXCEPT !.outcome = reason] \in ClientRecord
<1>1. client \in ClientRecord /\ n \in 1 .. MaxSent
  <2>1. client \in ClientRecord
    BY DEF LoginType, ClientRecord
  <2>2. sent \in Seq(Frame) /\ Len(sent) <= MaxSent /\ MaxSent \in Nat
    BY LoginAssumption DEF LoginType
  <2> QED BY <2>1, <2>2
<1>2. Append(client.log, <<n, client.state>>) \in Seq((0 .. MaxSent) \X States)
  <2>1. <<n, client.state>> \in (0 .. MaxSent) \X States /\ client.log \in Seq((0 .. MaxSent) \X States)
    BY <1>1, LoginAssumption DEF ClientRecord
  <2> QED BY <2>1
<1>3. Taken(n) = [client EXCEPT !.log = Append(client.log, <<n, client.state>>),
                                !.count = client.count + 1]
  BY DEF Taken
<1>4. Taken(n) \in ClientRecord
  <2>1. client.count + 1 \in Nat
    BY <1>1 DEF ClientRecord
  <2>2. PICK log : log = Append(client.log, <<n, client.state>>)
    OBVIOUS
  <2>3. PICK count : count = client.count + 1
    OBVIOUS
  <2>4. log \in Seq((0 .. MaxSent) \X States) /\ count \in Nat
    BY <1>2, <2>1, <2>2, <2>3
  <2>5. [client EXCEPT !.log = log, !.count = count] \in ClientRecord
    BY <1>1, <2>4 DEF ClientRecord
  <2> QED BY <1>3, <2>2, <2>3, <2>5
<1>5. \A reason \in Outcomes : [Taken(n) EXCEPT !.outcome = reason] \in ClientRecord
  BY <1>4 DEF ClientRecord
<1> QED BY <1>1, <1>3, <1>4, <1>5

\* Its fields.
LEMMA TakenFields ==
    ASSUME LoginType, NEW n \in DOMAIN sent
    PROVE  /\ Taken(n) \in ClientRecord
           /\ Taken(n).kind = client.kind /\ Taken(n).state = client.state
           /\ Taken(n).outcome = client.outcome /\ Taken(n).rounds = client.rounds
           /\ Taken(n).log = Append(client.log, <<n, client.state>>)
           /\ Taken(n).registries = client.registries /\ Taken(n).phase = client.phase
<1>1. PICK log : log = Append(client.log, <<n, client.state>>)
  OBVIOUS
<1>2. Taken(n) = [client EXCEPT !.log = log, !.count = client.count + 1] /\ client \in ClientRecord
      /\ Taken(n) \in ClientRecord
  BY <1>1, TakenType
<1> QED BY <1>1, <1>2 DEF ClientRecord

\* A frame that ends the login is handled like any other.
LEMMA FailsHandles ==
    ASSUME LoginType, NEW n \in DOMAIN sent, Arrived(n), client.state # "Handshake",
           NEW packets \in Seq(Written), Len(packets) <= 2,
           NEW reason \in Outcomes \ {"running", "framing"},
           Answer(n, packets, [Taken(n) EXCEPT !.outcome = reason]), UNCHANGED <<wire, sent, server>>
    PROVE  Handles(n, packets) /\ ~Running'
<1>1. client' = [Taken(n) EXCEPT !.outcome = reason] /\ client' \in ClientRecord
  BY TakenType DEF Answer
<1>2. client'.kind = client.kind /\ client'.outcome = reason
      /\ client'.log = Append(client.log, <<n, client.state>>)
  BY <1>1, TakenType DEF ClientRecord
<1>3. Write(packets) /\ conn' = Consumed(conn, sent[n])
  BY DEF Answer
<1> QED BY <1>1, <1>2, <1>3 DEF Handles, Running

LEMMA StatusHandles ==
    ASSUME LoginType, NEW n \in DOMAIN sent, HandleStatus(n)
    PROVE  Described(n)
<1> USE DEF Described
<1>1. Arrived(n) /\ client.state = "Status" /\ UNCHANGED <<wire, sent, server>>
  BY DEF HandleStatus
<1>2. CASE client.count = 0 /\ sent[n].packet = "status_response"
           /\ Answer(n, <<"ping">>, Taken(n))
  <2>1. client' = Taken(n) /\ client' \in ClientRecord /\ client'.kind = client.kind
        /\ client'.outcome = client.outcome /\ client'.state = client.state
        /\ client'.log = Append(client.log, <<n, client.state>>)
        /\ client'.registries = client.registries /\ client'.phase = client.phase
    BY <1>2, TakenType DEF Answer, ClientRecord
  <2>2. <<"ping">> \in Seq(Written) /\ Len(<<"ping">>) <= 2
    BY DEF Written, Replies
  <2>3. Write(<<"ping">>) /\ conn' = Consumed(conn, sent[n])
    BY <1>2 DEF Answer
  <2>4. Handles(n, <<"ping">>)
    BY <1>1, <2>1, <2>2, <2>3 DEF Handles, Arrived, Reading, Running
  <2>5. Leads(n, sent[n].packet)
    BY <1>1, <1>2, <2>1, <2>3 DEF Leads, StateFrom, Registries
  <2>6. Answering(sent[n].packet, <<"ping">>)
    BY <1>1, <1>2 DEF Answering, Acknowledgement, Replies
  <2> QED BY <2>4, <2>5, <2>6
<1>3. CASE client.count = 1 /\ sent[n].packet = "pong"
           /\ Answer(n, <<>>, [Taken(n) EXCEPT !.outcome = "status"])
  <2>1. <<>> \in Seq(Written) /\ Len(<<>>) <= 2 /\ "status" \in Outcomes \ {"running", "framing"}
    BY DEF Outcomes
  <2>2. Handles(n, <<>>) /\ ~Running'
    BY <1>1, <1>3, <2>1, FailsHandles
  <2> QED BY <2>2
<1>4. CASE Fails(n, "protocol")
  <2>1. <<>> \in Seq(Written) /\ Len(<<>>) <= 2 /\ "protocol" \in Outcomes \ {"running", "framing"}
    BY DEF Outcomes
  <2>2. Handles(n, <<>>) /\ ~Running'
    BY <1>1, <1>4, <2>1, FailsHandles DEF Fails
  <2> QED BY <2>2
<1> QED BY <1>2, <1>3, <1>4 DEF HandleStatus

\* A frame that is answered and leaves the client in its state.
LEMMA PlainHandles ==
    ASSUME LoginType, NEW n \in DOMAIN sent, Arrived(n), client.state # "Handshake",
           NEW packets \in Seq(Written), Len(packets) <= 2,
           Answer(n, packets, Taken(n)), UNCHANGED <<wire, sent, server>>
    PROVE  /\ Handles(n, packets)
           /\ conn' = Consumed(conn, sent[n]) /\ client'.state = client.state
           /\ client'.registries = client.registries /\ client'.phase = client.phase
<1>1. client' = Taken(n) /\ client' \in ClientRecord /\ client'.kind = client.kind
      /\ client'.outcome = client.outcome /\ client'.state = client.state
      /\ client'.log = Append(client.log, <<n, client.state>>)
      /\ client'.registries = client.registries /\ client'.phase = client.phase
  BY TakenType DEF Answer, ClientRecord
<1>2. Write(packets) /\ conn' = Consumed(conn, sent[n])
  BY DEF Answer
<1> QED BY <1>1, <1>2 DEF Handles, Arrived, Reading, Running

LEMMA LoginAnswersHandle ==
    ASSUME LoginType, NEW n \in DOMAIN sent, Arrived(n), client.state = "Login",
           LoginAnswers(n, sent[n].packet), UNCHANGED <<wire, sent, server>>
    PROVE  Described(n)
<1> USE DEF Described
<1>1. CASE /\ sent[n].packet \in DOMAIN LoginReply
           /\ Answer(n, <<LoginReply[sent[n].packet]>>, Taken(n))
  <2>1. LoginReply[sent[n].packet] \in LoginAnswer
    BY <1>1 DEF LoginReply, LoginAnswer
  <2>2. PICK reply : reply = LoginReply[sent[n].packet]
    OBVIOUS
  <2>3. <<reply>> \in Seq(Written) /\ Len(<<reply>>) <= 2
    BY <2>1, <2>2 DEF Written, Replies
  <2>4. /\ Handles(n, <<reply>>)
        /\ conn' = Consumed(conn, sent[n]) /\ client'.state = client.state
        /\ client'.registries = client.registries /\ client'.phase = client.phase
    BY <1>1, <2>2, <2>3, PlainHandles
  <2>5. sent[n].packet \in {"plugin_request", "cookie_request"}
    BY <1>1 DEF LoginReply
  <2>6. Leads(n, sent[n].packet)
    BY <2>4, <2>5 DEF Leads, StateFrom, Registries
  <2>7. Answering(sent[n].packet, <<reply>>)
    BY <1>1, <2>1, <2>2, <2>5 DEF Answering, Acknowledgement, Replies, LoginAnswer
  <2> QED BY <2>4, <2>6, <2>7
<1>2. CASE sent[n].packet \in Refused /\ Fails(n, "refused")
  <2>1. <<>> \in Seq(Written) /\ Len(<<>>) <= 2 /\ "refused" \in Outcomes \ {"running", "framing"}
    BY DEF Outcomes
  <2>2. Handles(n, <<>>) /\ ~Running'
    BY <1>2, <2>1, FailsHandles DEF Fails
  <2> QED BY <2>2
<1>3. CASE /\ sent[n].packet = "success"
           /\ Answer(n, <<"login_acknowledged", "client_information">>,
                     [Taken(n) EXCEPT !.state = "Configuration", !.count = 0])
  <2>1. client' = [Taken(n) EXCEPT !.state = "Configuration", !.count = 0]
    BY <1>3 DEF Answer
  <2>2. /\ client' \in ClientRecord /\ client'.kind = client.kind
        /\ client'.outcome = client.outcome /\ client'.state = "Configuration"
        /\ client'.log = Append(client.log, <<n, client.state>>)
        /\ client'.registries = client.registries /\ client'.phase = client.phase
    BY <2>1, TakenFields DEF ClientRecord, States
  <2>3. Write(<<"login_acknowledged", "client_information">>) /\ conn' = Consumed(conn, sent[n])
    BY <1>3 DEF Answer
  <2>4. <<"login_acknowledged", "client_information">> \in Seq(Written)
        /\ Len(<<"login_acknowledged", "client_information">>) <= 2
    BY DEF Written, Replies, Acknowledgements
  <2>5. Handles(n, <<"login_acknowledged", "client_information">>)
    BY <2>2, <2>3, <2>4 DEF Handles, Arrived, Reading, Running
  <2>6. Leads(n, sent[n].packet)
    BY <1>3, <2>2, <2>3 DEF Leads, StateFrom, Registries
  <2>7. Answering(sent[n].packet, <<"login_acknowledged", "client_information">>)
    BY <1>3 DEF Answering, Acknowledgement
  <2> QED BY <2>5, <2>6, <2>7
<1>4. CASE Fails(n, "profile_mismatch")
  <2>1. <<>> \in Seq(Written) /\ Len(<<>>) <= 2
        /\ "profile_mismatch" \in Outcomes \ {"running", "framing"}
    BY DEF Outcomes
  <2>2. Handles(n, <<>>) /\ ~Running'
    BY <1>4, <2>1, FailsHandles DEF Fails
  <2> QED BY <2>2
<1> QED BY <1>1, <1>2, <1>3, <1>4 DEF LoginAnswers

LEMMA OfflineHandles ==
    ASSUME LoginType, NEW n \in DOMAIN sent, HandleOfflineLogin(n)
    PROVE  Described(n)
<1> USE DEF Described
<1>1. Arrived(n) /\ client.state = "Login" /\ UNCHANGED <<wire, sent, server>>
  BY DEF HandleOfflineLogin
<1>2. CASE LoginAnswers(n, sent[n].packet)
  BY <1>1, <1>2, LoginAnswersHandle
<1>3. CASE Fails(n, "unsupported")
  <2>1. <<>> \in Seq(Written) /\ Len(<<>>) <= 2 /\ "unsupported" \in Outcomes \ {"running", "framing"}
    BY DEF Outcomes
  <2>2. Handles(n, <<>>) /\ ~Running'
    BY <1>1, <1>3, <2>1, FailsHandles DEF Fails
  <2> QED BY <2>2
<1> QED BY <1>2, <1>3 DEF HandleOfflineLogin

LEMMA OnlineHandles ==
    ASSUME LoginType, NEW n \in DOMAIN sent, HandleOnlineLogin(n)
    PROVE  Described(n)
<1> USE DEF Described
<1>1. Arrived(n) /\ client.state = "Login" /\ UNCHANGED <<wire, sent, server>>
  BY DEF HandleOnlineLogin
<1>t. client' = Taken(n) => /\ client' \in ClientRecord /\ client'.kind = client.kind
        /\ client'.outcome = client.outcome /\ client'.state = client.state
        /\ client'.log = Append(client.log, <<n, client.state>>)
        /\ client'.registries = client.registries /\ client'.phase = client.phase
  BY TakenFields
<1>2. CASE LoginAnswers(n, sent[n].packet)
  BY <1>1, <1>2, LoginAnswersHandle
<1>3. CASE Fails(n, "join_failed")
  <2>1. <<>> \in Seq(Written) /\ Len(<<>>) <= 2 /\ "join_failed" \in Outcomes \ {"running", "framing"}
    BY DEF Outcomes
  <2>2. Handles(n, <<>>) /\ ~Running'
    BY <1>1, <1>3, <2>1, FailsHandles DEF Fails
  <2> QED BY <2>2
<1>4. CASE /\ sent[n].packet = "encryption_request"
           /\ Write(<<"encryption_response">>)
           /\ conn' = EnableEncryption(Consumed(conn, sent[n]))
           /\ client' = Taken(n)
  <2>1. <<"encryption_response">> \in Seq(Written) /\ Len(<<"encryption_response">>) <= 2
    BY DEF Written, Acknowledgements
  <2>2. Handles(n, <<"encryption_response">>)
    BY <1>1, <1>t, <1>4, <2>1 DEF Handles, Arrived, Reading, Running
  <2>3. Leads(n, sent[n].packet)
    BY <1>t, <1>4 DEF Leads, StateFrom, Registries
  <2>4. Answering(sent[n].packet, <<"encryption_response">>)
    BY <1>4 DEF Answering, Acknowledgement
  <2> QED BY <2>2, <2>3, <2>4
<1>5. CASE /\ sent[n].packet = "set_compression"
           /\ conn' = EnableCompression(Consumed(conn, sent[n]))
           /\ client' = Taken(n) /\ UNCHANGED outbox
  <2>1. <<>> \in Seq(Written) /\ Len(<<>>) <= 2
    OBVIOUS
  <2>2. Write(<<>>)
    <3>1. outbox \in Seq(OutPacket) /\ outbox' = outbox
      BY <1>5 DEF LoginType, OutPacket
    <3>2. [i \in DOMAIN <<>> |-> Outbound(conn, <<>>[i])] = <<>>
      OBVIOUS
    <3> QED BY <3>1, <3>2 DEF Write
  <2>3. Handles(n, <<>>)
    BY <1>1, <1>t, <1>5, <2>1, <2>2 DEF Handles, Arrived, Reading, Running
  <2>4. Leads(n, sent[n].packet)
    BY <1>t, <1>5 DEF Leads, StateFrom, Registries
  <2>5. Answering(sent[n].packet, <<>>)
    BY <1>5 DEF Answering, Acknowledgement, LoginReply
  <2> QED BY <2>3, <2>4, <2>5
<1> QED BY <1>2, <1>3, <1>4, <1>5 DEF HandleOnlineLogin

LEMMA ConfigurationHandles ==
    ASSUME LoginType, NEW n \in DOMAIN sent, HandleConfiguration(n)
    PROVE  Described(n)
<1> USE DEF Described
<1>1. Arrived(n) /\ client.state = "Configuration" /\ UNCHANGED <<wire, sent, server>>
  BY DEF HandleConfiguration
<1>2. CASE /\ sent[n].packet \in DOMAIN ConfigurationReply
           /\ Answer(n, <<ConfigurationReply[sent[n].packet]>>, Taken(n))
  <2>1. PICK reply : reply = ConfigurationReply[sent[n].packet]
    OBVIOUS
  <2>2. reply \in Replies \ {"client_information", "ping"}
        /\ sent[n].packet \in {"cookie_request", "keep_alive", "ping", "known_packs"}
    BY <1>2, <2>1 DEF ConfigurationReply, Replies, LoginAnswer
  <2>3. <<reply>> \in Seq(Written) /\ Len(<<reply>>) <= 2
    BY <2>2 DEF Written
  <2>4. /\ Handles(n, <<reply>>)
        /\ conn' = Consumed(conn, sent[n]) /\ client'.state = client.state
        /\ client'.registries = client.registries /\ client'.phase = client.phase
    BY <1>1, <1>2, <2>1, <2>3, PlainHandles
  <2>5. Leads(n, sent[n].packet)
    BY <2>2, <2>4 DEF Leads, StateFrom, Registries
  <2>6. Answering(sent[n].packet, <<reply>>)
    BY <1>1, <2>2 DEF Answering, Acknowledgement
  <2> QED BY <2>4, <2>5, <2>6
<1>3. CASE sent[n].packet \in ConfigurationSkipped /\ Answer(n, <<>>, Taken(n))
  <2>1. <<>> \in Seq(Written) /\ Len(<<>>) <= 2
    OBVIOUS
  <2>2. /\ Handles(n, <<>>)
        /\ conn' = Consumed(conn, sent[n]) /\ client'.state = client.state
        /\ client'.registries = client.registries /\ client'.phase = client.phase
    BY <1>1, <1>3, <2>1, PlainHandles
  <2>3. sent[n].packet \in {"custom_payload", "update_tags"}
    BY <1>3 DEF ConfigurationSkipped
  <2>4. Leads(n, sent[n].packet)
    BY <2>2, <2>3 DEF Leads, StateFrom, Registries
  <2>5. Answering(sent[n].packet, <<>>)
    BY <1>1, <2>3 DEF Answering, Acknowledgement
  <2> QED BY <2>2, <2>4, <2>5
<1>4. CASE /\ sent[n].packet \in Registries
           /\ Answer(n, <<>>, [Taken(n) EXCEPT !.phase[sent[n].packet] = n])
  <2>1. client' = [Taken(n) EXCEPT !.phase[sent[n].packet] = n]
        /\ Write(<<>>) /\ conn' = Consumed(conn, sent[n])
    BY <1>4 DEF Answer
  <2>2. n \in 0 .. MaxSent
    <3>1. n \in 1 .. MaxSent /\ MaxSent \in Nat
      BY TakenType, LoginAssumption
    <3> QED BY <3>1
  <2>3. /\ client' \in ClientRecord /\ client'.kind = client.kind
        /\ client'.outcome = client.outcome /\ client'.state = client.state
        /\ client'.log = Append(client.log, <<n, client.state>>)
        /\ client'.registries = client.registries
        /\ client'.phase = [client.phase EXCEPT ![sent[n].packet] = n]
    <3>1. PICK t : t = Taken(n)
      OBVIOUS
    <3>2. client' = [t EXCEPT !.phase = [t.phase EXCEPT ![sent[n].packet] = n]] /\ t \in ClientRecord
      BY <2>1, <3>1, TakenFields
    <3>3. client' \in ClientRecord /\ client'.kind = t.kind
          /\ client'.outcome = t.outcome /\ client'.state = t.state
          /\ client'.log = t.log /\ client'.registries = t.registries
          /\ client'.phase = [t.phase EXCEPT ![sent[n].packet] = n]
      BY <1>4, <2>2, <3>2 DEF ClientRecord
    <3> QED BY <3>1, <3>3, TakenFields
  <2>4. <<>> \in Seq(Written) /\ Len(<<>>) <= 2
    OBVIOUS
  <2>5. Handles(n, <<>>)
    BY <1>1, <2>1, <2>3, <2>4 DEF Handles, Arrived, Reading, Running
  <2>6. Leads(n, sent[n].packet)
    BY <1>4, <2>1, <2>3 DEF Leads, StateFrom, Registries
  <2>7. Answering(sent[n].packet, <<>>)
    BY <1>1, <1>4 DEF Answering, Acknowledgement, Registries
  <2> QED BY <2>5, <2>6, <2>7
<1>5. CASE sent[n].packet \in Refused /\ Fails(n, "refused")
  <2>1. <<>> \in Seq(Written) /\ Len(<<>>) <= 2 /\ "refused" \in Outcomes \ {"running", "framing"}
    BY DEF Outcomes
  <2>2. Handles(n, <<>>) /\ ~Running'
    BY <1>1, <1>5, <2>1, FailsHandles DEF Fails
  <2> QED BY <2>2
<1>6. CASE /\ sent[n].packet = "finish"
           /\ Answer(n, <<"finish_acknowledged">>,
                     [Taken(n) EXCEPT !.state = "Play", !.count = 0, !.loaded = FALSE,
                                      !.registries = Merged(client.registries, client.phase),
                                      !.phase = [r \in Registries |-> 0]])
  <2>1. /\ client' = [Taken(n) EXCEPT !.state = "Play", !.count = 0, !.loaded = FALSE,
                                      !.registries = Merged(client.registries, client.phase),
                                      !.phase = [r \in Registries |-> 0]]
        /\ Write(<<"finish_acknowledged">>) /\ conn' = Consumed(conn, sent[n])
    BY <1>6 DEF Answer
  <2>2. /\ client' \in ClientRecord /\ client'.kind = client.kind
        /\ client'.outcome = client.outcome /\ client'.state = "Play"
        /\ client'.log = Append(client.log, <<n, client.state>>)
        /\ client'.registries = Merged(client.registries, client.phase)
        /\ client'.phase = [r \in Registries |-> 0]
    <3>1. PICK t : t = Taken(n)
      OBVIOUS
    <3>2. PICK merged : merged = Merged(client.registries, client.phase)
      OBVIOUS
    <3>3. PICK none : none = [r \in Registries |-> 0]
      OBVIOUS
    <3>4. client' = [t EXCEPT !.state = "Play", !.count = 0, !.loaded = FALSE,
                              !.registries = merged, !.phase = none] /\ t \in ClientRecord
      BY <2>1, <3>1, <3>2, <3>3, TakenFields
    <3>5. client \in ClientRecord /\ MaxSent \in Nat
      BY TakenType, LoginAssumption
    <3>6. merged \in [Registries -> 0 .. MaxSent] /\ none \in [Registries -> 0 .. MaxSent]
      BY <3>2, <3>3, <3>5 DEF Merged, ClientRecord
    <3>7. client' \in ClientRecord /\ client'.kind = t.kind
          /\ client'.outcome = t.outcome /\ client'.state = "Play"
          /\ client'.log = t.log /\ client'.registries = merged
          /\ client'.phase = none
      BY <3>4, <3>6 DEF ClientRecord, States
    <3> QED BY <3>1, <3>2, <3>3, <3>7, TakenFields
  <2>3. <<"finish_acknowledged">> \in Seq(Written) /\ Len(<<"finish_acknowledged">>) <= 2
    BY DEF Written, Acknowledgements
  <2>4. Handles(n, <<"finish_acknowledged">>)
    BY <1>1, <2>1, <2>2, <2>3 DEF Handles, Arrived, Reading, Running
  <2>5. Leads(n, sent[n].packet)
    BY <1>6, <2>1, <2>2 DEF Leads, StateFrom, Registries
  <2>6. Answering(sent[n].packet, <<"finish_acknowledged">>)
    BY <1>1, <1>6 DEF Answering, Acknowledgement
  <2> QED BY <2>4, <2>5, <2>6
<1> QED BY <1>2, <1>3, <1>4, <1>5, <1>6 DEF HandleConfiguration

LEMMA AcceptanceHandles ==
    ASSUME LoginType, NEW n \in DOMAIN sent, HandleAcceptance(n)
    PROVE  Described(n)
<1> USE DEF Described
<1>1. Arrived(n) /\ client.state = "Play" /\ UNCHANGED <<wire, sent, server>>
  BY DEF HandleAcceptance
<1>2. CASE /\ sent[n].packet \in DOMAIN AcceptanceReply
           /\ Answer(n, <<AcceptanceReply[sent[n].packet]>>, Taken(n))
  <2>1. PICK reply : reply = AcceptanceReply[sent[n].packet]
    OBVIOUS
  <2>2. reply \in Replies \ {"client_information", "ping"}
        /\ sent[n].packet \in {"cookie_request", "keep_alive", "ping", "player_position"}
    BY <1>2, <2>1 DEF AcceptanceReply, Replies, LoginAnswer
  <2>3. <<reply>> \in Seq(Written) /\ Len(<<reply>>) <= 2
    BY <2>2 DEF Written
  <2>4. /\ Handles(n, <<reply>>)
        /\ conn' = Consumed(conn, sent[n]) /\ client'.state = client.state
        /\ client'.registries = client.registries /\ client'.phase = client.phase
    BY <1>1, <1>2, <2>1, <2>3, PlainHandles
  <2>5. Leads(n, sent[n].packet)
    BY <2>2, <2>4 DEF Leads, StateFrom, Registries
  <2>6. Answering(sent[n].packet, <<reply>>)
    BY <1>1, <2>2 DEF Answering, Acknowledgement
  <2> QED BY <2>4, <2>5, <2>6
<1>3. ASSUME NEW packets \in {<<"chunk_batch_received">>, <<"chunk_batch_received", "player_loaded">>},
             sent[n].packet = "chunk_batch_finished",
             Answer(n, packets, [Taken(n) EXCEPT !.loaded = TRUE])
      PROVE  Described(n)
  <2>1. client' = [Taken(n) EXCEPT !.loaded = TRUE]
        /\ Write(packets) /\ conn' = Consumed(conn, sent[n])
    BY <1>3 DEF Answer
  <2>2. /\ client' \in ClientRecord /\ client'.kind = client.kind
        /\ client'.outcome = client.outcome /\ client'.state = client.state
        /\ client'.log = Append(client.log, <<n, client.state>>)
        /\ client'.registries = client.registries /\ client'.phase = client.phase
    BY <2>1, TakenFields DEF ClientRecord
  <2>3. packets \in Seq(Written) /\ Len(packets) <= 2
    <3>1. CASE packets = <<"chunk_batch_received">>
      BY <3>1 DEF Written, Replies
    <3>2. CASE packets = <<"chunk_batch_received", "player_loaded">>
      BY <3>2 DEF Written, Replies
    <3> QED BY <3>1, <3>2
  <2>4. Handles(n, packets)
    BY <1>1, <2>1, <2>2, <2>3 DEF Handles, Arrived, Reading, Running
  <2>5. Leads(n, sent[n].packet)
    BY <1>3, <2>1, <2>2 DEF Leads, StateFrom, Registries
  <2>6. \A i \in DOMAIN packets : packets[i] \in {"chunk_batch_received", "player_loaded"}
    BY <1>3
  <2>7. Answering(sent[n].packet, packets)
    BY <1>1, <1>3, <2>6 DEF Answering, Acknowledgement, Replies
  <2> QED BY <2>4, <2>5, <2>7
<1>4. CASE sent[n].packet \in AcceptanceIgnored /\ Answer(n, <<>>, Taken(n))
  <2>1. <<>> \in Seq(Written) /\ Len(<<>>) <= 2
    OBVIOUS
  <2>2. /\ Handles(n, <<>>)
        /\ conn' = Consumed(conn, sent[n]) /\ client'.state = client.state
        /\ client'.registries = client.registries /\ client'.phase = client.phase
    BY <1>1, <1>4, <2>1, PlainHandles
  <2>3. sent[n].packet = "world_packet"
    BY <1>4 DEF AcceptanceIgnored
  <2>4. Leads(n, sent[n].packet)
    BY <2>2, <2>3 DEF Leads, StateFrom, Registries
  <2>5. Answering(sent[n].packet, <<>>)
    BY <1>1, <2>3 DEF Answering, Acknowledgement
  <2> QED BY <2>2, <2>4, <2>5
<1>5. CASE sent[n].packet \in Refused /\ Fails(n, "refused")
  <2>1. <<>> \in Seq(Written) /\ Len(<<>>) <= 2 /\ "refused" \in Outcomes \ {"running", "framing"}
    BY DEF Outcomes
  <2>2. Handles(n, <<>>) /\ ~Running'
    BY <1>1, <1>5, <2>1, FailsHandles DEF Fails
  <2> QED BY <2>2
<1> DEFINE again == <<"configuration_acknowledged", "client_information">>
<1>a. again \in Seq(Written) /\ Len(again) <= 2
  BY DEF Written, Replies, Acknowledgements
<1>6. CASE /\ sent[n].packet = "start_configuration" /\ MayReconfigure
           /\ Answer(n, again, [Taken(n) EXCEPT !.state = "Configuration", !.count = 0,
                                                !.rounds = @ + 1])
  <2>1. client' = [Taken(n) EXCEPT !.state = "Configuration", !.count = 0,
                                   !.rounds = Taken(n).rounds + 1]
        /\ Write(again) /\ conn' = Consumed(conn, sent[n])
    BY <1>6, TakenFields DEF Answer, ClientRecord
  <2>2. Taken(n).rounds + 1 \in 0 .. MaxReconfigurations
    <3>1. client.rounds \in 0 .. MaxReconfigurations /\ Taken(n).rounds = client.rounds
      BY TakenFields, TakenType DEF ClientRecord
    <3>2. MaxReconfigurations \in Nat /\ client.rounds < MaxReconfigurations
      BY <1>6, LoginAssumption DEF MayReconfigure
    <3> QED BY <3>1, <3>2
  <2>3. /\ client' \in ClientRecord /\ client'.kind = client.kind
        /\ client'.outcome = client.outcome /\ client'.state = "Configuration"
        /\ client'.log = Append(client.log, <<n, client.state>>)
        /\ client'.registries = client.registries /\ client'.phase = client.phase
    BY <2>1, <2>2, TakenFields DEF ClientRecord, States
  <2>4. Handles(n, again)
    BY <1>1, <1>a, <2>1, <2>3 DEF Handles, Arrived, Reading, Running
  <2>5. Leads(n, sent[n].packet)
    BY <1>6, <2>1, <2>3 DEF Leads, StateFrom, Registries
  <2>6. Answering(sent[n].packet, again)
    BY <1>1, <1>6 DEF Answering, Acknowledgement
  <2> QED BY <2>4, <2>5, <2>6
<1>7. CASE Answer(n, again, [Taken(n) EXCEPT !.outcome = "packet_limit"])
  <2>1. "packet_limit" \in Outcomes \ {"running", "framing"}
    BY DEF Outcomes
  <2>2. Handles(n, again) /\ ~Running'
    BY <1>1, <1>7, <1>a, <2>1, FailsHandles
  <2> QED BY <2>2
<1>8. CASE sent[n].packet = "login" /\ Answer(n, <<>>, [Taken(n) EXCEPT !.state = "Session"])
  <2>1. client' = [Taken(n) EXCEPT !.state = "Session"]
        /\ Write(<<>>) /\ conn' = Consumed(conn, sent[n])
    BY <1>8 DEF Answer
  <2>2. /\ client' \in ClientRecord /\ client'.kind = client.kind
        /\ client'.outcome = client.outcome /\ client'.state = "Session"
        /\ client'.log = Append(client.log, <<n, client.state>>)
        /\ client'.registries = client.registries /\ client'.phase = client.phase
    BY <2>1, TakenFields DEF ClientRecord, States
  <2>3. <<>> \in Seq(Written) /\ Len(<<>>) <= 2
    OBVIOUS
  <2>4. Handles(n, <<>>)
    BY <1>1, <2>1, <2>2, <2>3 DEF Handles, Arrived, Reading, Running
  <2>5. Leads(n, sent[n].packet)
    BY <1>8, <2>1, <2>2 DEF Leads, StateFrom, Registries
  <2>6. Answering(sent[n].packet, <<>>)
    BY <1>1, <1>8 DEF Answering, Acknowledgement
  <2> QED BY <2>4, <2>5, <2>6
<1>9. CASE sent[n].packet = "chunk_batch_finished"
           /\ Answer(n, IF client.loaded THEN <<"chunk_batch_received">>
                        ELSE <<"chunk_batch_received", "player_loaded">>,
                     [Taken(n) EXCEPT !.loaded = TRUE])
  <2>1. CASE client.loaded
    BY <1>3, <1>9, <2>1
  <2>2. CASE ~client.loaded
    BY <1>3, <1>9, <2>2
  <2> QED BY <2>1, <2>2
<1> HIDE DEF Described
<1> QED BY <1>2, <1>4, <1>5, <1>6, <1>7, <1>8, <1>9, Zenon DEF HandleAcceptance

LEMMA SessionHandles ==
    ASSUME LoginType, NEW n \in DOMAIN sent, HandleSession(n)
    PROVE  Described(n)
<1> USE DEF Described
<1>1. Arrived(n) /\ client.state = "Session" /\ UNCHANGED <<wire, sent, server>>
  BY DEF HandleSession
<1>2. client' = [Taken(n) EXCEPT !.count = 0]
      /\ Write(<<>>) /\ conn' = Consumed(conn, sent[n])
  BY DEF HandleSession, Answer
<1>3. /\ client' \in ClientRecord /\ client'.kind = client.kind
      /\ client'.outcome = client.outcome /\ client'.state = client.state
      /\ client'.log = Append(client.log, <<n, client.state>>)
      /\ client'.registries = client.registries /\ client'.phase = client.phase
  BY <1>2, TakenFields DEF ClientRecord
<1>4. <<>> \in Seq(Written) /\ Len(<<>>) <= 2
  OBVIOUS
<1>5. Handles(n, <<>>)
  BY <1>1, <1>2, <1>3, <1>4 DEF Handles, Arrived, Reading, Running
<1>6. ASSUME Placed(n)
      PROVE  sent[n].packet \notin {"encryption_request", "set_compression", "success", "finish",
                                    "start_configuration", "login", "wrong_success"} \cup Registries
  BY <1>1, <1>6 DEF Placed, FramesPlaced, StateFor
<1>7. Placed(n) => Leads(n, sent[n].packet)
  BY <1>2, <1>3, <1>6 DEF Leads, StateFrom
<1>8. Placed(n) => Answering(sent[n].packet, <<>>)
  BY <1>1, <1>6 DEF Answering, Acknowledgement
<1> QED BY <1>5, <1>7, <1>8

Handler(n) ==
    \/ HandleStatus(n) \/ HandleOfflineLogin(n) \/ HandleOnlineLogin(n)
    \/ HandleConfiguration(n) \/ HandleAcceptance(n) \/ HandleSession(n)

\* Whatever handles a frame does it in this way.
LEMMA HandlersDescribed ==
    ASSUME LoginType, NEW n \in DOMAIN sent, Handler(n)
    PROVE  Described(n)
BY StatusHandles, OfflineHandles, OnlineHandles, ConfigurationHandles, AcceptanceHandles,
   SessionHandles DEF Handler

-----------------------------------------------------------------------------
(* The server.                                                             *)

ServerRecord ==
    [phase : Phases, key : Nat, zip : BOOLEAN, inKey : BOOLEAN, inZip : BOOLEAN,
     awaits : Acknowledgements \cup {None}, owed : Nat,
     done : SUBSET {"set_compression", "encryption_request", "status_response"},
     confused : BOOLEAN, faulty : BOOLEAN]

\* The packets that a phase allows, as far as the invariant tells them apart.
Lawful(packet) ==
    /\ server.phase \in {"Status", "Ping", "Login", "Configuration", "Play", "Session"}
    /\ packet \in {"encryption_request", "set_compression", "success", "wrong_success"} =>
         server.phase = "Login"
    /\ packet \in Registries \cup {"finish"} => server.phase = "Configuration"
    /\ packet \in {"start_configuration", "login"} => server.phase = "Play"
    /\ packet \in {"encryption_request", "set_compression"} => packet \notin server.done
    /\ packet = "set_compression" => server.owed = 0
    /\ server.phase = "Login" => packet \in {"success", "wrong_success", "disconnect", "garbage",
                                             "encryption_request", "set_compression"}
                                            \cup DOMAIN LoginReply

\* What the server does when it sends a frame.
Sends(frame) ==
    /\ Running /\ server.awaits = None /\ Lawful(frame.packet)
    /\ frame \in Frame /\ frame.phase = server.phase
    /\ sent' = Append(sent, frame) /\ Len(sent) < MaxSent
    /\ wire' = wire \o Enciphered(Len(sent) + 1, frame, server.key)
    /\ UNCHANGED <<conn, client, outbox>>
    /\ server' \in ServerRecord
    /\ server'.key = IF server.key = 0 THEN 0 ELSE server.key + FrameBytes(frame)
    /\ server'.zip = (server.zip \/ frame.packet = "set_compression")
    /\ server'.inZip = (server.inZip \/ frame.packet = "set_compression")
    /\ server'.inKey = server.inKey /\ server'.confused = server.confused
    /\ server.done \subseteq server'.done
    /\ frame.packet \in {"encryption_request", "set_compression"} => frame.packet \in server'.done
    /\ server.faulty => server'.faulty
    /\ ~server'.faulty => frame.format = Format(server.zip, frame.size)
    /\ server'.owed = server.owed + (IF frame.packet \in DOMAIN LoginReply THEN 1 ELSE 0)
    /\ server'.phase = IF frame.packet = "disconnect" THEN "Closed"
                       ELSE IF frame.packet = "login" THEN "Session" ELSE server.phase
    /\ server'.awaits = IF frame.packet \in DOMAIN Acknowledgement
                        THEN Acknowledgement[frame.packet] ELSE None

LEMMA SendSends ==
    ASSUME LoginType, NEW packet \in Packets, server.awaits = None,
           NEW format \in {"good", "bad_length", "plain", "marked"}, Lawful(packet),
           Send(packet, format), UNCHANGED <<conn, client, outbox>>
    PROVE  \E frame : Sends(frame)
<1>1. PICK size : size = IF packet \in Large THEN 2 ELSE 1
  OBVIOUS
<1>2. PICK shape : shape = IF format = "good" THEN Format(server.zip, size) ELSE format
  OBVIOUS
<1>3. PICK frame : frame = [packet |-> packet, phase |-> server.phase, size |-> size, format |-> shape]
  OBVIOUS
<1>4. server \in ServerRecord /\ size \in {1, 2} /\ shape \in Formats
  BY <1>1, <1>2 DEF LoginType, ServerRecord, Format, Formats
<1>5. frame \in Frame /\ frame.phase = server.phase /\ frame.packet = packet /\ frame.size = size
      /\ frame.format = shape
  BY <1>3, <1>4 DEF Frame, ServerRecord
<1>6. /\ Running /\ Len(sent) < MaxSent /\ sent' = Append(sent, frame)
      /\ wire' = wire \o Enciphered(Len(sent) + 1, frame, server.key)
  BY <1>1, <1>2, <1>3 DEF Send
<1>7. PICK awaits : awaits = CASE packet = "encryption_request" -> "encryption_response"
                               [] packet = "success" -> "login_acknowledged"
                               [] packet = "finish" -> "finish_acknowledged"
                               [] packet = "start_configuration" -> "configuration_acknowledged"
                               [] OTHER -> server.awaits
  OBVIOUS
<1>8. awaits = (IF packet \in DOMAIN Acknowledgement THEN Acknowledgement[packet] ELSE None)
      /\ awaits \in Acknowledgements \cup {None}
  <2>1. CASE packet = "encryption_request"
    BY <1>7, <2>1 DEF Acknowledgement, Acknowledgements
  <2>2. CASE packet = "success"
    BY <1>7, <2>2 DEF Acknowledgement, Acknowledgements
  <2>3. CASE packet = "finish"
    BY <1>7, <2>3 DEF Acknowledgement, Acknowledgements
  <2>4. CASE packet = "start_configuration"
    BY <1>7, <2>4 DEF Acknowledgement, Acknowledgements
  <2>5. CASE packet \notin {"encryption_request", "success", "finish", "start_configuration"}
    <3>1. packet \notin DOMAIN Acknowledgement
      BY <2>5 DEF Acknowledgement
    <3>2. awaits = server.awaits
      BY <1>7, <2>5
    <3> QED BY <3>1, <3>2
  <2> QED BY <2>1, <2>2, <2>3, <2>4, <2>5
<1>9. PICK done : done = server.done \cup ({packet} \cap {"set_compression", "encryption_request", "status_response"})
  OBVIOUS
<1>10. PICK phase : phase = IF packet = "disconnect" THEN "Closed"
                            ELSE IF packet = "login" THEN "Session" ELSE server.phase
  OBVIOUS
<1>11. PICK owed : owed = server.owed + IF packet \in DOMAIN LoginReply THEN 1 ELSE 0
  OBVIOUS
<1>12. PICK key : key = IF server.key = 0 THEN 0 ELSE server.key + FrameBytes(frame)
  OBVIOUS
<1>13. server' = [server EXCEPT !.key = key,
                !.zip = @ \/ packet = "set_compression",
                !.inZip = @ \/ packet = "set_compression",
                !.done = done,
                !.faulty = @ \/ format # "good",
                !.owed = owed, !.phase = phase, !.awaits = awaits]
  <2>1. server' = [server EXCEPT
                !.key = IF server.key = 0 THEN 0 ELSE server.key + FrameBytes(frame),
                !.zip = @ \/ packet = "set_compression",
                !.inZip = @ \/ packet = "set_compression",
                !.done = server.done \cup ({packet} \cap {"set_compression", "encryption_request", "status_response"}),
                !.faulty = @ \/ format # "good",
                !.owed = server.owed + IF packet \in DOMAIN LoginReply THEN 1 ELSE 0,
                !.phase = IF packet = "disconnect" THEN "Closed"
                          ELSE IF packet = "login" THEN "Session" ELSE server.phase,
                !.awaits = CASE packet = "encryption_request" -> "encryption_response"
                             [] packet = "success" -> "login_acknowledged"
                             [] packet = "finish" -> "finish_acknowledged"
                             [] packet = "start_configuration" -> "configuration_acknowledged"
                             [] OTHER -> server.awaits]
    BY <1>1, <1>2, <1>3 DEF Send
  <2> QED BY <1>7, <1>9, <1>10, <1>11, <1>12, <2>1, Zenon
<1>14. FrameBytes(frame) \in Nat
  <2>1. frame.size \in {1, 2}
    BY <1>4, <1>5
  <2> QED BY <2>1 DEF FrameBytes, PrefixBytes
<1>15. key \in Nat /\ owed \in Nat /\ phase \in Phases
       /\ done \in SUBSET {"set_compression", "encryption_request", "status_response"}
  <2>1. server.key \in Nat /\ server.owed \in Nat /\ server.phase \in Phases
        /\ server.done \in SUBSET {"set_compression", "encryption_request", "status_response"}
    BY <1>4 DEF ServerRecord
  <2>2. key \in Nat
    BY <1>12, <1>14, <2>1
  <2>3. owed \in Nat
    BY <1>11, <2>1
  <2>4. phase \in Phases
    BY <1>10, <2>1 DEF Phases
  <2>5. done \in SUBSET {"set_compression", "encryption_request", "status_response"}
    BY <1>9, <2>1
  <2> QED BY <2>2, <2>3, <2>4, <2>5
<1>16. server' \in ServerRecord
  <2>1. PICK zip : zip = (server.zip \/ packet = "set_compression")
    OBVIOUS
  <2>2. PICK inZip : inZip = (server.inZip \/ packet = "set_compression")
    OBVIOUS
  <2>3. PICK faulty : faulty = (server.faulty \/ format # "good")
    OBVIOUS
  <2>4. zip \in BOOLEAN /\ inZip \in BOOLEAN /\ faulty \in BOOLEAN
    BY <2>1, <2>2, <2>3
  <2>5. server' = [server EXCEPT !.key = key, !.zip = zip, !.inZip = inZip, !.done = done,
                                 !.faulty = faulty, !.owed = owed, !.phase = phase, !.awaits = awaits]
    BY <1>13, <2>1, <2>2, <2>3
  <2>6. PICK half : half = [server EXCEPT !.key = key, !.zip = zip, !.inZip = inZip, !.done = done]
    OBVIOUS
  <2>7. half \in ServerRecord
    BY <1>4, <1>15, <2>4, <2>6 DEF ServerRecord
  <2>8. server' = [half EXCEPT !.faulty = faulty, !.owed = owed, !.phase = phase, !.awaits = awaits]
    BY <2>5, <2>6
  <2> QED BY <1>8, <1>15, <2>4, <2>7, <2>8 DEF ServerRecord
<1>17. /\ server'.key = key /\ server'.done = done /\ server'.owed = owed
       /\ server'.phase = phase /\ server'.awaits = awaits
       /\ server'.zip = (server.zip \/ packet = "set_compression")
       /\ server'.inZip = (server.inZip \/ packet = "set_compression")
       /\ server'.faulty = (server.faulty \/ format # "good")
       /\ server'.inKey = server.inKey /\ server'.confused = server.confused
  BY <1>4, <1>13 DEF ServerRecord
<1>18. ~server'.faulty => frame.format = Format(server.zip, frame.size)
  BY <1>2, <1>5, <1>17
<1>19. Sends(frame)
  BY <1>5, <1>6, <1>8, <1>9, <1>10, <1>11, <1>12, <1>16, <1>17, <1>18 DEF Sends
<1> QED BY <1>19

LEMMA ServerSends ==
    ASSUME LoginType, ServerSend \/ ServerErrs
    PROVE  \E frame : Sends(frame)
<1>1. CASE ServerSend
  <2>1. PICK packet \in Allowed \cap (Needed \cup Extras) : Send(packet, "good")
    BY <1>1 DEF ServerSend
  <2>2. packet \in Packets /\ packet \in Allowed
    BY <2>1 DEF Packets
  <2>3. server.phase \in Phases
    BY DEF LoginType
  <2>a. server.phase \in {"Status", "Ping", "Login", "Configuration", "Play", "Session"}
    BY <2>2, <2>3 DEF Phases, Allowed
  <2>4. Lawful(packet)
    <3>1. CASE server.phase = "Status"
      BY <2>2, <3>1 DEF Allowed, Lawful, LoginReply, Registries
    <3>2. CASE server.phase = "Ping"
      BY <2>2, <3>2 DEF Allowed, Lawful, LoginReply, Registries
    <3>3. CASE server.phase = "Login"
      <4>1. packet \in {"success", "wrong_success", "disconnect"} \cup DOMAIN LoginReply
            \cup ({"encryption_request"} \ server.done)
            \cup (IF server.owed = 0 THEN {"set_compression"} \ server.done ELSE {})
        BY <2>2, <3>3 DEF Allowed
      <4> QED BY <3>3, <4>1 DEF Lawful, LoginReply, Registries
    <3>4. CASE server.phase = "Configuration"
      BY <2>2, <3>4 DEF Allowed, Lawful, LoginReply, Registries, ConfigurationReply,
                        ConfigurationSkipped, Refused
    <3>5. CASE server.phase = "Play"
      BY <2>2, <3>5 DEF Allowed, Lawful, LoginReply, Registries, AcceptanceReply,
                        AcceptanceIgnored, Refused
    <3>6. CASE server.phase = "Session"
      BY <2>2, <3>6 DEF Allowed, Lawful, LoginReply, Registries
    <3> QED BY <2>a, <3>1, <3>2, <3>3, <3>4, <3>5, <3>6
  <2> QED BY <1>1, <2>1, <2>2, <2>4, SendSends DEF ServerSend
<1>2. CASE ServerErrs
  <2>1. PICK format \in {"bad_length", IF server.zip THEN "plain" ELSE "marked"} :
          Send("garbage", format)
    BY <1>2 DEF ServerErrs
  <2>2. "garbage" \in Packets /\ format \in {"good", "bad_length", "plain", "marked"}
    BY DEF Packets
  <2>3. Lawful("garbage")
    BY <1>2 DEF ServerErrs, Lawful, Registries
  <2> QED BY <1>2, <2>1, <2>2, <2>3, SendSends DEF ServerErrs
<1> QED BY <1>1, <1>2

\* What the server does when it reads a packet.
PhaseOnRead(packet) ==
    IF packet = "status_request" THEN "Status"
    ELSE IF packet = "login_start" THEN "Login"
    ELSE IF packet = "ping" THEN "Ping"
    ELSE IF packet \in {"login_acknowledged", "configuration_acknowledged"} THEN "Configuration"
    ELSE IF packet = "finish_acknowledged" THEN "Play"
    ELSE server.phase

Reads(got) ==
    /\ Running /\ ~Closed /\ Len(outbox) > 0 /\ got = outbox[1] /\ got \in OutPacket
    /\ outbox' \in Seq(OutPacket) /\ Len(outbox') = Len(outbox) - 1
    /\ \A j \in 1 .. Len(outbox) - 1 : outbox'[j] = outbox[j + 1]
    /\ UNCHANGED <<conn, client, wire, sent>>
    /\ server' \in ServerRecord
    /\ server'.confused <=> server.confused \/ ~(got.enc <=> server.inKey) \/ ~(got.zip <=> server.inZip)
    /\ server'.awaits = IF server.awaits = got.packet THEN None ELSE server.awaits
    /\ server'.inKey <=> server.inKey \/ got.packet = "encryption_response"
    /\ server'.key = IF got.packet = "encryption_response" THEN 1 ELSE server.key
    /\ server'.owed = IF got.packet \in LoginAnswer /\ server.owed > 0 THEN server.owed - 1
                      ELSE server.owed
    /\ server'.phase = PhaseOnRead(got.packet)
    /\ server'.zip = server.zip /\ server'.inZip = server.inZip
    /\ server'.done = server.done /\ server'.faulty = server.faulty

LEMMA ServerReads ==
    ASSUME LoginType, ServerRead
    PROVE  Reads(outbox[1])
<1>1. server \in ServerRecord /\ outbox \in Seq(OutPacket)
  BY DEF LoginType, ServerRecord, OutPacket
<1>2. PICK got : got = Head(outbox)
  OBVIOUS
<1>3. /\ Running /\ ~Closed /\ outbox # <<>> /\ outbox' = Tail(outbox)
      /\ UNCHANGED <<conn, client, wire, sent>>
  BY DEF ServerRead, Closed
<1>4. /\ Len(outbox) > 0 /\ got = outbox[1] /\ got \in OutPacket
      /\ outbox' \in Seq(OutPacket) /\ Len(outbox') = Len(outbox) - 1
      /\ \A j \in 1 .. Len(outbox) - 1 : outbox'[j] = outbox[j + 1]
  BY <1>1, <1>2, <1>3
<1>5. PICK confused : confused = (server.confused \/ got.enc # server.inKey \/ got.zip # server.inZip)
  OBVIOUS
<1>6. PICK awaits : awaits = IF server.awaits = got.packet THEN None ELSE server.awaits
  OBVIOUS
<1>7. PICK inKey : inKey = (server.inKey \/ got.packet = "encryption_response")
  OBVIOUS
<1>8. PICK key : key = IF got.packet = "encryption_response" THEN 1 ELSE server.key
  OBVIOUS
<1>9. PICK owed : owed = IF got.packet \in LoginAnswer /\ server.owed > 0 THEN server.owed - 1
                         ELSE server.owed
  OBVIOUS
<1>10. PICK phase : phase = CASE got.packet = "status_request" -> "Status"
                              [] got.packet = "login_start" -> "Login"
                              [] got.packet = "ping" -> "Ping"
                              [] got.packet = "login_acknowledged" -> "Configuration"
                              [] got.packet = "configuration_acknowledged" -> "Configuration"
                              [] got.packet = "finish_acknowledged" -> "Play"
                              [] OTHER -> server.phase
  OBVIOUS
<1>11. phase = PhaseOnRead(got.packet)
  BY <1>10 DEF PhaseOnRead
<1>12. server' = [server EXCEPT !.confused = confused, !.awaits = awaits, !.inKey = inKey,
                                !.key = key, !.owed = owed, !.phase = phase]
  <2>1. server' = [server EXCEPT
            !.confused = server.confused \/ got.enc # server.inKey \/ got.zip # server.inZip,
            !.awaits = IF server.awaits = got.packet THEN None ELSE server.awaits,
            !.inKey = server.inKey \/ got.packet = "encryption_response",
            !.key = IF got.packet = "encryption_response" THEN 1 ELSE server.key,
            !.owed = IF got.packet \in {"plugin_response", "cookie_response"} /\ server.owed > 0
                     THEN server.owed - 1 ELSE server.owed,
            !.phase = CASE got.packet = "status_request" -> "Status"
                        [] got.packet = "login_start" -> "Login"
                        [] got.packet = "ping" -> "Ping"
                        [] got.packet = "login_acknowledged" -> "Configuration"
                        [] got.packet = "configuration_acknowledged" -> "Configuration"
                        [] got.packet = "finish_acknowledged" -> "Play"
                        [] OTHER -> server.phase]
    BY <1>2 DEF ServerRead
  <2> QED BY <1>5, <1>6, <1>7, <1>8, <1>9, <1>10, <2>1, Zenon DEF LoginAnswer
<1>13. /\ confused \in BOOLEAN /\ inKey \in BOOLEAN
       /\ awaits \in Acknowledgements \cup {None} /\ key \in Nat /\ owed \in Nat /\ phase \in Phases
  <2>1. /\ server.awaits \in Acknowledgements \cup {None} /\ server.key \in Nat
        /\ server.owed \in Nat /\ server.phase \in Phases
    BY <1>1 DEF ServerRecord
  <2>2. confused \in BOOLEAN /\ inKey \in BOOLEAN
    BY <1>5, <1>7
  <2>3. awaits \in Acknowledgements \cup {None}
    BY <1>6, <2>1
  <2>4. key \in Nat /\ owed \in Nat
    BY <1>8, <1>9, <2>1
  <2>5. phase \in Phases
    BY <1>11, <2>1 DEF Phases, PhaseOnRead
  <2> QED BY <2>2, <2>3, <2>4, <2>5
<1>14. server' \in ServerRecord
  BY <1>1, <1>12, <1>13 DEF ServerRecord
<1>15. /\ server'.confused = confused /\ server'.awaits = awaits /\ server'.inKey = inKey
       /\ server'.key = key /\ server'.owed = owed /\ server'.phase = phase
       /\ server'.zip = server.zip /\ server'.inZip = server.inZip
       /\ server'.done = server.done /\ server'.faulty = server.faulty
  BY <1>1, <1>12 DEF ServerRecord
<1>16. got.enc \in BOOLEAN /\ got.zip \in BOOLEAN /\ server.inKey \in BOOLEAN
       /\ server.inZip \in BOOLEAN /\ server.confused \in BOOLEAN
  BY <1>1, <1>4 DEF ServerRecord, OutPacket
<1>17. server'.confused <=> server.confused \/ ~(got.enc <=> server.inKey) \/ ~(got.zip <=> server.inZip)
  BY <1>5, <1>15, <1>16, Zenon
<1>18. server'.inKey <=> server.inKey \/ got.packet = "encryption_response"
  BY <1>7, <1>15, <1>16
<1> QED BY <1>3, <1>4, <1>6, <1>8, <1>9, <1>11, <1>14, <1>15, <1>17, <1>18 DEF Reads

-----------------------------------------------------------------------------
(* Sequences.                                                              *)

LEMMA Joined ==
    ASSUME NEW S, NEW s \in Seq(S), NEW t \in Seq(S)
    PROVE  /\ s \o t \in Seq(S) /\ Len(s \o t) = Len(s) + Len(t)
           /\ \A i \in 1 .. Len(s) : (s \o t)[i] = s[i]
           /\ \A i \in 1 .. Len(t) : (s \o t)[Len(s) + i] = t[i]
OBVIOUS

LEMMA Dropped ==
    ASSUME NEW S, NEW s \in Seq(S), NEW n \in 0 .. Len(s)
    PROVE  /\ SubSeq(s, n + 1, Len(s)) \in Seq(S) /\ Len(SubSeq(s, n + 1, Len(s))) = Len(s) - n
           /\ \A i \in 1 .. Len(s) - n : SubSeq(s, n + 1, Len(s))[i] = s[i + n]
OBVIOUS

-----------------------------------------------------------------------------
(* Reading the socket.                                                     *)

\* A read that the buffer has room for.
Receives(n) ==
    /\ Running /\ client.state # "Handshake" /\ NextFrame(conn, sent) = NeedMore
    /\ n \in 1 .. ReadSize /\ n <= Len(wire)
    /\ wire' = SubSeq(wire, n + 1, Len(wire))
    /\ conn' = Received(conn, SubSeq(wire, 1, n))
    /\ UNCHANGED <<client, outbox, sent, server>>

LEMMA ReceivedType ==
    ASSUME LoginType, NEW n, Receives(n)
    PROVE  /\ conn' \in [buffer : Seq(Bytes), decryptor : Nat, encryptor : BOOLEAN,
                         threshold : {0, Threshold}]
           /\ wire' \in Seq((0 .. MaxSent) \X (0 .. 4) \X Nat)
           /\ Len(wire') = Len(wire) - n /\ Len(conn'.buffer) = Len(conn.buffer) + n
           /\ n \in 1 .. Len(wire)
           /\ \A i \in 1 .. Len(wire) - n : wire'[i] = wire[i + n]
           /\ \A i \in 1 .. Len(conn.buffer) : conn'.buffer[i] = conn.buffer[i]
           /\ \A i \in 1 .. n : conn'.buffer[Len(conn.buffer) + i] =
                IF wire[i][3] = (IF conn.decryptor = 0 THEN 0 ELSE conn.decryptor + i - 1)
                THEN <<wire[i][1], wire[i][2]>> ELSE Noise
           /\ conn'.decryptor = (IF conn.decryptor = 0 THEN 0 ELSE conn.decryptor + n)
           /\ conn'.encryptor = conn.encryptor /\ conn'.threshold = conn.threshold
<1>1. /\ wire \in Seq((0 .. MaxSent) \X (0 .. 4) \X Nat) /\ n \in Nat /\ 0 < n /\ n <= Len(wire)
      /\ conn \in [buffer : Seq(Bytes), decryptor : Nat, encryptor : BOOLEAN, threshold : {0, Threshold}]
      /\ MaxSent \in Nat
  <2>1. n \in 1 .. ReadSize /\ n <= Len(wire) /\ ReadSize \in Nat
    BY TransportAssumption DEF Receives
  <2>2. /\ wire \in Seq((0 .. MaxSent) \X (0 .. 4) \X Nat) /\ MaxSent \in Nat
        /\ conn \in [buffer : Seq(Bytes), decryptor : Nat, encryptor : BOOLEAN, threshold : {0, Threshold}]
    BY LoginAssumption DEF LoginType
  <2> QED BY <2>1, <2>2
<1>2. PICK bytes : bytes = SubSeq(wire, 1, n)
  OBVIOUS
<1>3. /\ bytes \in Seq((0 .. MaxSent) \X (0 .. 4) \X Nat) /\ Len(bytes) = n
      /\ \A i \in 1 .. n : bytes[i] = wire[i]
  BY <1>1, <1>2
<1>4. PICK plain : plain = Decrypt(conn, bytes)
  OBVIOUS
<1>5. /\ \A i \in 1 .. n : plain[i] =
             IF wire[i][3] = (IF conn.decryptor = 0 THEN 0 ELSE conn.decryptor + i - 1)
             THEN <<wire[i][1], wire[i][2]>> ELSE Noise
      /\ plain = [i \in 1 .. n |-> plain[i]]
  <2>1. DOMAIN bytes = 1 .. n
    BY <1>1, <1>3
  <2>2. plain = [i \in 1 .. n |->
                   LET expected == IF conn.decryptor = 0 THEN 0 ELSE conn.decryptor + i - 1
                   IN  IF bytes[i][3] = expected THEN <<bytes[i][1], bytes[i][2]>> ELSE Noise]
    BY <1>4, <2>1, Zenon DEF Decrypt
  <2> QED BY <1>3, <2>2
<1>6. \A i \in 1 .. n : plain[i] \in Bytes
  <2> TAKE i \in 1 .. n
  <2>1. wire[i] \in (0 .. MaxSent) \X (0 .. 4) \X Nat
    BY <1>1
  <2>2. <<wire[i][1], wire[i][2]>> \in Bytes
    BY <2>1 DEF Bytes
  <2>3. Noise \in Bytes
    BY <1>1 DEF Noise, Bytes
  <2> QED BY <1>5, <2>2, <2>3
<1>7. plain \in Seq(Bytes) /\ Len(plain) = n
  <2>1. plain \in [1 .. n -> Bytes]
    BY <1>5, <1>6
  <2> QED BY <1>1, <2>1
<1>8. conn' = [conn EXCEPT !.buffer = conn.buffer \o plain,
                           !.decryptor = IF conn.decryptor = 0 THEN 0 ELSE conn.decryptor + n]
  BY <1>1, <1>2, <1>3, <1>4 DEF Receives, Received
<1>9. PICK buffer : buffer = conn.buffer \o plain
  OBVIOUS
<1>10. /\ buffer \in Seq(Bytes) /\ Len(buffer) = Len(conn.buffer) + n
       /\ \A i \in 1 .. Len(conn.buffer) : buffer[i] = conn.buffer[i]
       /\ \A i \in 1 .. n : buffer[Len(conn.buffer) + i] = plain[i]
  <2>1. conn.buffer \in Seq(Bytes)
    BY <1>1
  <2>2. /\ buffer \in Seq(Bytes) /\ Len(buffer) = Len(conn.buffer) + Len(plain)
        /\ \A i \in 1 .. Len(conn.buffer) : buffer[i] = conn.buffer[i]
        /\ \A i \in 1 .. Len(plain) : buffer[Len(conn.buffer) + i] = plain[i]
    <3>1. PICK before : before = conn.buffer
      OBVIOUS
    <3>2. before \in Seq(Bytes) /\ plain \in Seq(Bytes)
      BY <1>7, <2>1, <3>1
    <3>3. /\ before \o plain \in Seq(Bytes) /\ Len(before \o plain) = Len(before) + Len(plain)
          /\ \A i \in 1 .. Len(before) : (before \o plain)[i] = before[i]
          /\ \A i \in 1 .. Len(plain) : (before \o plain)[Len(before) + i] = plain[i]
      BY <3>2, Joined
    <3> QED BY <1>9, <3>1, <3>3, Zenon
  <2> QED BY <1>7, <2>2
<1>11. PICK key : key = IF conn.decryptor = 0 THEN 0 ELSE conn.decryptor + n
  OBVIOUS
<1>12. key \in Nat
  BY <1>1, <1>11
<1>13. conn' = [conn EXCEPT !.buffer = buffer, !.decryptor = key]
  BY <1>8, <1>9, <1>11
<1>14. /\ conn' \in [buffer : Seq(Bytes), decryptor : Nat, encryptor : BOOLEAN, threshold : {0, Threshold}]
       /\ conn'.buffer = buffer /\ conn'.decryptor = key
       /\ conn'.encryptor = conn.encryptor /\ conn'.threshold = conn.threshold
  BY <1>1, <1>10, <1>12, <1>13
<1>15. /\ wire' \in Seq((0 .. MaxSent) \X (0 .. 4) \X Nat) /\ Len(wire') = Len(wire) - n
       /\ \A i \in 1 .. Len(wire) - n : wire'[i] = wire[i + n]
  <2>1. wire' = SubSeq(wire, n + 1, Len(wire))
    BY DEF Receives
  <2>2. n \in 0 .. Len(wire)
    BY <1>1
  <2> QED BY <1>1, <2>1, <2>2, Dropped
<1>16. \A i \in 1 .. Len(conn.buffer) : conn'.buffer[i] = conn.buffer[i]
  BY <1>10, <1>14
<1>17. \A i \in 1 .. n : conn'.buffer[Len(conn.buffer) + i] =
                IF wire[i][3] = (IF conn.decryptor = 0 THEN 0 ELSE conn.decryptor + i - 1)
                THEN <<wire[i][1], wire[i][2]>> ELSE Noise
  BY <1>5, <1>10, <1>14
<1> QED BY <1>1, <1>10, <1>11, <1>14, <1>15, <1>16, <1>17

-----------------------------------------------------------------------------
(* The kinds of steps.                                                     *)

WireType == Seq((0 .. MaxSent) \X (0 .. 4) \X Nat)

\* The task ends between two frames.
BadFrame ==
    LET n == NextFrame(conn, sent) IN
        \/ n = Malformed
        \/ n \notin {NeedMore, Malformed} /\ ~BodyDecodes(conn, sent[n])
Overflow ==
    /\ NextFrame(conn, sent) = NeedMore
    /\ \E n \in 1 .. ReadSize : n <= Len(wire) /\ ~FitsBuffer(conn, SubSeq(wire, 1, n))
Quits(reason) ==
    /\ Running /\ reason \in Outcomes \ {"running"}
    /\ client' = [client EXCEPT !.outcome = reason]
    /\ UNCHANGED <<conn, outbox, sent, server>> /\ wire' \in WireType
    /\ reason = "framing" => client.state # "Handshake" /\ (BadFrame \/ Overflow)

\* The connection is made and the first two packets are written.
Connects ==
    /\ Running /\ client.state = "Handshake"
    /\ \E second \in {"status_request", "login_start"} :
        /\ Write(<<"handshake", second>>)
        /\ client' = [client EXCEPT !.state = IF second = "status_request" THEN "Status" ELSE "Login"]
        /\ client.kind = "status" <=> second = "status_request"
    /\ UNCHANGED <<conn, wire, sent, server>>

\* The session task waits for a frame or serves something else.
Waits(waiting) ==
    /\ Running /\ waiting \in BOOLEAN /\ client' = [client EXCEPT !.waiting = waiting]
    /\ UNCHANGED <<conn, wire, outbox, sent, server>>

LEMMA NextSteps ==
    ASSUME LoginType, Next
    PROVE  \/ \E reason : Quits(reason)
           \/ Connects
           \/ \E waiting : Waits(waiting)
           \/ \E n : Receives(n)
           \/ \E n \in DOMAIN sent : NextFrame(conn, sent) = n /\ Handler(n)
           \/ \E frame : Sends(frame)
           \/ ServerCloses
           \/ Reads(outbox[1])
           \/ UNCHANGED vars
<1>1. wire \in WireType /\ client.kind \in Kinds
  BY DEF LoginType, WireType
<1>2. CASE ConnectFails
  <2>1. Quits("connect_failed")
    BY <1>1, <1>2 DEF ConnectFails, End, Quits, Outcomes
  <2> QED BY <2>1
<1>3. CASE ConnectStatus
  <2>1. Connects
    BY <1>3 DEF ConnectStatus, Connected, Connects
  <2> QED BY <2>1
<1>4. CASE ConnectOffline
  <2>1. Connects
    BY <1>4 DEF ConnectOffline, Connected, Connects
  <2> QED BY <2>1
<1>5. CASE ConnectOnline
  <2>1. Connects
    BY <1>5 DEF ConnectOnline, Connected, Connects
  <2> QED BY <2>1
<1>6. CASE ReadSome
  <2>1. /\ Reading /\ NextFrame(conn, sent) = NeedMore /\ UNCHANGED <<outbox, sent, server>>
        /\ Running /\ client.state # "Handshake"
    BY <1>6 DEF ReadSome, Reading
  <2>2. ASSUME NEW n \in 1 .. ReadSize, n <= Len(wire), wire' = SubSeq(wire, n + 1, Len(wire)),
               FitsBuffer(conn, SubSeq(wire, 1, n)),
               conn' = Received(conn, SubSeq(wire, 1, n)), UNCHANGED client
        PROVE  \E m : Receives(m)
    <3>1. Receives(n)
      BY <2>1, <2>2 DEF Receives
    <3> QED BY <3>1
  <2>3. ASSUME NEW n \in 1 .. ReadSize, n <= Len(wire), wire' = SubSeq(wire, n + 1, Len(wire)),
               ~FitsBuffer(conn, SubSeq(wire, 1, n)),
               client' = [client EXCEPT !.outcome = "framing"], UNCHANGED conn
        PROVE  \E reason : Quits(reason)
    <3>1. n \in 0 .. Len(wire)
      BY <2>3, TransportAssumption
    <3>2. wire' \in WireType
      BY <1>1, <2>3, <3>1, Dropped DEF WireType
    <3>3. Overflow
      BY <2>1, <2>3 DEF Overflow
    <3>4. Quits("framing")
      BY <2>1, <2>3, <3>2, <3>3 DEF Quits, Outcomes
    <3> QED BY <3>4
  <2>4. ASSUME client' = [client EXCEPT !.outcome = "premature_disconnect"], UNCHANGED <<conn, wire>>
        PROVE  \E reason : Quits(reason)
    <3>1. Quits("premature_disconnect")
      BY <1>1, <2>1, <2>4 DEF Quits, Outcomes
    <3> QED BY <3>1
  <2> QED BY <1>6, <2>2, <2>3, <2>4, Zenon DEF ReadSome
<1>7. CASE RejectFrame
  <2>1. BadFrame
    <3>1. \/ NextFrame(conn, sent) = Malformed
          \/ /\ NextFrame(conn, sent) \notin {NeedMore, Malformed}
             /\ ~BodyDecodes(conn, sent[NextFrame(conn, sent)])
      BY <1>7, Zenon DEF RejectFrame
    <3> QED BY <3>1, Zenon DEF BadFrame
  <2>2. Quits("framing")
    BY <1>1, <1>7, <2>1 DEF RejectFrame, Quits, Outcomes, Reading
  <2> QED BY <2>2
<1>8. CASE LimitReached
  <2>1. Quits("packet_limit")
    BY <1>1, <1>8 DEF LimitReached, Quits, Outcomes
  <2> QED BY <2>1
<1>9. CASE Timeout
  <2>1. Quits("timeout")
    BY <1>1, <1>9 DEF Timeout, Quits, Outcomes, Reading
  <2> QED BY <2>1
<1>10. CASE SessionServesOther
  <2>1. Waits(FALSE)
    BY <1>10 DEF SessionServesOther, Waits, Reading
  <2> QED BY <2>1
<1>11. CASE SessionReadsAgain
  <2>1. Waits(TRUE)
    BY <1>11 DEF SessionReadsAgain, Waits, Reading
  <2> QED BY <2>1
<1>12. CASE \E n \in {m \in DOMAIN sent : NextFrame(conn, sent) = m} :
              \/ HandleStatus(n) \/ HandleOfflineLogin(n) \/ HandleOnlineLogin(n)
              \/ HandleConfiguration(n) \/ HandleAcceptance(n) \/ HandleSession(n)
  BY <1>12 DEF Handler
<1>13. CASE ServerSend \/ ServerErrs
  BY <1>13, ServerSends
<1>14. CASE ServerRead
  BY <1>14, ServerReads
<1>15. CASE Finished
  BY <1>15 DEF Finished
<1> QED BY <1>2, <1>3, <1>4, <1>5, <1>6, <1>7, <1>8, <1>9, <1>10, <1>11, <1>12, <1>13, <1>14, <1>15
        DEF Next, ClientStep

\* A write of the first two packets.
LEMMA ConnectsType ==
    ASSUME LoginType, Connects
    PROVE  \E second \in {"status_request", "login_start"} :
              /\ <<"handshake", second>> \in Seq(Written)
              /\ Write(<<"handshake", second>>)
              /\ client'.state = (IF second = "status_request" THEN "Status" ELSE "Login")
              /\ client' \in ClientRecord /\ client'.kind = client.kind
              /\ client'.outcome = client.outcome /\ client'.log = client.log
              /\ client'.registries = client.registries /\ client'.phase = client.phase
              /\ client.kind = "status" <=> second = "status_request"
<1>1. PICK second \in {"status_request", "login_start"} :
        /\ Write(<<"handshake", second>>)
        /\ client' = [client EXCEPT !.state = IF second = "status_request" THEN "Status" ELSE "Login"]
        /\ client.kind = "status" <=> second = "status_request"
  BY DEF Connects
<1>2. client \in ClientRecord
  BY DEF LoginType, ClientRecord
<1>3. PICK state : state = IF second = "status_request" THEN "Status" ELSE "Login"
  OBVIOUS
<1>4. state \in States
  BY <1>3 DEF States
<1>5. client' = [client EXCEPT !.state = state]
  BY <1>1, <1>3
<1>6. /\ client'.state = state /\ client' \in ClientRecord /\ client'.kind = client.kind
      /\ client'.outcome = client.outcome /\ client'.log = client.log
      /\ client'.registries = client.registries /\ client'.phase = client.phase
  BY <1>2, <1>4, <1>5 DEF ClientRecord
<1>7. <<"handshake", second>> \in Seq(Written)
  <2>1. "handshake" \in Written /\ second \in Written
    BY DEF Written, Opening
  <2> QED BY <2>1
<1> QED BY <1>1, <1>3, <1>6, <1>7

\* After a frame the connection is still of its type.
LEMMA HandlesConn ==
    ASSUME LoginType, NEW n \in DOMAIN sent, NextFrame(conn, sent) = n,
           conn' \in {Consumed(conn, sent[n]), EnableEncryption(Consumed(conn, sent[n])),
                      EnableCompression(Consumed(conn, sent[n]))}
    PROVE  /\ conn' \in [buffer : Seq(Bytes), decryptor : Nat, encryptor : BOOLEAN,
                         threshold : {0, Threshold}]
           /\ conn'.buffer = Consumed(conn, sent[n]).buffer
           /\ conn' = Consumed(conn, sent[n]) =>
                conn'.decryptor = conn.decryptor /\ conn'.encryptor = conn.encryptor
                /\ conn'.threshold = conn.threshold
           /\ conn' = EnableEncryption(Consumed(conn, sent[n])) =>
                conn'.decryptor = 1 /\ conn'.encryptor = TRUE /\ conn'.threshold = conn.threshold
           /\ conn' = EnableCompression(Consumed(conn, sent[n])) =>
                conn'.decryptor = conn.decryptor /\ conn'.encryptor = conn.encryptor
                /\ conn'.threshold = Threshold
<1>1. conn \in [buffer : Seq(Bytes), decryptor : Nat, encryptor : BOOLEAN, threshold : {0, Threshold}]
  BY DEF LoginType
<1>2. PICK buffer : buffer = Consumed(conn, sent[n]).buffer
  OBVIOUS
<1>3. PICK next : next = Consumed(conn, sent[n])
  OBVIOUS
<1>4. buffer \in Seq(Bytes) /\ next = [conn EXCEPT !.buffer = buffer]
  BY <1>2, <1>3, ConsumedType
<1>5. /\ next \in [buffer : Seq(Bytes), decryptor : Nat, encryptor : BOOLEAN, threshold : {0, Threshold}]
      /\ next.buffer = buffer /\ next.decryptor = conn.decryptor
      /\ next.encryptor = conn.encryptor /\ next.threshold = conn.threshold
  BY <1>1, <1>4
<1>6. conn' \in {next, EnableEncryption(next), EnableCompression(next)}
  BY <1>3
<1>7. CASE conn' = next
  BY <1>2, <1>3, <1>5, <1>7 DEF EnableEncryption, EnableCompression
<1>8. CASE conn' = EnableEncryption(next)
  BY <1>2, <1>3, <1>5, <1>8 DEF EnableEncryption, EnableCompression
<1>9. CASE conn' = EnableCompression(next)
  BY <1>2, <1>3, <1>5, <1>9 DEF EnableEncryption, EnableCompression
<1> QED BY <1>6, <1>7, <1>8, <1>9

\* The bytes of a frame under the cipher.
LEMMA EncipheredType ==
    ASSUME NEW frame \in Frame, NEW n \in 0 .. MaxSent, NEW key \in Nat
    PROVE  /\ Enciphered(n, frame, key) \in WireType
           /\ Len(Enciphered(n, frame, key)) = FrameBytes(frame)
           /\ FrameBytes(frame) \in {2, 4}
           /\ \A i \in 1 .. FrameBytes(frame) :
                Enciphered(n, frame, key)[i] = <<n, i, IF key = 0 THEN 0 ELSE key + i - 1>>
<1>1. frame.size \in {1, 2}
  BY DEF Frame
<1>2. FrameBytes(frame) \in {2, 4}
  BY <1>1 DEF FrameBytes, PrefixBytes
<1>3. PICK length : length = FrameBytes(frame)
  OBVIOUS
<1>4. PICK bytes : bytes = Enciphered(n, frame, key)
  OBVIOUS
<1>5. bytes = [i \in 1 .. length |-> <<n, i, IF key = 0 THEN 0 ELSE key + i - 1>>]
  BY <1>3, <1>4 DEF Enciphered
<1>6. \A i \in 1 .. length : bytes[i] \in (0 .. MaxSent) \X (0 .. 4) \X Nat
  <2> TAKE i \in 1 .. length
  <2>1. i \in 0 .. 4 /\ i \in 1 .. 4
    BY <1>2, <1>3
  <2>2. (IF key = 0 THEN 0 ELSE key + i - 1) \in Nat
    BY <2>1
  <2> QED BY <1>5, <2>1, <2>2
<1>7. bytes \in WireType /\ Len(bytes) = length
  <2>1. bytes \in [1 .. length -> (0 .. MaxSent) \X (0 .. 4) \X Nat] /\ length \in Nat
    BY <1>2, <1>3, <1>5, <1>6
  <2> QED BY <2>1 DEF WireType
<1> QED BY <1>2, <1>3, <1>4, <1>5, <1>7

-----------------------------------------------------------------------------
(* Types are inductive.                                                    *)

ConnRecord == [buffer : Seq(Bytes), decryptor : Nat, encryptor : BOOLEAN, threshold : {0, Threshold}]

LEMMA TypeParts ==
    LoginType <=>
        /\ conn \in ConnRecord /\ client \in ClientRecord /\ wire \in WireType
        /\ outbox \in Seq(OutPacket) /\ sent \in Seq(Frame) /\ Len(sent) <= MaxSent
        /\ server \in ServerRecord
BY DEF LoginType, ConnRecord, ClientRecord, WireType, OutPacket, ServerRecord

LEMMA TypePartsNext ==
    LoginType' <=>
        /\ conn' \in ConnRecord /\ client' \in ClientRecord /\ wire' \in WireType
        /\ outbox' \in Seq(OutPacket) /\ sent' \in Seq(Frame) /\ Len(sent') <= MaxSent
        /\ server' \in ServerRecord
BY DEF LoginType, ConnRecord, ClientRecord, WireType, OutPacket, ServerRecord

LEMMA InitType == Init => LoginType
<1> SUFFICES ASSUME Init PROVE LoginType
  OBVIOUS
<1>1. MaxSent \in Nat /\ MaxReconfigurations \in Nat /\ Threshold \in Nat
  BY LoginAssumption, TransportAssumption
<1>2. conn \in ConnRecord
  BY DEF Init, NewConnection, ConnRecord
<1>3. PICK kind \in Kinds :
        client = [kind |-> kind, state |-> "Handshake", count |-> 0, rounds |-> 0,
                  phase |-> [r \in Registries |-> 0], registries |-> [r \in Registries |-> 0],
                  loaded |-> FALSE, waiting |-> FALSE, outcome |-> "running", log |-> <<>>]
  BY DEF Init
<1>4. client \in ClientRecord
  <2>1. PICK none : none = [r \in Registries |-> 0]
    OBVIOUS
  <2>2. none \in [Registries -> 0 .. MaxSent]
    BY <1>1, <2>1
  <2>3. client = [kind |-> kind, state |-> "Handshake", count |-> 0, rounds |-> 0,
                  phase |-> none, registries |-> none,
                  loaded |-> FALSE, waiting |-> FALSE, outcome |-> "running", log |-> <<>>]
    BY <1>3, <2>1
  <2>4. "Handshake" \in States /\ "running" \in Outcomes /\ 0 \in Nat
        /\ 0 \in 0 .. MaxReconfigurations /\ <<>> \in Seq((0 .. MaxSent) \X States)
    BY <1>1 DEF States, Outcomes
  <2> QED BY <2>2, <2>3, <2>4 DEF ClientRecord
<1>5. wire \in WireType /\ outbox \in Seq(OutPacket) /\ sent \in Seq(Frame) /\ Len(sent) <= MaxSent
  BY <1>1 DEF Init, WireType
<1>6. server \in ServerRecord
  BY DEF Init, ServerRecord, Phases
<1> QED BY <1>2, <1>4, <1>5, <1>6, TypeParts

LEMMA TypeStep == LoginType /\ [Next]_vars => LoginType'
<1> SUFFICES ASSUME LoginType, [Next]_vars PROVE LoginType'
  OBVIOUS
<1>1. /\ conn \in ConnRecord /\ client \in ClientRecord /\ wire \in WireType
      /\ outbox \in Seq(OutPacket) /\ sent \in Seq(Frame) /\ Len(sent) <= MaxSent
      /\ server \in ServerRecord /\ MaxSent \in Nat
  BY TypeParts, LoginAssumption
<1>2. ASSUME NEW reason, Quits(reason) PROVE LoginType'
  <2>1. client' \in ClientRecord
    BY <1>1, <1>2 DEF Quits, ClientRecord
  <2> QED BY <1>1, <1>2, <2>1, TypePartsNext DEF Quits
<1>3. CASE Connects
  <2>1. client' \in ClientRecord
    BY <1>3, ConnectsType
  <2>2. outbox' \in Seq(OutPacket)
    BY <1>3, ConnectsType, WriteType
  <2> QED BY <1>1, <1>3, <2>1, <2>2, TypePartsNext DEF Connects
<1>4. ASSUME NEW waiting, Waits(waiting) PROVE LoginType'
  <2>1. client' \in ClientRecord
    BY <1>1, <1>4 DEF Waits, ClientRecord
  <2> QED BY <1>1, <1>4, <2>1, TypePartsNext DEF Waits
<1>5. ASSUME NEW n, Receives(n) PROVE LoginType'
  <2>1. conn' \in ConnRecord /\ wire' \in WireType
    BY <1>5, ReceivedType DEF ConnRecord, WireType
  <2> QED BY <1>1, <1>5, <2>1, TypePartsNext DEF Receives
<1>6. ASSUME NEW n \in DOMAIN sent, NextFrame(conn, sent) = n, Handler(n) PROVE LoginType'
  <2>1. PICK packets : Handles(n, packets)
    BY <1>6, HandlersDescribed DEF Described
  <2>2. client' \in ClientRecord /\ UNCHANGED <<wire, sent, server>>
    BY <2>1 DEF Handles
  <2>3. outbox' \in Seq(OutPacket)
    BY <2>1, WriteType DEF Handles
  <2>4. conn' \in ConnRecord
    BY <1>6, <2>1, HandlesConn DEF Handles, ConnRecord
  <2> QED BY <1>1, <2>2, <2>3, <2>4, TypePartsNext
<1>7. ASSUME NEW frame, Sends(frame) PROVE LoginType'
  <2>1. /\ frame \in Frame /\ sent' = Append(sent, frame) /\ Len(sent) < MaxSent
        /\ wire' = wire \o Enciphered(Len(sent) + 1, frame, server.key)
        /\ UNCHANGED <<conn, client, outbox>> /\ server' \in ServerRecord
    BY <1>7 DEF Sends
  <2>2. sent' \in Seq(Frame) /\ Len(sent') <= MaxSent
    BY <1>1, <2>1
  <2>3. Len(sent) + 1 \in 0 .. MaxSent /\ server.key \in Nat
    BY <1>1, <2>1 DEF ServerRecord
  <2>4. Enciphered(Len(sent) + 1, frame, server.key) \in WireType
    BY <2>1, <2>3, EncipheredType
  <2>5. wire' \in WireType
    BY <1>1, <2>1, <2>4, Joined DEF WireType
  <2> QED BY <1>1, <2>1, <2>2, <2>5, TypePartsNext
<1>8. CASE ServerCloses
  <2>1. server' \in ServerRecord
    BY <1>1, <1>8 DEF ServerCloses, ServerRecord, Phases
  <2> QED BY <1>1, <1>8, <2>1, TypePartsNext DEF ServerCloses
<1>9. CASE Reads(outbox[1])
  BY <1>1, <1>9, TypePartsNext DEF Reads
<1>10. CASE UNCHANGED vars
  BY <1>1, <1>10, TypePartsNext DEF vars
<1> QED BY <1>2, <1>3, <1>4, <1>5, <1>6, <1>7, <1>8, <1>9, <1>10, NextSteps

-----------------------------------------------------------------------------
(* The stream of frames.                                                   *)

\* The next frame begins the stream: its bytes are all there, in their order.
LEMMA FrameAhead ==
    ASSUME LoginType, StreamSound, Streamed > 0
    PROVE  /\ Handled + 1 \in 1 .. Last
           /\ FrameBytes(sent[Handled + 1]) \in {2, 4}
           /\ Streamed >= FrameBytes(sent[Handled + 1])
           /\ \A i \in 1 .. FrameBytes(sent[Handled + 1]) : ByteAt(i) = <<Handled + 1, i>>
           /\ Streamed = FrameBytes(sent[Handled + 1]) <=> Handled + 1 = Last
<1> DEFINE n == Handled + 1
           size == FrameBytes(sent[n])
<1>1. /\ Handled \in Nat /\ Last \in Nat /\ Streamed \in Nat /\ Handled <= Last
      /\ ByteAt(1) = <<n, 1>> /\ ByteAt(Streamed) = <<Last, FrameBytes(sent[Last])>>
      /\ Handled # Last
  BY DEF LoginType, StreamSound, Streamed, Handled, Last
<1>2. n \in 1 .. Last
  BY <1>1
<1>3. size \in {2, 4}
  <2>1. sent[n].size \in {1, 2}
    <3>1. sent \in Seq(Frame)
      BY DEF LoginType
    <3>2. sent[n] \in Frame
      BY <1>2, <3>1 DEF Last
    <3> QED BY <3>2 DEF Frame
  <2> QED BY <2>1 DEF FrameBytes, PrefixBytes
<1>4. ASSUME NEW i \in 1 .. 3, i < Streamed, i < size, ByteAt(i) = <<n, i>>
      PROVE  ByteAt(i + 1) = <<n, i + 1>>
  <2>1. ByteAt(i + 1) = Follower(ByteAt(i))
    BY <1>1, <1>4 DEF StreamSound
  <2> QED BY <1>4, <2>1 DEF Follower
<1>5. ASSUME NEW i \in 1 .. 3, i < size, ByteAt(i) = <<n, i>>, i <= Streamed
      PROVE  i < Streamed
  <2> SUFFICES ASSUME i = Streamed PROVE FALSE
    BY <1>1, <1>5
  <2>1. n = Last /\ i = FrameBytes(sent[Last])
    BY <1>1, <1>5
  <2> QED BY <1>5, <2>1
<1>6. 1 < Streamed /\ ByteAt(2) = <<n, 2>>
  BY <1>1, <1>3, <1>4, <1>5
<1>7. size = 4 => /\ 3 < Streamed /\ ByteAt(3) = <<n, 3>> /\ ByteAt(4) = <<n, 4>>
  <2> SUFFICES ASSUME size = 4 PROVE 3 < Streamed /\ ByteAt(3) = <<n, 3>> /\ ByteAt(4) = <<n, 4>>
    OBVIOUS
  <2>1. 2 < Streamed /\ ByteAt(3) = <<n, 3>>
    BY <1>1, <1>4, <1>5, <1>6
  <2>2. 3 < Streamed /\ ByteAt(4) = <<n, 4>>
    BY <1>1, <1>4, <1>5, <2>1
  <2> QED BY <2>1, <2>2
<1>8. Streamed >= size /\ \A i \in 1 .. size : ByteAt(i) = <<n, i>>
  <2>1. CASE size = 2
    BY <1>1, <1>6, <2>1
  <2>2. CASE size = 4
    BY <1>1, <1>6, <1>7, <2>2
  <2> QED BY <1>3, <2>1, <2>2
<1>9. ByteAt(size) = <<n, size>>
  BY <1>3, <1>8
<1>10. Streamed = size => n = Last
  BY <1>1, <1>9
<1>11. n = Last => Streamed = size
  <2> SUFFICES ASSUME n = Last, Streamed > size PROVE FALSE
    BY <1>1, <1>3, <1>8
  <2>1. ByteAt(size + 1) = Follower(ByteAt(size)) /\ size + 1 \in 1 .. Streamed
    BY <1>1, <1>3 DEF StreamSound
  <2>2. ByteAt(size + 1) = <<n + 1, 1>>
    BY <1>1, <1>3, <1>9, <2>1 DEF Follower
  <2>3. ByteAt(size + 1)[1] \in Handled + 1 .. Last
    BY <2>1 DEF StreamSound
  <2> QED BY <1>1, <2>2, <2>3
<1> QED BY <1>2, <1>3, <1>8, <1>10, <1>11

\* What the decoder reports: the frame whose turn it is, or a bad length the server sent.
LEMMA NextFrameSound ==
    ASSUME LoginType, StreamSound
    PROVE  /\ NextFrame(conn, sent) \in {NeedMore, Malformed, Handled + 1}
           /\ NextFrame(conn, sent) # NeedMore => Handled + 1 \in 1 .. Last
           /\ NextFrame(conn, sent) = NeedMore => Len(conn.buffer) <= 3
           /\ NextFrame(conn, sent) = Malformed => sent[Handled + 1].format = "bad_length"
<1>1. conn.buffer \in Seq(Bytes) /\ Len(conn.buffer) \in Nat /\ Handled \in Nat
      /\ Len(wire) \in Nat
  BY DEF LoginType, Handled
<1>2. CASE conn.buffer = <<>>
  <2>1. NextFrame(conn, sent) = NeedMore /\ Len(conn.buffer) = 0
    BY <1>2 DEF NextFrame
  <2> QED BY <2>1 DEF NeedMore, Malformed
<1>3. CASE conn.buffer # <<>>
  <2>1. Streamed > 0 /\ Len(conn.buffer) > 0
    BY <1>1, <1>3 DEF Streamed
  <2> DEFINE n == Handled + 1
             size == FrameBytes(sent[n])
  <2>2. /\ n \in 1 .. Last /\ size \in {2, 4}
        /\ \A i \in 1 .. size : ByteAt(i) = <<n, i>>
    BY <2>1, FrameAhead
  <2>3. \A i \in 1 .. size : i <= Len(conn.buffer) => conn.buffer[i] = <<n, i>>
    BY <1>1, <2>2 DEF ByteAt
  <2>4. conn.buffer[1] = <<n, 1>> /\ conn.buffer[1][1] = n /\ conn.buffer[1] # Noise
    BY <1>1, <2>1, <2>2, <2>3 DEF Noise
  <2>5. PrefixBytes(sent[n]) \in {1, 2} /\ PrefixBytes(sent[n]) <= size
    <3>1. sent \in Seq(Frame)
      BY DEF LoginType
    <3>2. sent[n] \in Frame
      BY <2>2, <3>1 DEF Last
    <3>3. sent[n].size \in {1, 2}
      BY <3>2 DEF Frame
    <3> QED BY <3>3 DEF PrefixBytes, FrameBytes
  <2>6. NextFrame(conn, sent) =
             IF Len(conn.buffer) < PrefixBytes(sent[n]) THEN NeedMore
             ELSE IF sent[n].format = "bad_length"
                     \/ ~(\A i \in 1 .. PrefixBytes(sent[n]) : conn.buffer[i] = <<n, i>>)
                  THEN Malformed
             ELSE IF ~Complete(conn, sent[n]) THEN NeedMore
             ELSE IF \A i \in 1 .. size : conn.buffer[i] = <<n, i>> THEN n ELSE Malformed
    BY <1>3, <2>4, Zenon DEF NextFrame
  <2>7. CASE Len(conn.buffer) < PrefixBytes(sent[n])
    <3>1. NextFrame(conn, sent) = NeedMore
      BY <2>6, <2>7
    <3> QED BY <1>1, <2>2, <2>5, <2>7, <3>1 DEF NeedMore, Malformed
  <2>8. CASE Len(conn.buffer) >= PrefixBytes(sent[n])
    <3>1. \A i \in 1 .. PrefixBytes(sent[n]) : conn.buffer[i] = <<n, i>>
      BY <1>1, <2>2, <2>3, <2>5, <2>8
    <3>2. CASE sent[n].format = "bad_length"
      <4>1. NextFrame(conn, sent) = Malformed
        BY <1>1, <2>5, <2>6, <2>8, <3>2
      <4> QED BY <2>2, <3>2, <4>1 DEF Malformed, NeedMore
    <3>3. CASE sent[n].format # "bad_length" /\ Len(conn.buffer) < size
      <4>1. ~Complete(conn, sent[n])
        BY <1>1, <2>2, <3>3 DEF Complete
      <4>2. NextFrame(conn, sent) = NeedMore
        BY <1>1, <2>5, <2>6, <2>8, <3>1, <3>3, <4>1
      <4> QED BY <1>1, <2>2, <3>3, <4>2 DEF NeedMore, Malformed
    <3>4. CASE sent[n].format # "bad_length" /\ Len(conn.buffer) >= size
      <4>1. Complete(conn, sent[n])
        BY <3>4 DEF Complete
      <4>2. \A i \in 1 .. size : conn.buffer[i] = <<n, i>>
        BY <1>1, <2>2, <2>3, <3>4
      <4>3. NextFrame(conn, sent) = n
        BY <1>1, <2>5, <2>6, <2>8, <3>1, <3>4, <4>1, <4>2
      <4> QED BY <1>1, <2>2, <4>3 DEF NeedMore, Malformed
    <3> QED BY <1>1, <2>2, <3>2, <3>3, <3>4
  <2> QED BY <1>1, <2>5, <2>7, <2>8
<1> QED BY <1>2, <1>3

\* No read overflows the buffer.
LEMMA NoOverflow == LoginType /\ StreamSound => ~Overflow
<1> SUFFICES ASSUME LoginType, StreamSound, Overflow PROVE FALSE
  OBVIOUS
<1>1. NextFrame(conn, sent) = NeedMore
  BY DEF Overflow
<1>2. PICK n \in 1 .. ReadSize : n <= Len(wire) /\ ~FitsBuffer(conn, SubSeq(wire, 1, n))
  BY DEF Overflow
<1>3. Len(conn.buffer) <= 3 /\ Len(conn.buffer) \in Nat
  BY <1>1, NextFrameSound DEF LoginType
<1>4. n \in Nat /\ n <= ReadSize /\ ReadSize \in Nat /\ MaxBuffered \in Nat
      /\ MaxBuffered >= 3 + ReadSize
  BY <1>2, TransportAssumption
<1>5. Len(SubSeq(wire, 1, n)) = n
  BY <1>2, <1>4 DEF LoginType
<1> QED BY <1>2, <1>3, <1>4, <1>5 DEF FitsBuffer

\* Under the invariant the client reports a malformed frame only if the server sent one.
LEMMA NoBadFrame ==
    ASSUME LoginType, StreamSound, ZipSound, BadFrame
    PROVE  server.faulty
<1> SUFFICES ASSUME ~server.faulty PROVE FALSE
  OBVIOUS
<1> DEFINE n == Handled + 1
<1>1. n \in 1 .. Last /\ n \in DOMAIN sent
      /\ \/ sent[n].format = "bad_length"
         \/ ~BodyDecodes(conn, sent[n])
  <2>1. CASE NextFrame(conn, sent) = Malformed
    BY <2>1, NextFrameSound DEF Malformed, NeedMore, Last, LoginType
  <2>2. CASE /\ NextFrame(conn, sent) \notin {NeedMore, Malformed}
             /\ ~BodyDecodes(conn, sent[NextFrame(conn, sent)])
    <3>1. NextFrame(conn, sent) = n /\ n \in 1 .. Last
      BY <2>2, NextFrameSound
    <3> QED BY <2>2, <3>1 DEF Last, LoginType
  <2> QED BY <2>1, <2>2, Zenon DEF BadFrame
<1>2. Handled \in Nat /\ sent[n] \in Frame /\ sent[n].size \in {1, 2} /\ Threshold \in Nat /\ Threshold # 0
  <2>1. sent \in Seq(Frame) /\ client.log \in Seq((0 .. MaxSent) \X States)
    BY DEF LoginType
  <2>2. sent[n] \in Frame
    BY <1>1, <2>1
  <2> QED BY <2>1, <2>2, TransportAssumption DEF Frame, Handled
<1>3. PICK zipped \in BOOLEAN : zipped <=> \E c \in 1 .. Handled : Sent(c, "set_compression")
  OBVIOUS
<1>4. sent[n].format = Format(zipped, sent[n].size)
  <2>1. sent[n].format = Format(\E c \in 1 .. n - 1 : Sent(c, "set_compression"), sent[n].size)
    BY <1>1 DEF ZipSound
  <2>2. n - 1 = Handled
    BY <1>2
  <2>3. zipped = \E c \in 1 .. n - 1 : Sent(c, "set_compression")
    BY <1>3, <2>2
  <2> QED BY <2>1, <2>3
<1>5. conn.threshold = IF zipped THEN Threshold ELSE 0
  BY <1>3 DEF ZipSound
<1>6. CASE zipped
  BY <1>1, <1>2, <1>4, <1>5, <1>6 DEF Format, BodyDecodes
<1>7. CASE ~zipped
  BY <1>1, <1>2, <1>4, <1>5, <1>7 DEF Format, BodyDecodes
<1> QED BY <1>6, <1>7

\* The stream after a frame is handled.
LEMMA HandleStream ==
    ASSUME LoginType, StreamSound, NEW n \in DOMAIN sent, NextFrame(conn, sent) = n,
           NEW packets, Handles(n, packets)
    PROVE  /\ StreamSound' /\ n = Handled + 1 /\ Handled' = n /\ Last' = Last
           /\ \A i \in 1 .. Handled : client'.log[i] = client.log[i]
           /\ client'.log[n] = <<n, client.state>>
<1> DEFINE size == FrameBytes(sent[n])
<1>1. n = Handled + 1 /\ n \in 1 .. Last /\ Handled \in Nat /\ Last \in Nat
  <2>1. n \in 1 .. Last /\ n \in Nat /\ Handled \in Nat /\ Last \in Nat
    BY DEF LoginType, Handled, Last
  <2> QED BY <2>1, NextFrameSound DEF NeedMore, Malformed
<1>2. Handled' = n /\ Last' = Last /\ sent' = sent /\ wire' = wire
      /\ client'.log = Append(client.log, <<n, client.state>>)
  BY <1>1 DEF Handles, Handled, Last, LoginType
<1>3. /\ Len(conn'.buffer) = Len(conn.buffer) - size /\ Len(conn.buffer) >= size
      /\ \A p \in 1 .. Len(conn.buffer) - size : conn'.buffer[p] = conn.buffer[p + size]
  BY ConsumedType, HandlesConn DEF Handles
<1>4. Len(conn.buffer) \in Nat /\ Len(wire) \in Nat
  BY DEF LoginType
<1>5. /\ size \in {2, 4} /\ Streamed >= size /\ (Streamed = size <=> n = Last)
      /\ \A i \in 1 .. size : ByteAt(i) = <<n, i>>
  <2>1. Streamed > 0
    BY <1>1 DEF StreamSound, Streamed
  <2> QED BY <1>1, <2>1, FrameAhead
<1> HIDE DEF size
<1>6. Streamed' = Streamed - size /\ Streamed \in Nat /\ Streamed' \in Nat
  BY <1>2, <1>3, <1>4, <1>5 DEF Streamed
<1>7. ASSUME NEW p \in 1 .. Streamed - size PROVE ByteAt(p)' = ByteAt(p + size)
  <2>1. CASE p <= Len(conn.buffer) - size
    BY <1>2, <1>3, <1>4, <1>5, <1>6, <2>1 DEF ByteAt
  <2>2. CASE p > Len(conn.buffer) - size
    <3>1. p - Len(conn'.buffer) = p + size - Len(conn.buffer)
      BY <1>3, <1>4, <1>5, <1>6
    <3> QED BY <1>2, <1>3, <1>4, <1>5, <1>6, <2>2, <3>1 DEF ByteAt
  <2> QED BY <1>4, <1>5, <1>6, <2>1, <2>2
<1>8. ASSUME NEW p \in 1 .. Streamed'
      PROVE  /\ ByteAt(p)'[1] \in Handled' + 1 .. Last'
             /\ ByteAt(p)'[2] \in 1 .. FrameBytes(sent[ByteAt(p)[1]])'
             /\ p < Streamed' => ByteAt(p + 1)' = Follower(ByteAt(p))'
  <2>1. p + size \in 1 .. Streamed /\ p \in 1 .. Streamed - size
    BY <1>5, <1>6
  <2>2. /\ ByteAt(p + size)[1] \in Handled + 1 .. Last
        /\ ByteAt(p + size)[2] \in 1 .. FrameBytes(sent[ByteAt(p + size)[1]])
        /\ p + size < Streamed => ByteAt(p + size + 1) = Follower(ByteAt(p + size))
    BY <2>1 DEF StreamSound
  <2>3. p < Streamed' => ByteAt(p + 1)' = ByteAt(p + size + 1) /\ p + size < Streamed
    <3> SUFFICES ASSUME p < Streamed' PROVE ByteAt(p + 1)' = ByteAt(p + size + 1) /\ p + size < Streamed
      OBVIOUS
    <3>1. p + 1 \in 1 .. Streamed - size /\ p + size < Streamed /\ p + 1 + size = p + size + 1
      BY <1>5, <1>6
    <3> QED BY <1>7, <3>1
  <2>4. ByteAt(p)' = ByteAt(p + size)
    BY <1>7, <2>1
  <2>5. ByteAt(p + size)[1] # n
    <3> SUFFICES ASSUME ByteAt(p + size)[1] = n PROVE FALSE
      OBVIOUS
    <3>1. size \in 1 .. Streamed /\ size < p + size
      BY <1>5, <1>6
    <3>2. ByteAt(size) = <<n, size>>
      BY <1>5
    <3>3. Earlier(ByteAt(size), ByteAt(p + size))
      BY <2>1, <3>1 DEF StreamSound
    <3>4. ByteAt(p + size)[2] \in 1 .. size
      BY <2>2 DEF size
    <3> QED BY <1>1, <1>5, <3>2, <3>3, <3>4 DEF Earlier
  <2> QED BY <1>1, <1>2, <2>2, <2>3, <2>4, <2>5 DEF Follower
<1>9. ASSUME NEW p \in 1 .. Streamed', NEW q \in 1 .. Streamed', p < q
      PROVE  Earlier(ByteAt(p), ByteAt(q))'
  <2>1. /\ p + size \in 1 .. Streamed /\ p \in 1 .. Streamed - size
        /\ q + size \in 1 .. Streamed /\ q \in 1 .. Streamed - size /\ p + size < q + size
    BY <1>5, <1>6, <1>9
  <2>2. Earlier(ByteAt(p + size), ByteAt(q + size))
    BY <2>1 DEF StreamSound
  <2>3. ByteAt(p)' = ByteAt(p + size) /\ ByteAt(q)' = ByteAt(q + size)
    BY <1>7, <2>1
  <2> QED BY <2>2, <2>3 DEF Earlier
<1>10. Streamed' > 0 =>
         /\ ByteAt(1)' = <<Handled' + 1, 1>>
         /\ ByteAt(Streamed)' = <<Last', FrameBytes(sent[Last])'>>
  <2> SUFFICES ASSUME Streamed' > 0
               PROVE  /\ ByteAt(1)' = <<Handled' + 1, 1>>
                      /\ ByteAt(Streamed)' = <<Last', FrameBytes(sent[Last])'>>
    OBVIOUS
  <2>1. size \in 1 .. Streamed /\ size < Streamed /\ 1 \in 1 .. Streamed - size
        /\ size + 1 = 1 + size
    BY <1>5, <1>6
  <2>2. ByteAt(size + 1) = Follower(ByteAt(size)) /\ ByteAt(size) = <<n, size>>
    BY <1>5, <2>1 DEF StreamSound
  <2>3. ByteAt(1)' = <<n + 1, 1>>
    BY <1>1, <1>5, <1>7, <2>1, <2>2 DEF Follower, size
  <2>4. PICK last : last = Streamed - size
    OBVIOUS
  <2>5. last \in 1 .. Streamed - size /\ last + size = Streamed
    BY <1>5, <1>6, <2>1, <2>4
  <2>6. ByteAt(last)' = ByteAt(Streamed)
    BY <1>7, <2>5
  <2>7. ByteAt(Streamed) = <<Last, FrameBytes(sent[Last])>>
    BY <1>6, <2>1 DEF StreamSound
  <2>8. ByteAt(Streamed)' = ByteAt(last)'
    BY <1>6, <2>4
  <2> QED BY <1>2, <2>3, <2>6, <2>7, <2>8
<1>11. Handled' <= Last' /\ (Streamed' = 0 <=> Handled' = Last')
  BY <1>1, <1>2, <1>5, <1>6
<1>12. StreamSound'
  BY <1>8, <1>9, <1>10, <1>11 DEF StreamSound
<1>13. /\ \A i \in 1 .. Handled : client'.log[i] = client.log[i]
       /\ client'.log[n] = <<n, client.state>>
  BY <1>1, <1>2 DEF Handled, LoginType
<1> QED BY <1>1, <1>2, <1>12, <1>13

\* What a send puts on the wire.
LEMMA SendsWire ==
    ASSUME LoginType, NEW frame, Sends(frame)
    PROVE  /\ FrameBytes(frame) \in {2, 4} /\ Len(wire') = Len(wire) + FrameBytes(frame)
           /\ \A i \in 1 .. Len(wire) : wire'[i] = wire[i]
           /\ \A i \in 1 .. FrameBytes(frame) : wire'[Len(wire) + i] =
                <<Last + 1, i, IF server.key = 0 THEN 0 ELSE server.key + i - 1>>
           /\ Last \in Nat /\ Last' = Last + 1 /\ sent'[Last + 1] = frame
           /\ \A i \in 1 .. Last : sent'[i] = sent[i]
           /\ sent' \in Seq(Frame) /\ DOMAIN sent = 1 .. Last /\ DOMAIN sent' = 1 .. Last + 1
<1>1. /\ wire \in WireType /\ sent \in Seq(Frame) /\ server.key \in Nat /\ MaxSent \in Nat
  BY TypeParts, LoginAssumption DEF ServerRecord
<1>2. /\ frame \in Frame /\ sent' = Append(sent, frame) /\ Len(sent) < MaxSent
      /\ wire' = wire \o Enciphered(Len(sent) + 1, frame, server.key)
  BY DEF Sends
<1>3. Len(sent) + 1 \in 0 .. MaxSent
  BY <1>1, <1>2
<1>4. PICK bytes : bytes = Enciphered(Len(sent) + 1, frame, server.key)
  OBVIOUS
<1>5. /\ bytes \in WireType /\ Len(bytes) = FrameBytes(frame) /\ FrameBytes(frame) \in {2, 4}
      /\ \A i \in 1 .. FrameBytes(frame) :
           bytes[i] = <<Len(sent) + 1, i, IF server.key = 0 THEN 0 ELSE server.key + i - 1>>
  BY <1>1, <1>2, <1>3, <1>4, EncipheredType
<1>6. PICK all : all = wire \o bytes
  OBVIOUS
<1>7. /\ Len(all) = Len(wire) + Len(bytes)
      /\ \A i \in 1 .. Len(wire) : all[i] = wire[i]
      /\ \A i \in 1 .. Len(bytes) : all[Len(wire) + i] = bytes[i]
  BY <1>1, <1>5, <1>6, Joined DEF WireType
<1>8. wire' = all
  BY <1>2, <1>4, <1>6
<1>9. /\ Last \in Nat /\ Last' = Last + 1 /\ sent'[Last + 1] = frame
      /\ \A i \in 1 .. Last : sent'[i] = sent[i]
      /\ sent' \in Seq(Frame) /\ DOMAIN sent = 1 .. Last /\ DOMAIN sent' = 1 .. Last + 1
  BY <1>1, <1>2 DEF Last
<1> QED BY <1>5, <1>7, <1>8, <1>9 DEF Last

\* A send lengthens the stream by its frame.
LEMMA SendStream ==
    ASSUME LoginType, StreamSound, NEW frame, Sends(frame)
    PROVE  StreamSound'
<1> DEFINE size == FrameBytes(frame)
<1>1. /\ size \in {2, 4} /\ Len(wire') = Len(wire) + size
      /\ \A i \in 1 .. Len(wire) : wire'[i] = wire[i]
      /\ \A i \in 1 .. size : wire'[Len(wire) + i][1] = Last + 1 /\ wire'[Len(wire) + i][2] = i
      /\ Last \in Nat /\ Last' = Last + 1 /\ sent'[Last + 1] = frame
      /\ \A i \in 1 .. Last : sent'[i] = sent[i]
  BY SendsWire
<1>2. conn' = conn /\ client' = client /\ Handled' = Handled
  BY DEF Sends, Handled
<1>3. Len(conn.buffer) \in Nat /\ Len(wire) \in Nat /\ Handled \in Nat /\ Handled <= Last
  BY DEF LoginType, Handled, StreamSound
<1> HIDE DEF size
<1>4. Streamed \in Nat /\ Streamed' = Streamed + size
  <2>1. Len(wire') = Len(wire) + size /\ size \in Nat
    BY <1>1
  <2>2. Len(conn'.buffer) = Len(conn.buffer)
    BY <1>2
  <2>3. Streamed = Len(conn.buffer) + Len(wire) /\ Streamed' = Len(conn'.buffer) + Len(wire')
    BY DEF Streamed
  <2>4. Streamed \in Nat
    BY <1>3, <2>3
  <2>5. Streamed' = Len(conn.buffer) + (Len(wire) + size)
    BY <2>1, <2>2, <2>3
  <2>6. PICK total : total = Streamed'
    OBVIOUS
  <2>7. total = Streamed + size
    <3>1. PICK b : b = Len(conn.buffer)
      OBVIOUS
    <3>2. PICK w : w = Len(wire)
      OBVIOUS
    <3>3. PICK k : k = size
      OBVIOUS
    <3>4. b \in Nat /\ w \in Nat
      BY <1>3, <3>1, <3>2
    <3>5. k \in Nat
      BY <2>1, <3>3
    <3>6. Streamed = b + w
      BY <2>3, <3>1, <3>2
    <3>7. total = b + (w + k)
      BY <2>5, <2>6, <3>1, <3>2, <3>3
    <3>8. total = (b + w) + k
      BY <3>4, <3>5, <3>7
    <3> QED BY <3>3, <3>6, <3>8
  <2> QED BY <2>4, <2>6, <2>7
<1>5. \A p \in 1 .. Streamed : ByteAt(p)' = ByteAt(p)
  <2> TAKE p \in 1 .. Streamed
  <2>1. CASE p <= Len(conn.buffer)
    BY <1>2, <2>1 DEF ByteAt
  <2>2. CASE p > Len(conn.buffer)
    <3>1. p - Len(conn.buffer) \in 1 .. Len(wire)
      BY <1>3, <2>2 DEF Streamed
    <3> QED BY <1>1, <1>2, <2>2, <3>1 DEF ByteAt
  <2> QED BY <1>3, <2>1, <2>2
<1>6. \A p \in Streamed + 1 .. Streamed + size : ByteAt(p)' = <<Last + 1, p - Streamed>>
  <2> TAKE p \in Streamed + 1 .. Streamed + size
  <2>1. PICK i : i = p - Streamed
    OBVIOUS
  <2>2. i \in 1 .. size /\ p > Len(conn.buffer) /\ p - Len(conn.buffer) = Len(wire) + i
    BY <1>1, <1>3, <1>4, <2>1 DEF Streamed
  <2> QED BY <1>1, <1>2, <1>3, <2>1, <2>2 DEF ByteAt
<1>7. /\ \A i \in 1 .. Last : FrameBytes(sent'[i]) = FrameBytes(sent[i])
      /\ FrameBytes(sent'[Last + 1]) = size
  BY <1>1 DEF size
<1>8. ASSUME NEW p \in 1 .. Streamed
      PROVE  /\ ByteAt(p)[1] \in Handled + 1 .. Last
             /\ ByteAt(p)[2] \in 1 .. FrameBytes(sent[ByteAt(p)[1]])
             /\ Follower(ByteAt(p))' = Follower(ByteAt(p))
  <2>1. /\ ByteAt(p)[1] \in Handled + 1 .. Last
        /\ ByteAt(p)[2] \in 1 .. FrameBytes(sent[ByteAt(p)[1]])
    BY <1>8 DEF StreamSound
  <2>2. ByteAt(p)[1] \in 1 .. Last
    BY <1>1, <1>3, <2>1
  <2> QED BY <1>5, <1>7, <2>1, <2>2 DEF Follower
<1>9. ASSUME NEW p \in 1 .. Streamed'
      PROVE  /\ ByteAt(p)'[1] \in Handled' + 1 .. Last'
             /\ ByteAt(p)'[2] \in 1 .. FrameBytes(sent[ByteAt(p)[1]])'
             /\ p < Streamed' => ByteAt(p + 1)' = Follower(ByteAt(p))'
  <2>1. CASE p < Streamed
    <3>1. p \in 1 .. Streamed /\ p + 1 \in 1 .. Streamed
      BY <1>4, <2>1
    <3>2. ByteAt(p + 1) = Follower(ByteAt(p))
      BY <2>1, <3>1 DEF StreamSound
    <3>3. ByteAt(p)' = ByteAt(p) /\ ByteAt(p + 1)' = ByteAt(p + 1)
      BY <1>5, <3>1
    <3>4. ByteAt(p)[1] \in 1 .. Last /\ ByteAt(p)[1] \in Handled + 1 .. Last
      BY <1>1, <1>3, <1>8, <3>1
    <3> QED BY <1>1, <1>2, <1>7, <1>8, <3>1, <3>2, <3>3, <3>4
  <2>2. CASE p = Streamed
    <3>1. p \in 1 .. Streamed /\ p + 1 \in Streamed + 1 .. Streamed + size /\ p + 1 - Streamed = 1
      BY <1>1, <1>4, <2>2
    <3>2. ByteAt(p) = <<Last, FrameBytes(sent[Last])>> /\ ByteAt(p)' = ByteAt(p)
      BY <1>4, <1>5, <2>2, <3>1 DEF StreamSound
    <3>3. ByteAt(p + 1)' = <<Last + 1, 1>>
      <4>1. PICK q : q = p + 1
        OBVIOUS
      <4>2. ByteAt(q)' = <<Last + 1, 1>>
        <5>1. ByteAt(q)' = <<Last + 1, q - Streamed>>
          BY <1>6, <3>1, <4>1
        <5>2. q - Streamed = 1
          BY <1>4, <3>1, <4>1
        <5> QED BY <5>1, <5>2
      <4> QED BY <4>1, <4>2, Zenon
    <3>4. ByteAt(p)[1] \in 1 .. Last /\ ByteAt(p)[1] \in Handled + 1 .. Last
      BY <1>1, <1>3, <1>8, <3>1
    <3>5. Follower(ByteAt(p)) = <<Last + 1, 1>>
      <4>1. FrameBytes(sent[Last]) \in Nat
        BY <1>3, <1>8, <3>1, <3>2, <3>4
      <4> QED BY <3>2, <4>1 DEF Follower
    <3> QED BY <1>1, <1>2, <1>7, <1>8, <3>1, <3>2, <3>3, <3>4, <3>5
  <2>3. CASE p > Streamed
    <3>1. p \in Streamed + 1 .. Streamed + size
      BY <1>4, <2>3
    <3>2. ByteAt(p)' = <<Last + 1, p - Streamed>> /\ p - Streamed \in 1 .. size
      BY <1>1, <1>4, <1>6, <3>1
    <3>3. ASSUME p < Streamed' PROVE ByteAt(p + 1)' = Follower(ByteAt(p))'
      <4>1. p + 1 \in Streamed + 1 .. Streamed + size /\ p - Streamed < size
            /\ p + 1 - Streamed = p - Streamed + 1
        BY <1>1, <1>4, <3>1, <3>3
      <4>2. ByteAt(p + 1)' = <<Last + 1, p - Streamed + 1>>
        <5>1. PICK q : q = p + 1
          OBVIOUS
        <5>2. ByteAt(q)' = <<Last + 1, p - Streamed + 1>>
          <6>1. ByteAt(q)' = <<Last + 1, q - Streamed>>
            BY <1>6, <4>1, <5>1
          <6>2. q - Streamed = p - Streamed + 1
            BY <1>1, <1>4, <4>1, <5>1
          <6> QED BY <6>1, <6>2
        <5> QED BY <5>1, <5>2, Zenon
      <4> QED BY <1>7, <3>2, <4>1, <4>2 DEF Follower
    <3> QED BY <1>1, <1>2, <1>3, <1>7, <3>2, <3>3
  <2> QED BY <1>4, <2>1, <2>2, <2>3
<1>10. ASSUME NEW p \in 1 .. Streamed', NEW q \in 1 .. Streamed', p < q
       PROVE  Earlier(ByteAt(p), ByteAt(q))'
  <2>1. CASE q <= Streamed
    <3>1. p \in 1 .. Streamed /\ q \in 1 .. Streamed
      BY <1>4, <1>10, <2>1
    <3>2. Earlier(ByteAt(p), ByteAt(q))
      BY <1>10, <3>1 DEF StreamSound
    <3> QED BY <1>5, <3>1, <3>2 DEF Earlier
  <2>2. CASE q > Streamed /\ p <= Streamed
    <3>1. p \in 1 .. Streamed /\ q \in Streamed + 1 .. Streamed + size
      BY <1>4, <2>2
    <3>2. ByteAt(p)' = ByteAt(p) /\ ByteAt(p)[1] \in Handled + 1 .. Last /\ ByteAt(q)'[1] = Last + 1
      BY <1>5, <1>6, <1>8, <3>1
    <3> QED BY <1>1, <1>3, <3>2 DEF Earlier
  <2>3. CASE p > Streamed
    <3>1. p \in Streamed + 1 .. Streamed + size /\ q \in Streamed + 1 .. Streamed + size
          /\ p - Streamed < q - Streamed
      BY <1>4, <1>10, <2>3
    <3>2. ByteAt(p)' = <<Last + 1, p - Streamed>> /\ ByteAt(q)' = <<Last + 1, q - Streamed>>
      BY <1>6, <3>1
    <3> QED BY <3>1, <3>2 DEF Earlier
  <2> QED BY <1>4, <2>1, <2>2, <2>3
<1>11. /\ ByteAt(1)' = <<Handled' + 1, 1>>
       /\ ByteAt(Streamed)' = <<Last', FrameBytes(sent[Last])'>>
  <2>1. PICK last : last = Streamed + size
    OBVIOUS
  <2>2. last \in Streamed + 1 .. Streamed + size /\ last - Streamed = size /\ Streamed' = last
    BY <1>1, <1>4, <2>1
  <2>3. ByteAt(last)' = <<Last + 1, size>>
    BY <1>6, <2>2
  <2>4. ByteAt(Streamed)' = ByteAt(last)'
    BY <2>2
  <2>5. FrameBytes(sent[Last])' = size
    BY <1>1, <1>7
  <2>6. ByteAt(1)' = <<Handled + 1, 1>>
    <3>1. CASE Streamed = 0
      <4>1. Handled = Last /\ 1 \in Streamed + 1 .. Streamed + size /\ 1 - Streamed = 1
        BY <1>1, <3>1 DEF StreamSound
      <4> QED BY <1>6, <4>1
    <3>2. CASE Streamed > 0
      BY <1>4, <1>5, <3>2 DEF StreamSound
    <3> QED BY <1>4, <3>1, <3>2
  <2> QED BY <1>1, <1>2, <2>3, <2>4, <2>5, <2>6
<1>12. Handled' <= Last' /\ (Streamed' = 0 <=> Handled' = Last')
  BY <1>1, <1>2, <1>3, <1>4
<1> QED BY <1>9, <1>10, <1>11, <1>12 DEF StreamSound

\* A read moves bytes of the stream into the buffer and deciphers them rightly.
LEMMA ReceiveStream ==
    ASSUME LoginType, StreamSound, KeysSound, NEW n, Receives(n)
    PROVE  StreamSound' /\ Handled' = Handled /\ Last' = Last
<1>1. /\ Len(wire') = Len(wire) - n /\ Len(conn'.buffer) = Len(conn.buffer) + n
      /\ n \in 1 .. Len(wire)
      /\ \A i \in 1 .. Len(wire) - n : wire'[i] = wire[i + n]
      /\ \A i \in 1 .. Len(conn.buffer) : conn'.buffer[i] = conn.buffer[i]
      /\ \A i \in 1 .. n : conn'.buffer[Len(conn.buffer) + i] =
           IF wire[i][3] = (IF conn.decryptor = 0 THEN 0 ELSE conn.decryptor + i - 1)
           THEN <<wire[i][1], wire[i][2]>> ELSE Noise
  BY ReceivedType
<1>2. Len(conn.buffer) \in Nat /\ Len(wire) \in Nat /\ DOMAIN wire = 1 .. Len(wire)
  BY DEF LoginType
<1>3. Handled' = Handled /\ Last' = Last /\ sent' = sent
  BY DEF Receives, Handled, Last
<1>4. \A i \in 1 .. n : conn'.buffer[Len(conn.buffer) + i] = <<wire[i][1], wire[i][2]>>
  <2> TAKE i \in 1 .. n
  <2>1. i \in DOMAIN wire
    BY <1>1, <1>2
  <2>2. wire[i][3] = (IF conn.decryptor = 0 THEN 0 ELSE conn.decryptor + i - 1)
    BY <2>1 DEF KeysSound
  <2> QED BY <1>1, <2>2
<1>5. Streamed' = Streamed /\ Streamed \in Nat
  BY <1>1, <1>2 DEF Streamed
<1>6. \A p \in 1 .. Streamed : ByteAt(p)' = ByteAt(p)
  <2> TAKE p \in 1 .. Streamed
  <2>1. CASE p <= Len(conn.buffer)
    <3>1. p \in 1 .. Len(conn.buffer) /\ p <= Len(conn'.buffer)
      BY <1>1, <1>2, <2>1
    <3> QED BY <1>1, <3>1 DEF ByteAt
  <2>2. CASE p > Len(conn.buffer) /\ p <= Len(conn.buffer) + n
    <3>1. PICK i : i = p - Len(conn.buffer)
      OBVIOUS
    <3>2. i \in 1 .. n /\ p = Len(conn.buffer) + i /\ p <= Len(conn'.buffer) /\ ~(p <= Len(conn.buffer))
      BY <1>1, <1>2, <2>2, <3>1
    <3>3. ByteAt(p) = <<wire[i][1], wire[i][2]>>
      BY <3>1, <3>2 DEF ByteAt
    <3>4. ByteAt(p)' = conn'.buffer[p]
      BY <3>2 DEF ByteAt
    <3> QED BY <1>4, <3>2, <3>3, <3>4
  <2>3. CASE p > Len(conn.buffer) + n
    <3>1. PICK i : i = p - Len(conn.buffer) - n
      OBVIOUS
    <3>2. /\ i \in 1 .. Len(wire) - n /\ i + n = p - Len(conn.buffer) /\ i = p - Len(conn'.buffer)
          /\ ~(p <= Len(conn'.buffer)) /\ ~(p <= Len(conn.buffer))
      BY <1>1, <1>2, <2>3, <3>1 DEF Streamed
    <3>3. ByteAt(p) = <<wire[i + n][1], wire[i + n][2]>>
      BY <3>2 DEF ByteAt
    <3>4. ByteAt(p)' = <<wire'[i][1], wire'[i][2]>>
      BY <3>2 DEF ByteAt
    <3> QED BY <1>1, <3>2, <3>3, <3>4
  <2> QED BY <1>1, <1>2, <2>1, <2>2, <2>3
<1>7. ASSUME NEW p \in 1 .. Streamed
      PROVE  /\ ByteAt(p)'[1] \in Handled' + 1 .. Last'
             /\ ByteAt(p)'[2] \in 1 .. FrameBytes(sent[ByteAt(p)[1]])'
             /\ p < Streamed' => ByteAt(p + 1)' = Follower(ByteAt(p))'
  <2>1. /\ ByteAt(p)[1] \in Handled + 1 .. Last
        /\ ByteAt(p)[2] \in 1 .. FrameBytes(sent[ByteAt(p)[1]])
        /\ p < Streamed => ByteAt(p + 1) = Follower(ByteAt(p))
    BY <1>7 DEF StreamSound
  <2>2. p < Streamed => p + 1 \in 1 .. Streamed
    BY <1>5
  <2>3. Follower(ByteAt(p))' = Follower(ByteAt(p))
    BY <1>3, <1>6 DEF Follower
  <2> QED BY <1>3, <1>5, <1>6, <2>1, <2>2, <2>3
<1>8. \A p, q \in 1 .. Streamed : p < q => Earlier(ByteAt(p), ByteAt(q))'
  BY <1>6 DEF StreamSound, Earlier
<1>9. Streamed > 0 => /\ ByteAt(1)' = <<Handled + 1, 1>>
                      /\ ByteAt(Streamed)' = <<Last, FrameBytes(sent[Last])>>
  <2>1. PICK last : last = Streamed
    OBVIOUS
  <2>2. Streamed > 0 => ByteAt(last)' = ByteAt(last) /\ ByteAt(1)' = ByteAt(1)
    BY <1>5, <1>6, <2>1
  <2>3. ByteAt(Streamed)' = ByteAt(last)' /\ ByteAt(Streamed) = ByteAt(last)
    BY <1>5, <2>1
  <2> QED BY <2>2, <2>3 DEF StreamSound
<1>10. Handled <= Last /\ (Streamed = 0 <=> Handled = Last)
  BY DEF StreamSound
<1> QED BY <1>3, <1>5, <1>7, <1>8, <1>9, <1>10 DEF StreamSound

\* Nothing else moves the stream.
LEMMA SameStream ==
    ASSUME StreamSound, UNCHANGED <<conn, wire, sent>>, Handled' = Handled
    PROVE  StreamSound'
<1>1. Streamed' = Streamed /\ Last' = Last
  BY DEF Streamed, Last
<1>2. \A p : ByteAt(p)' = ByteAt(p) /\ Follower(ByteAt(p))' = Follower(ByteAt(p))
  BY DEF ByteAt, Follower
<1>3. ByteAt(Streamed)' = ByteAt(Streamed)
  BY <1>1 DEF ByteAt
<1> QED BY <1>1, <1>2, <1>3 DEF StreamSound, Earlier

-----------------------------------------------------------------------------
(* The server sends a frame.                                               *)

\* What the invariant says of a server that may send.
LEMMA SendsKnown ==
    ASSUME LoginType, Parts, NEW frame, Sends(frame)
    PROVE  /\ server.awaits = None /\ server.phase \in {"Status", "Ping", "Login", "Configuration", "Play", "Session"}
           /\ client.state # "Handshake" /\ Handled \in 0 .. Last /\ Last \in Nat
           /\ StateFor(server.phase) = StateAfter(Last)
           /\ \A j \in DOMAIN outbox : outbox[j].packet \notin Acknowledgements
           /\ \A i \in DOMAIN sent : sent[i].packet \in DOMAIN Acknowledgement => i <= Handled
           /\ server'.phase \in {server.phase, "Session", "Closed"}
           /\ Closed' => frame.packet = "disconnect"
           /\ frame.packet \in Packets
           /\ server.key \in Nat
<1>1. /\ server.awaits = None /\ Lawful(frame.packet) /\ frame \in Frame
      /\ server'.phase = IF frame.packet = "disconnect" THEN "Closed"
                       ELSE IF frame.packet = "login" THEN "Session" ELSE server.phase
  BY DEF Sends
<1>2. server.phase \in {"Status", "Ping", "Login", "Configuration", "Play", "Session"}
  BY <1>1 DEF Lawful
<1>3. PhasesSound /\ AcksSound /\ StreamSound
  BY DEF Parts
<1>4. client.state # "Handshake" /\ StateFor(server.phase) = StateAfter(Last)
  BY <1>1, <1>2, <1>3 DEF PhasesSound
<1>5. Handled \in 0 .. Last /\ Last \in Nat
  <2>1. Handled \in Nat /\ Last \in Nat
    BY DEF LoginType, Handled, Last
  <2> QED BY <1>3, <2>1 DEF StreamSound
<1>6. \A j \in DOMAIN outbox : outbox[j].packet \notin Acknowledgements
  BY <1>1, <1>2, <1>3 DEF AcksSound, Closed, None, Acknowledgements
<1>7. \A i \in DOMAIN sent : sent[i].packet \in DOMAIN Acknowledgement => i <= Handled
  BY <1>1, <1>2, <1>3 DEF AcksSound, Closed, None, Acknowledgement
<1>8. server'.phase \in {server.phase, "Session", "Closed"} /\ (Closed' => frame.packet = "disconnect")
  BY <1>1, <1>2 DEF Closed
<1>9. frame.packet \in Packets /\ server.key \in Nat
  BY <1>1 DEF Frame, LoginType
<1> QED BY <1>1, <1>2, <1>4, <1>5, <1>6, <1>7, <1>8, <1>9

LEMMA SendKeys ==
    ASSUME LoginType, LoginType', Parts, NEW frame, Sends(frame)
    PROVE  KeysSound'
<1>1. /\ FrameBytes(frame) \in {2, 4} /\ Len(wire') = Len(wire) + FrameBytes(frame)
      /\ \A i \in 1 .. Len(wire) : wire'[i] = wire[i]
      /\ \A i \in 1 .. FrameBytes(frame) : wire'[Len(wire) + i] =
           <<Last + 1, i, IF server.key = 0 THEN 0 ELSE server.key + i - 1>>
      /\ \A i \in 1 .. Last : sent'[i] = sent[i]
  BY SendsWire
<1>2. /\ UNCHANGED <<conn, client, outbox>> /\ Handled' = Handled
      /\ server'.key = IF server.key = 0 THEN 0 ELSE server.key + FrameBytes(frame)
  BY DEF Sends, Handled
<1>3. /\ server.awaits = None /\ ~Closed /\ Handled \in 0 .. Last /\ Last \in Nat /\ server.key \in Nat
      /\ \A j \in DOMAIN outbox : outbox[j].packet \notin Acknowledgements
  BY SendsKnown DEF Closed
<1>4. KeysSound
  BY DEF Parts
<1>5. Len(wire) \in Nat /\ DOMAIN wire = 1 .. Len(wire) /\ conn.decryptor \in Nat
      /\ DOMAIN wire' = 1 .. Len(wire')
  <2>1. wire \in WireType /\ wire' \in WireType /\ conn \in ConnRecord
    BY TypeParts, TypePartsNext
  <2> QED BY <2>1 DEF WireType, ConnRecord
<1>6. conn.decryptor # 0 => server.key = conn.decryptor + Len(wire)
  BY <1>3, <1>4 DEF KeysSound, None
<1>7. conn.decryptor = 0 => server.key = 0
  BY <1>4 DEF KeysSound
<1>8. \A i \in DOMAIN wire' : wire'[i][3] = IF conn.decryptor = 0 THEN 0 ELSE conn.decryptor + i - 1
  <2> TAKE i \in DOMAIN wire'
  <2>1. CASE i <= Len(wire)
    <3>1. i \in DOMAIN wire /\ wire'[i] = wire[i]
      BY <1>1, <1>5, <2>1
    <3> QED BY <1>4, <3>1 DEF KeysSound
  <2>2. CASE i > Len(wire)
    <3>1. PICK k : k = i - Len(wire)
      OBVIOUS
    <3>2. k \in 1 .. FrameBytes(frame) /\ i = Len(wire) + k
      BY <1>1, <1>5, <2>2, <3>1
    <3>3. wire'[i] = <<Last + 1, k, IF server.key = 0 THEN 0 ELSE server.key + k - 1>>
      BY <1>1, <3>2
    <3>4. wire'[i][3] = IF server.key = 0 THEN 0 ELSE server.key + k - 1
      BY <3>3
    <3>5. CASE conn.decryptor = 0
      BY <1>7, <3>4, <3>5
    <3>6. CASE conn.decryptor # 0
      <4>1. PICK d : d = conn.decryptor
        OBVIOUS
      <4>2. PICK w : w = Len(wire)
        OBVIOUS
      <4>3. d \in Nat /\ d # 0 /\ w \in Nat /\ server.key = d + w /\ k \in Nat
        BY <1>1, <1>5, <1>6, <3>2, <3>6, <4>1, <4>2
      <4>4. wire'[i][3] = (d + w) + k - 1
        BY <3>4, <4>3
      <4>5. (d + w) + k - 1 = d + i - 1
        BY <3>2, <4>2, <4>3
      <4> QED BY <3>6, <4>1, <4>4, <4>5
    <3> QED BY <3>5, <3>6
  <2> QED BY <1>5, <2>1, <2>2
<1>9. conn.decryptor # 0 => server'.key = conn.decryptor + Len(wire')
  BY <1>1, <1>2, <1>5, <1>6
<1>10. conn.encryptor <=> conn.decryptor # 0
  BY <1>4 DEF KeysSound
<1>11. conn.decryptor # 0 => \E i \in 1 .. Handled : sent'[i].packet = "encryption_request"
  <2>1. conn.decryptor # 0 => \E i \in 1 .. Handled : sent[i].packet = "encryption_request"
    BY <1>4 DEF KeysSound, Sent
  <2> SUFFICES ASSUME NEW i \in 1 .. Handled, sent[i].packet = "encryption_request"
               PROVE  sent'[i].packet = "encryption_request"
    BY <2>1
  <2>2. i \in 1 .. Last
    BY <1>3
  <2> QED BY <1>1, <2>2
<1>12. \A j \in DOMAIN outbox : outbox[j].packet # "encryption_response"
  BY <1>3 DEF Acknowledgements
<1> QED BY <1>2, <1>7, <1>8, <1>9, <1>10, <1>11, <1>12 DEF KeysSound, Sent

\* What a send adds to the frames.
LEMMA SendsFrame ==
    ASSUME LoginType, NEW frame, Sends(frame)
    PROVE  /\ Last \in Nat /\ Last' = Last + 1 /\ sent'[Last + 1] = frame
           /\ \A i \in 1 .. Last : sent'[i] = sent[i]
           /\ DOMAIN sent = 1 .. Last /\ DOMAIN sent' = 1 .. Last + 1
           /\ UNCHANGED <<conn, client, outbox>> /\ Handled' = Handled
           /\ frame.phase = server.phase /\ Lawful(frame.packet) /\ server.awaits = None
           /\ server'.awaits = IF frame.packet \in DOMAIN Acknowledgement
                               THEN Acknowledgement[frame.packet] ELSE None
           /\ server'.phase = IF frame.packet = "disconnect" THEN "Closed"
                              ELSE IF frame.packet = "login" THEN "Session" ELSE server.phase
           /\ frame \in Frame
<1>1. /\ Last \in Nat /\ Last' = Last + 1 /\ sent'[Last + 1] = frame
      /\ \A i \in 1 .. Last : sent'[i] = sent[i]
      /\ DOMAIN sent = 1 .. Last /\ DOMAIN sent' = 1 .. Last + 1
  BY SendsWire
<1> QED BY <1>1 DEF Sends, Handled

LEMMA SendPhases ==
    ASSUME LoginType, Parts, NEW frame, Sends(frame)
    PROVE  PhasesSound'
<1>1. /\ Last \in Nat /\ Last' = Last + 1 /\ sent'[Last + 1] = frame
      /\ \A i \in 1 .. Last : sent'[i] = sent[i]
      /\ DOMAIN sent = 1 .. Last /\ DOMAIN sent' = 1 .. Last + 1
      /\ UNCHANGED <<conn, client, outbox>> /\ Handled' = Handled
      /\ frame.phase = server.phase
  BY SendsFrame
<1>2. /\ server'.awaits = IF frame.packet \in DOMAIN Acknowledgement
                               THEN Acknowledgement[frame.packet] ELSE None
      /\ server'.phase = IF frame.packet = "disconnect" THEN "Closed"
                              ELSE IF frame.packet = "login" THEN "Session" ELSE server.phase
  BY SendsFrame
<1>3. /\ server.phase \in {"Status", "Ping", "Login", "Configuration", "Play", "Session"}
      /\ client.state # "Handshake" /\ Handled \in 0 .. Last
      /\ StateFor(server.phase) = StateAfter(Last)
  BY SendsKnown
<1>4. PhasesSound
  BY DEF Parts
<1>5. \A i \in 0 .. Last : StateAfter(i)' = StateAfter(i)
  <2> TAKE i \in 0 .. Last
  <2>1. First' = First
    BY <1>1 DEF First
  <2>2. i # 0 => sent'[i] = sent[i]
    BY <1>1
  <2> QED BY <2>1, <2>2 DEF StateAfter, StateFor
<1>6. \A i \in DOMAIN sent' : StateFor(sent'[i].phase) = StateAfter(i - 1)'
  <2> TAKE i \in DOMAIN sent'
  <2>1. PICK k : k = i - 1
    OBVIOUS
  <2>2. k \in 0 .. Last
    BY <1>1, <2>1
  <2>3. StateAfter(k)' = StateAfter(k)
    BY <1>5, <2>2
  <2>4. StateFor(sent'[i].phase) = StateAfter(k)
    <3>1. CASE i = Last + 1
      <4>1. sent'[i].phase = server.phase /\ k = Last
        BY <1>1, <2>1, <3>1
      <4> QED BY <1>3, <4>1
    <3>2. CASE i # Last + 1
      <4>1. i \in DOMAIN sent /\ sent'[i] = sent[i]
        BY <1>1, <3>2
      <4>2. StateFor(sent[i].phase) = StateAfter(i - 1)
        BY <1>4, <4>1 DEF PhasesSound
      <4> QED BY <2>1, <4>1, <4>2
    <3> QED BY <3>1, <3>2
  <2>5. StateAfter(i - 1)' = StateAfter(k)'
    BY <2>1 DEF StateAfter
  <2> QED BY <2>3, <2>4, <2>5
<1>7. client.state = StateAfter(Handled)'
  <2>1. PICK k : k = Handled
    OBVIOUS
  <2>2. StateAfter(k)' = StateAfter(k) /\ StateAfter(Handled)' = StateAfter(k)'
    BY <1>1, <1>3, <1>5, <2>1 DEF StateAfter
  <2>3. client.state = StateAfter(Handled)
    BY <1>3, <1>4 DEF PhasesSound
  <2> QED BY <2>1, <2>2, <2>3
<1>8. server'.phase # "Closed" /\ server'.awaits = None => StateFor(server'.phase) = StateAfter(Last)'
  <2> SUFFICES ASSUME server'.phase # "Closed", server'.awaits = None
               PROVE  StateFor(server'.phase) = StateAfter(Last)'
    OBVIOUS
  <2>1. frame.packet \notin DOMAIN Acknowledgement /\ frame.packet # "disconnect"
    BY <1>2 DEF Acknowledgement, None
  <2>2. frame.packet \notin {"success", "start_configuration", "finish"}
    BY <2>1 DEF Acknowledgement
  <2>3. StateAfter(Last)' = IF frame.packet = "login" THEN "Session" ELSE StateFor(frame.phase)
    <3>1. PICK k : k = Last + 1
      OBVIOUS
    <3>2. sent'[k] = frame /\ k # 0 /\ Last' = k
      BY <1>1, <3>1
    <3> QED BY <2>2, <3>2 DEF StateAfter, StateFor
  <2> QED BY <1>1, <1>2, <2>1, <2>3 DEF StateFor
<1>9. server'.phase # "Handshake" /\ \A j \in DOMAIN outbox : outbox[j].packet \notin Opening
  BY <1>2, <1>3, <1>4 DEF PhasesSound
<1> QED BY <1>1, <1>3, <1>6, <1>7, <1>8, <1>9 DEF PhasesSound, StateFor

LEMMA SendPlaced ==
    ASSUME LoginType, Parts, NEW frame, Sends(frame)
    PROVE  FramesPlaced' /\ LoginSound'
<1>1. /\ Last \in Nat /\ Last' = Last + 1 /\ sent'[Last + 1] = frame
      /\ \A i \in 1 .. Last : sent'[i] = sent[i]
      /\ DOMAIN sent = 1 .. Last /\ DOMAIN sent' = 1 .. Last + 1
      /\ frame.phase = server.phase /\ Lawful(frame.packet)
  BY SendsFrame
<1>2. /\ server'.phase = IF frame.packet = "disconnect" THEN "Closed"
                         ELSE IF frame.packet = "login" THEN "Session" ELSE server.phase
      /\ server.done \subseteq server'.done
      /\ frame.packet \in {"encryption_request", "set_compression"} => frame.packet \in server'.done
  BY DEF Sends
<1>3. FramesPlaced /\ LoginSound
  BY DEF Parts
<1>4. /\ frame.packet \in {"encryption_request", "set_compression", "success", "wrong_success"} =>
           frame.phase = "Login"
      /\ frame.packet \in Registries \cup {"finish"} => frame.phase = "Configuration"
      /\ frame.packet \in {"start_configuration", "login"} => frame.phase = "Play"
      /\ frame.phase \notin {"Handshake", "Closed"}
      /\ frame.phase = "Login" =>
           frame.packet \in {"success", "wrong_success", "disconnect", "garbage",
                             "encryption_request", "set_compression"} \cup DOMAIN LoginReply
  BY <1>1 DEF Lawful
<1>5. server.phase # "Closed"
  BY <1>1, <1>4
<1>6. ASSUME NEW i \in DOMAIN sent'
      PROVE  (i \in DOMAIN sent /\ sent'[i] = sent[i]) \/ sent'[i] = frame
  BY <1>1
<1>7. FramesPlaced'
  BY <1>3, <1>4, <1>6 DEF FramesPlaced
<1>8. LoginSound'
  <2> SUFFICES ASSUME NEW i \in DOMAIN sent'
               PROVE  /\ sent'[i].phase = "Login" =>
                           sent'[i].packet \in {"success", "wrong_success", "disconnect", "garbage",
                                "encryption_request", "set_compression"} \cup DOMAIN LoginReply
                      /\ sent'[i].packet = "disconnect" => server'.phase = "Closed"
                      /\ sent'[i].packet = "set_compression" => "set_compression" \in server'.done
    BY DEF LoginSound, Sent, Closed
  <2>1. CASE sent'[i] = frame
    BY <1>2, <1>4, <2>1
  <2>2. CASE i \in DOMAIN sent /\ sent'[i] = sent[i]
    BY <1>2, <1>3, <1>5, <2>2 DEF LoginSound, Sent, Closed
  <2> QED BY <1>6, <2>1, <2>2
<1> QED BY <1>7, <1>8

LEMMA SendKind ==
    ASSUME LoginType, Parts, NEW frame, Sends(frame)
    PROVE  KindSound'
<1>1. /\ sent'[Last + 1] = frame /\ DOMAIN sent = 1 .. Last /\ DOMAIN sent' = 1 .. Last + 1
      /\ \A i \in 1 .. Last : sent'[i] = sent[i]
      /\ frame.phase = server.phase /\ Lawful(frame.packet) /\ UNCHANGED <<conn, client, outbox>>
      /\ server'.phase = IF frame.packet = "disconnect" THEN "Closed"
                         ELSE IF frame.packet = "login" THEN "Session" ELSE server.phase
      /\ Last \in Nat
  BY SendsFrame
<1>2. KindSound
  BY DEF Parts
<1>3. /\ server.phase \in {"Status", "Ping", "Login", "Configuration", "Play", "Session"}
      /\ frame.packet = "login" => server.phase = "Play"
  BY <1>1 DEF Lawful
<1>4. ASSUME NEW i \in DOMAIN sent'
      PROVE  (i \in DOMAIN sent /\ sent'[i] = sent[i]) \/ sent'[i] = frame
  BY <1>1
<1> QED BY <1>1, <1>2, <1>3, <1>4 DEF KindSound

LEMMA SendAcks ==
    ASSUME LoginType, Parts, NEW frame, Sends(frame)
    PROVE  AcksSound'
<1>1. /\ Last \in Nat /\ Last' = Last + 1 /\ sent'[Last + 1] = frame
      /\ \A i \in 1 .. Last : sent'[i] = sent[i]
      /\ DOMAIN sent = 1 .. Last /\ DOMAIN sent' = 1 .. Last + 1
      /\ UNCHANGED <<conn, client, outbox>> /\ Handled' = Handled
      /\ frame.phase = server.phase /\ Lawful(frame.packet) /\ server.awaits = None
  BY SendsFrame
<1>2. /\ server'.awaits = IF frame.packet \in DOMAIN Acknowledgement
                               THEN Acknowledgement[frame.packet] ELSE None
      /\ server'.phase = IF frame.packet = "disconnect" THEN "Closed"
                              ELSE IF frame.packet = "login" THEN "Session" ELSE server.phase
  BY SendsFrame
<1>3. /\ server.done \subseteq server'.done
      /\ frame.packet \in {"encryption_request", "set_compression"} => frame.packet \in server'.done
  BY DEF Sends
<1>4. /\ \A j \in DOMAIN outbox : outbox[j].packet \notin Acknowledgements
      /\ \A i \in DOMAIN sent : sent[i].packet \in DOMAIN Acknowledgement => i <= Handled
  BY SendsKnown
<1>5. AcksSound
  BY DEF Parts
<1>6. ASSUME NEW i \in DOMAIN sent'
      PROVE  (i \in DOMAIN sent /\ i # Last + 1 /\ sent'[i] = sent[i]) \/ (i = Last + 1 /\ sent'[i] = frame)
  <2>1. CASE i = Last + 1
    BY <1>1, <2>1
  <2>2. CASE i # Last + 1
    <3>1. i \in 1 .. Last
      BY <1>1, <2>2
    <3> QED BY <1>1, <2>2, <3>1
  <2> QED BY <2>1, <2>2
<1>7. \A i \in DOMAIN sent' : sent'[i].packet \in DOMAIN Acknowledgement =>
        i <= Handled \/ (i = Last + 1 /\ server'.awaits = Acknowledgement[sent'[i].packet])
  BY <1>2, <1>4, <1>6
<1>8. server'.awaits # None =>
        /\ sent'[Last + 1].packet \in DOMAIN Acknowledgement
        /\ server'.awaits = Acknowledgement[sent'[Last + 1].packet]
        /\ server'.phase = sent'[Last + 1].phase
  <2> SUFFICES ASSUME server'.awaits # None
               PROVE  /\ frame.packet \in DOMAIN Acknowledgement
                      /\ server'.awaits = Acknowledgement[frame.packet]
                      /\ server'.phase = frame.phase
    BY <1>1
  <2>1. frame.packet \in DOMAIN Acknowledgement /\ server'.awaits = Acknowledgement[frame.packet]
    BY <1>2
  <2>2. frame.packet # "disconnect" /\ frame.packet # "login"
    BY <2>1 DEF Acknowledgement
  <2> QED BY <1>1, <1>2, <2>1, <2>2
<1>9. \A i \in DOMAIN sent' : sent'[i].packet = "encryption_request" => "encryption_request" \in server'.done
  <2> TAKE i \in DOMAIN sent'
  <2>1. CASE sent'[i] = frame
    BY <1>3, <2>1
  <2>2. CASE i \in DOMAIN sent /\ sent'[i] = sent[i]
    BY <1>3, <1>5, <2>2 DEF AcksSound, Sent
  <2> QED BY <1>6, <2>1, <2>2
<1>10. \A i, j \in DOMAIN sent' :
         sent'[i].packet = "encryption_request" /\ sent'[j].packet = "encryption_request" => i = j
  <2>1. frame.packet = "encryption_request" => \A i \in DOMAIN sent : sent[i].packet # "encryption_request"
    BY <1>1, <1>5 DEF AcksSound, Sent, Lawful
  <2>2. \A i, j \in DOMAIN sent :
          sent[i].packet = "encryption_request" /\ sent[j].packet = "encryption_request" => i = j
    BY <1>5 DEF AcksSound, Sent
  <2> SUFFICES ASSUME NEW i \in DOMAIN sent', NEW j \in DOMAIN sent',
                      sent'[i].packet = "encryption_request", sent'[j].packet = "encryption_request"
               PROVE  i = j
    OBVIOUS
  <2>3. (i \in DOMAIN sent /\ i # Last + 1 /\ sent'[i] = sent[i]) \/ (i = Last + 1 /\ sent'[i] = frame)
    BY <1>6
  <2>4. (j \in DOMAIN sent /\ j # Last + 1 /\ sent'[j] = sent[j]) \/ (j = Last + 1 /\ sent'[j] = frame)
    BY <1>6
  <2> QED BY <2>1, <2>2, <2>3, <2>4
<1> QED BY <1>1, <1>4, <1>7, <1>8, <1>9, <1>10 DEF AcksSound, Sent

\* The two sets that the server's count is made of are finite.
LEMMA UnansweredFinite ==
    ASSUME LoginType
    PROVE  IsFiniteSet(Unanswered) /\ IsFiniteSet(Unread)
<1>1. Handled \in Nat /\ Last \in Nat /\ Len(outbox) \in Nat /\ DOMAIN outbox = 1 .. Len(outbox)
  BY DEF LoginType, Handled, Last
<1>2. IsFiniteSet(Handled + 1 .. Last) /\ IsFiniteSet(1 .. Len(outbox))
  <2>1. Handled + 1 \in Int /\ Last \in Int /\ 1 \in Int /\ Len(outbox) \in Int
    BY <1>1
  <2> QED BY <2>1, FS_Interval
<1>3. Unanswered \subseteq Handled + 1 .. Last /\ Unread \subseteq 1 .. Len(outbox)
  BY <1>1 DEF Unanswered, Unread
<1> QED BY <1>2, <1>3, FS_Subset

\* Compression is turned on when nothing is on its way to the server.
LEMMA QuietCompression ==
    ASSUME LoginType, Parts, NEW frame, Sends(frame), frame.packet = "set_compression"
    PROVE  /\ outbox = <<>> /\ server.phase = "Login" /\ "set_compression" \notin server.done
           /\ Unanswered = {}
<1>1. server.phase = "Login" /\ server.owed = 0 /\ server.awaits = None
      /\ "set_compression" \notin server.done
  BY SendsFrame DEF Lawful, Sends
<1>2. OwedSound
  BY DEF Parts
<1>3. /\ \A j \in DOMAIN outbox :
            /\ outbox[j].packet \in LoginAnswer \cup {"client_information", "encryption_response",
                                                      "login_acknowledged"}
            /\ outbox[j].packet # "client_information"
      /\ 0 = Cardinality(Unanswered) + Cardinality(Unread)
  BY <1>1, <1>2 DEF OwedSound, None
<1>4. IsFiniteSet(Unanswered) /\ IsFiniteSet(Unread)
  BY UnansweredFinite
<1>5. Unanswered = {} /\ Unread = {}
  <2>1. Cardinality(Unanswered) \in Nat /\ Cardinality(Unread) \in Nat
    BY <1>4, FS_CardinalityType
  <2>2. Cardinality(Unanswered) = 0 /\ Cardinality(Unread) = 0
    BY <1>3, <2>1
  <2> QED BY <1>4, <2>2, FS_EmptySet
<1>6. \A j \in DOMAIN outbox : outbox[j].packet \notin Acknowledgements
  BY SendsKnown
<1>7. \A j \in DOMAIN outbox : FALSE
  BY <1>3, <1>5, <1>6 DEF Unread, Acknowledgements
<1>8. outbox = <<>>
  <2>1. outbox \in Seq(OutPacket)
    BY TypeParts
  <2>2. Len(outbox) = 0
    <3> SUFFICES ASSUME Len(outbox) # 0 PROVE FALSE
      OBVIOUS
    <3>1. 1 \in DOMAIN outbox
      BY <2>1
    <3> QED BY <1>7, <3>1
  <2> QED BY <2>1, <2>2
<1> QED BY <1>1, <1>5, <1>8

LEMMA SendWrites ==
    ASSUME LoginType, Parts, NEW frame, Sends(frame)
    PROVE  WritesSound'
<1>1. /\ UNCHANGED <<conn, client, outbox>> /\ Lawful(frame.packet)
      /\ server'.phase = IF frame.packet = "disconnect" THEN "Closed"
                         ELSE IF frame.packet = "login" THEN "Session" ELSE server.phase
  BY SendsFrame
<1>2. /\ server'.inZip = (server.inZip \/ frame.packet = "set_compression")
      /\ server'.inKey = server.inKey
  BY DEF Sends
<1>3. server.phase # "Closed"
  BY <1>1 DEF Lawful
<1>4. WritesSound
  BY DEF Parts
<1>5. CASE frame.packet = "set_compression"
  <2>1. outbox = <<>>
    BY <1>5, QuietCompression
  <2>2. DOMAIN outbox = {}
    BY <2>1
  <2> QED BY <1>1, <1>2, <1>3, <1>4, <2>2 DEF WritesSound, Closed
<1>6. CASE frame.packet # "set_compression"
  <2>1. server'.inZip = server.inZip
    <3>1. server.inZip \in BOOLEAN
      BY TypeParts DEF ServerRecord
    <3> QED BY <1>2, <1>6, <3>1
  <2> QED BY <1>1, <1>2, <1>3, <1>4, <2>1 DEF WritesSound, Closed
<1> QED BY <1>5, <1>6

LEMMA SendZip ==
    ASSUME LoginType, Parts, NEW frame, Sends(frame)
    PROVE  ZipSound'
<1>1. /\ Last \in Nat /\ Last' = Last + 1 /\ sent'[Last + 1] = frame
      /\ \A i \in 1 .. Last : sent'[i] = sent[i]
      /\ DOMAIN sent = 1 .. Last /\ DOMAIN sent' = 1 .. Last + 1
      /\ UNCHANGED <<conn, client, outbox>> /\ Handled' = Handled
      /\ frame.phase = server.phase
  BY SendsFrame
<1>2. /\ server'.zip = (server.zip \/ frame.packet = "set_compression")
      /\ server'.inZip = (server.inZip \/ frame.packet = "set_compression")
      /\ server.faulty => server'.faulty
      /\ ~server'.faulty => frame.format = Format(server.zip, frame.size)
  BY DEF Sends
<1>3. Handled \in 0 .. Last
      /\ \A i \in DOMAIN sent : sent[i].packet \in DOMAIN Acknowledgement => i <= Handled
  BY SendsKnown
<1>4. ZipSound /\ OwedSound /\ LoginSound
  BY DEF Parts
<1>5. server.zip \in BOOLEAN /\ server.inZip \in BOOLEAN
  BY TypeParts DEF ServerRecord
<1>6. ASSUME NEW k \in 0 .. Last
      PROVE  (\E c \in 1 .. k : sent'[c].packet = "set_compression") <=>
             (\E c \in 1 .. k : sent[c].packet = "set_compression")
  <2>1. \A c \in 1 .. k : sent'[c] = sent[c]
    BY <1>1
  <2> QED BY <2>1
<1>7. server.zip <=> \E c \in 1 .. Last : sent[c].packet = "set_compression"
  BY <1>1, <1>4 DEF ZipSound, Sent
<1>8. server'.zip <=> \E c \in DOMAIN sent' : sent'[c].packet = "set_compression"
  <2>1. CASE frame.packet = "set_compression"
    <3>1. Last + 1 \in DOMAIN sent' /\ sent'[Last + 1].packet = "set_compression"
      BY <1>1, <2>1
    <3>2. server'.zip
      BY <1>2, <2>1
    <3> QED BY <3>1, <3>2
  <2>2. CASE frame.packet # "set_compression"
    <3>1. (\E c \in 1 .. Last : sent'[c].packet = "set_compression") <=>
          (\E c \in 1 .. Last : sent[c].packet = "set_compression")
      BY <1>1, <1>6
    <3>2. (\E c \in DOMAIN sent' : sent'[c].packet = "set_compression") <=>
          (\E c \in 1 .. Last : sent'[c].packet = "set_compression")
      <4>1. \A c \in DOMAIN sent' : c \in 1 .. Last \/ sent'[c] = frame
        BY <1>1
      <4>2. \A c \in 1 .. Last : c \in DOMAIN sent'
        BY <1>1
      <4> QED BY <2>2, <4>1, <4>2
    <3> QED BY <1>2, <1>5, <1>7, <2>2, <3>1, <3>2
  <2> QED BY <2>1, <2>2
<1>9. server'.zip <=> server'.inZip
  BY <1>2, <1>4, <1>5 DEF ZipSound
<1>10. conn'.threshold = IF \E c \in 1 .. Handled : sent'[c].packet = "set_compression" THEN Threshold ELSE 0
  <2>1. (\E c \in 1 .. Handled : sent'[c].packet = "set_compression") <=>
        (\E c \in 1 .. Handled : sent[c].packet = "set_compression")
    BY <1>3, <1>6
  <2>2. conn.threshold = IF \E c \in 1 .. Handled : sent[c].packet = "set_compression" THEN Threshold ELSE 0
    BY <1>4 DEF ZipSound, Sent
  <2> QED BY <1>1, <2>1, <2>2
<1>11. ASSUME NEW c \in Handled + 1 .. Last + 1, sent'[c].packet = "set_compression",
              NEW i \in Handled + 1 .. c - 1
       PROVE  sent'[i].packet \in {"wrong_success", "garbage"} /\ sent'[i].phase = "Login"
  <2>1. i \in 1 .. Last /\ i \in DOMAIN sent /\ sent'[i] = sent[i] /\ i > Handled /\ i <= c - 1
    BY <1>1, <1>3, <1>11
  <2>2. CASE c \in 1 .. Last
    <3>1. c \in Handled + 1 .. Last /\ Sent(c, "set_compression")
      BY <1>1, <1>3, <1>11, <2>2 DEF Sent
    <3>2. sent[i].packet \in {"wrong_success", "garbage"} /\ sent[i].phase = "Login"
      BY <1>4, <3>1 DEF ZipSound
    <3> QED BY <2>1, <3>2
  <2>3. CASE c = Last + 1
    <3>1. frame.packet = "set_compression"
      BY <1>1, <1>11, <2>3
    <3>2. server.phase = "Login" /\ "set_compression" \notin server.done /\ Unanswered = {}
      BY <3>1, QuietCompression
    <3>3. sent[i].phase = "Login"
      BY <1>4, <2>1, <3>2 DEF OwedSound
    <3>4. sent[i].packet \in {"success", "wrong_success", "disconnect", "garbage",
                              "encryption_request", "set_compression"} \cup DOMAIN LoginReply
      BY <1>4, <2>1, <3>3 DEF LoginSound
    <3>5. sent[i].packet \notin DOMAIN LoginReply
      <4>1. i \in Handled + 1 .. Last
        BY <1>1, <1>3, <2>1
      <4> QED BY <3>2, <4>1 DEF Unanswered
    <3>6. sent[i].packet # "set_compression" /\ sent[i].packet # "disconnect"
      BY <1>4, <2>1, <3>2 DEF LoginSound, Sent, Closed
    <3>7. sent[i].packet \notin {"success", "encryption_request"}
      <4>1. ~(i <= Handled)
        BY <1>1, <1>3, <2>1
      <4> QED BY <1>3, <2>1, <4>1 DEF Acknowledgement
    <3> QED BY <2>1, <3>3, <3>4, <3>5, <3>6, <3>7
  <2> QED BY <1>1, <1>3, <1>11, <2>2, <2>3
<1>12. ASSUME ~server'.faulty, NEW i \in DOMAIN sent'
       PROVE  sent'[i].format =
                Format(\E c \in 1 .. i - 1 : sent'[c].packet = "set_compression", sent'[i].size)
  <2>1. PICK k : k = i - 1
    OBVIOUS
  <2>2. k \in 0 .. Last
    BY <1>1, <2>1
  <2>3. PICK before \in BOOLEAN : before <=> \E c \in 1 .. k : sent[c].packet = "set_compression"
    OBVIOUS
  <2>4. before = \E c \in 1 .. i - 1 : sent'[c].packet = "set_compression"
    BY <1>6, <2>1, <2>2, <2>3
  <2>5. sent'[i].format = Format(before, sent'[i].size)
    <3>1. CASE i = Last + 1
      <4>1. before = server.zip
        BY <1>1, <1>5, <1>7, <2>1, <2>3, <3>1
      <4> QED BY <1>1, <1>2, <1>12, <3>1, <4>1
    <3>2. CASE i # Last + 1
      <4>1. i \in DOMAIN sent /\ sent'[i] = sent[i] /\ ~server.faulty
        BY <1>1, <1>2, <1>12, <3>2
      <4>2. sent[i].format = Format(\E c \in 1 .. i - 1 : sent[c].packet = "set_compression", sent[i].size)
        BY <1>4, <4>1 DEF ZipSound, Sent
      <4>3. before = \E c \in 1 .. i - 1 : sent[c].packet = "set_compression"
        BY <2>1, <2>3
      <4> QED BY <4>1, <4>2, <4>3
    <3> QED BY <3>1, <3>2
  <2> QED BY <2>4, <2>5
<1> QED BY <1>1, <1>8, <1>9, <1>10, <1>11, <1>12 DEF ZipSound, Sent

LEMMA SendOwed ==
    ASSUME LoginType, Parts, NEW frame, Sends(frame)
    PROVE  OwedSound'
<1>1. /\ Last \in Nat /\ Last' = Last + 1 /\ sent'[Last + 1] = frame
      /\ \A i \in 1 .. Last : sent'[i] = sent[i]
      /\ DOMAIN sent = 1 .. Last /\ DOMAIN sent' = 1 .. Last + 1
      /\ UNCHANGED <<conn, client, outbox>> /\ Handled' = Handled
      /\ frame.phase = server.phase /\ server.awaits = None
      /\ server'.phase = IF frame.packet = "disconnect" THEN "Closed"
                         ELSE IF frame.packet = "login" THEN "Session" ELSE server.phase
  BY SendsFrame
<1>2. server'.owed = server.owed + (IF frame.packet \in DOMAIN LoginReply THEN 1 ELSE 0)
  BY DEF Sends
<1>3. Handled \in 0 .. Last /\ server.owed \in Nat
  BY SendsKnown, TypeParts DEF ServerRecord
<1>4. OwedSound
  BY DEF Parts
<1> SUFFICES ASSUME server'.phase = "Login"
             PROVE  /\ \A i \in DOMAIN sent' : sent'[i].phase = "Login"
                    /\ \A j \in DOMAIN outbox' :
                        /\ outbox'[j].packet \in LoginAnswer \cup {"client_information", "encryption_response",
                                                      "login_acknowledged"}
                        /\ outbox'[j].packet = "client_information" => server'.awaits = "login_acknowledged"
                    /\ server'.owed = Cardinality(Unanswered') + Cardinality(Unread')
  BY DEF OwedSound
<1>5. server.phase = "Login"
  BY <1>1
<1>6. \A i \in DOMAIN sent' : sent'[i].phase = "Login"
  <2> TAKE i \in DOMAIN sent'
  <2>1. i \in DOMAIN sent \/ i = Last + 1
    BY <1>1
  <2> QED BY <1>1, <1>4, <1>5, <2>1 DEF OwedSound
<1>7. \A j \in DOMAIN outbox' :
        /\ outbox'[j].packet \in LoginAnswer \cup {"client_information", "encryption_response",
                                                      "login_acknowledged"}
        /\ outbox'[j].packet = "client_information" => server'.awaits = "login_acknowledged"
  BY <1>1, <1>4, <1>5 DEF OwedSound, None
<1>8. Unread' = Unread
  BY <1>1 DEF Unread
<1>9. Unanswered' = IF frame.packet \in DOMAIN LoginReply THEN Unanswered \cup {Last + 1} ELSE Unanswered
  <2>1. Unanswered' = {i \in Handled + 1 .. Last + 1 : sent'[i].packet \in DOMAIN LoginReply}
    BY <1>1 DEF Unanswered
  <2>2. \A i \in Handled + 1 .. Last + 1 :
          (i \in Handled + 1 .. Last /\ i # Last + 1 /\ sent'[i] = sent[i]) \/ (i = Last + 1 /\ sent'[i] = frame)
    BY <1>1, <1>3
  <2>3. Handled + 1 .. Last + 1 = (Handled + 1 .. Last) \cup {Last + 1}
    BY <1>1, <1>3
  <2>4. CASE frame.packet \in DOMAIN LoginReply
    BY <2>1, <2>2, <2>3, <2>4 DEF Unanswered
  <2>5. CASE frame.packet \notin DOMAIN LoginReply
    <3>1. ASSUME NEW i \in Unanswered' PROVE i \in Unanswered
      <4>1. i \in Handled + 1 .. Last + 1 /\ sent'[i].packet \in DOMAIN LoginReply
        BY <2>1, <3>1
      <4>2. i \in Handled + 1 .. Last /\ sent'[i] = sent[i]
        BY <2>2, <2>5, <4>1
      <4> QED BY <4>1, <4>2 DEF Unanswered
    <3>2. ASSUME NEW i \in Unanswered PROVE i \in Unanswered'
      <4>1. i \in Handled + 1 .. Last /\ sent[i].packet \in DOMAIN LoginReply
        BY <3>2 DEF Unanswered
      <4>2. i \in Handled + 1 .. Last + 1 /\ i # Last + 1
        BY <1>1, <1>3, <4>1
      <4>3. sent'[i] = sent[i]
        BY <2>2, <4>2
      <4> QED BY <2>1, <4>1, <4>2, <4>3
    <3> QED BY <2>5, <3>1, <3>2
  <2> QED BY <2>4, <2>5
<1>10. Last + 1 \notin Unanswered
  BY <1>1, <1>3 DEF Unanswered
<1>11. IsFiniteSet(Unanswered) /\ Cardinality(Unanswered) \in Nat /\ Cardinality(Unread) \in Nat
  BY UnansweredFinite, FS_CardinalityType
<1>12. Cardinality(Unanswered \cup {Last + 1}) = Cardinality(Unanswered) + 1
  BY <1>10, <1>11, FS_AddElement
<1>13. server.owed = Cardinality(Unanswered) + Cardinality(Unread)
  BY <1>4, <1>5 DEF OwedSound
<1>14. server'.owed = Cardinality(Unanswered') + Cardinality(Unread')
  <2>1. CASE frame.packet \in DOMAIN LoginReply
    BY <1>2, <1>8, <1>9, <1>11, <1>12, <1>13, <2>1
  <2>2. CASE frame.packet \notin DOMAIN LoginReply
    BY <1>2, <1>3, <1>8, <1>9, <1>13, <2>2
  <2> QED BY <2>1, <2>2
<1> QED BY <1>6, <1>7, <1>14

LEMMA SendRegistries ==
    ASSUME LoginType, Parts, NEW frame, Sends(frame)
    PROVE  RegistriesSound'
<1>1. /\ Last \in Nat /\ Last' = Last + 1 /\ sent'[Last + 1] = frame
      /\ \A i \in 1 .. Last : sent'[i] = sent[i]
      /\ DOMAIN sent = 1 .. Last /\ DOMAIN sent' = 1 .. Last + 1
      /\ UNCHANGED <<conn, client, outbox>> /\ Handled' = Handled
      /\ frame.phase = server.phase /\ Lawful(frame.packet)
  BY SendsFrame
<1>2. /\ server'.awaits = IF frame.packet \in DOMAIN Acknowledgement
                               THEN Acknowledgement[frame.packet] ELSE None
      /\ server'.phase = IF frame.packet = "disconnect" THEN "Closed"
                              ELSE IF frame.packet = "login" THEN "Session" ELSE server.phase
  BY SendsFrame
<1>3. Handled \in 0 .. Last
  BY SendsKnown
<1>4. RegistriesSound
  BY DEF Parts
<1>5. ASSUME NEW r \in Registries, NEW v, LatestIs(r, Handled, v)
      PROVE  LatestIs(r, Handled, v)'
  <2>1. v \in 0 .. Handled /\ (v > 0 => sent[v].packet = r)
        /\ \A i \in v + 1 .. Handled : sent[i].packet # r
    BY <1>5 DEF LatestIs, Sent
  <2>2. v > 0 => sent'[v] = sent[v]
    BY <1>1, <1>3, <2>1
  <2>3. \A i \in v + 1 .. Handled : sent'[i] = sent[i]
    BY <1>1, <1>3, <2>1
  <2> QED BY <1>1, <2>1, <2>2, <2>3 DEF LatestIs, Sent
<1>6. \A r \in Registries : LatestIs(r, Handled, Merged(client.registries, client.phase)[r])'
  <2> TAKE r \in Registries
  <2>1. PICK v : v = Merged(client.registries, client.phase)[r]
    OBVIOUS
  <2>2. LatestIs(r, Handled, v)
    BY <1>4, <2>1 DEF RegistriesSound
  <2>3. LatestIs(r, Handled, v)'
    BY <1>5, <2>2
  <2>4. v = Merged(client.registries, client.phase)[r]'
    BY <1>1, <2>1 DEF Merged
  <2> QED BY <2>3, <2>4 DEF LatestIs, Sent
<1>7. frame.packet = "login" => server.phase = "Play"
  BY <1>1 DEF Lawful
<1>8. ASSUME NEW i \in DOMAIN sent, Sent(i, "login") PROVE server.phase = "Session"
  BY <1>1, <1>4, <1>8 DEF RegistriesSound, Lawful
<1>9. server.phase = "Session" => frame.packet \notin DOMAIN Acknowledgement
  BY <1>1 DEF Lawful, Acknowledgement
<1>10. ASSUME NEW i \in DOMAIN sent', sent'[i].packet = "login"
       PROVE  server'.phase \in {"Session", "Closed"} /\ server'.awaits = None
  <2>1. CASE i = Last + 1
    BY <1>1, <1>2, <1>10, <2>1 DEF Acknowledgement
  <2>2. CASE i # Last + 1
    <3>1. server.phase = "Session"
      BY <1>1, <1>8, <1>10, <2>2 DEF Sent
    <3> QED BY <1>2, <1>9, <3>1
  <2> QED BY <2>1, <2>2
<1>11. ASSUME NEW i \in DOMAIN sent', NEW k \in DOMAIN sent', sent'[i].packet = "login", i < k
       PROVE  sent'[k].phase = "Session"
  <2>1. i \in DOMAIN sent /\ sent[i].packet = "login"
    BY <1>1, <1>11
  <2>2. CASE k = Last + 1
    BY <1>1, <1>8, <2>1, <2>2 DEF Sent
  <2>3. CASE k # Last + 1
    <3>1. k \in DOMAIN sent /\ sent'[k] = sent[k]
      BY <1>1, <2>3
    <3> QED BY <1>4, <1>11, <2>1, <3>1 DEF RegistriesSound, Sent
  <2> QED BY <2>2, <2>3
<1>12. client.state = "Session" => \E i \in 1 .. Handled : sent'[i].packet = "login"
  <2> SUFFICES ASSUME client.state = "Session" PROVE \E i \in 1 .. Handled : sent'[i].packet = "login"
    OBVIOUS
  <2>1. PICK i \in 1 .. Handled : sent[i].packet = "login"
    BY <1>4 DEF RegistriesSound, Sent
  <2>2. i \in 1 .. Last
    BY <1>1, <1>3
  <2> QED BY <1>1, <2>1, <2>2
<1>13. client.state # "Configuration" => client.phase = [r \in Registries |-> 0]
  BY <1>4 DEF RegistriesSound
<1> QED BY <1>1, <1>6, <1>10, <1>11, <1>12, <1>13 DEF RegistriesSound, Sent

\* What a step keeps that touches neither the packets nor what the login has learnt.
SameLogin ==
    /\ client'.kind = client.kind /\ client'.state = client.state /\ client'.log = client.log
    /\ client'.phase = client.phase /\ client'.registries = client.registries
    /\ conn'.encryptor = conn.encryptor /\ conn'.threshold = conn.threshold
    /\ UNCHANGED <<outbox, sent, server>>

LEMMA KeptParts ==
    ASSUME Parts, SameLogin
    PROVE  /\ PhasesSound' /\ FramesPlaced' /\ KindSound' /\ AcksSound' /\ WritesSound'
           /\ ZipSound' /\ OwedSound' /\ RegistriesSound' /\ LoginSound'
<1>1. /\ Handled' = Handled /\ Last' = Last /\ (Closed' <=> Closed)
      /\ outbox' = outbox /\ sent' = sent /\ server' = server
      /\ Unanswered' = Unanswered /\ Unread' = Unread
  BY DEF SameLogin, Handled, Last, Closed, Unanswered, Unread
<1>2. /\ client'.kind = client.kind /\ client'.state = client.state
      /\ client'.phase = client.phase /\ client'.registries = client.registries
      /\ conn'.encryptor = conn.encryptor /\ conn'.threshold = conn.threshold
  BY DEF SameLogin
<1>3. PhasesSound'
  <2>1. \A i : StateAfter(i)' = StateAfter(i)
    BY <1>1, <1>2, Zenon DEF StateAfter, First
  <2>2. StateAfter(Handled)' = StateAfter(Handled) /\ StateAfter(Last)' = StateAfter(Last)
    BY <1>1, <1>2, Zenon DEF StateAfter, First
  <2>3. \A i \in DOMAIN sent : StateFor(sent[i].phase) = StateAfter(i - 1)'
    <3> TAKE i \in DOMAIN sent
    <3>1. StateAfter(i - 1)' = StateAfter(i - 1)
      BY <1>1, <1>2, Zenon DEF StateAfter, First
    <3> QED BY <3>1 DEF Parts, PhasesSound
  <2>4. PhasesSound
    BY DEF Parts
  <2> QED BY <1>1, <1>2, <2>2, <2>3, <2>4 DEF PhasesSound, StateFor
<1>4. FramesPlaced'
  BY <1>1 DEF Parts, FramesPlaced
<1>5. KindSound'
  BY <1>1, <1>2 DEF Parts, KindSound
<1>6. AcksSound'
  BY <1>1 DEF Parts, AcksSound, Sent
<1>7. WritesSound'
  BY <1>1, <1>2 DEF Parts, WritesSound
<1>8. ZipSound'
  <2>1. ZipSound
    BY DEF Parts
  <2> QED BY <1>1, <1>2, <2>1 DEF ZipSound, Sent
<1>9. OwedSound'
  BY <1>1 DEF Parts, OwedSound
<1>10. RegistriesSound'
  <2>1. RegistriesSound
    BY DEF Parts
  <2>2. \A r \in Registries : LatestIs(r, Handled, Merged(client.registries, client.phase)[r])'
    BY <1>1, <1>2, <2>1 DEF RegistriesSound, LatestIs, Sent, Merged
  <2> QED BY <1>1, <1>2, <2>1, <2>2 DEF RegistriesSound, Sent
<1>11. LoginSound'
  BY <1>1 DEF Parts, LoginSound, Sent
<1> QED BY <1>3, <1>4, <1>5, <1>6, <1>7, <1>8, <1>9, <1>10, <1>11

LEMMA ReceiveKeys ==
    ASSUME LoginType, LoginType', Parts, NEW n, Receives(n)
    PROVE  KeysSound'
<1>1. /\ Len(wire') = Len(wire) - n /\ n \in 1 .. Len(wire)
      /\ \A i \in 1 .. Len(wire) - n : wire'[i] = wire[i + n]
      /\ conn'.decryptor = IF conn.decryptor = 0 THEN 0 ELSE conn.decryptor + n
      /\ conn'.encryptor = conn.encryptor
  BY ReceivedType
<1>2. UNCHANGED <<client, outbox, sent, server>> /\ Handled' = Handled
  BY DEF Receives, Handled
<1>3. Len(wire) \in Nat /\ DOMAIN wire = 1 .. Len(wire) /\ conn.decryptor \in Nat
      /\ DOMAIN wire' = 1 .. Len(wire') /\ n \in Nat \ {0}
  <2>1. wire \in WireType /\ wire' \in WireType /\ conn \in ConnRecord
    BY TypeParts, TypePartsNext
  <2>2. Len(wire) \in Nat /\ DOMAIN wire = 1 .. Len(wire) /\ conn.decryptor \in Nat
        /\ DOMAIN wire' = 1 .. Len(wire')
    BY <2>1 DEF WireType, ConnRecord
  <2> QED BY <1>1, <2>2
<1>4. KeysSound
  BY DEF Parts
<1>5. wire # <<>>
  BY <1>1, <1>3
<1>6. conn'.decryptor # 0 <=> conn.decryptor # 0
  BY <1>1, <1>3
<1>7. \A i \in DOMAIN wire' : wire'[i][3] = IF conn'.decryptor = 0 THEN 0 ELSE conn'.decryptor + i - 1
  <2> TAKE i \in DOMAIN wire'
  <2>1. i \in 1 .. Len(wire) - n /\ i + n \in DOMAIN wire
    BY <1>1, <1>3
  <2>2. PICK k : k = i + n
    OBVIOUS
  <2>3. wire'[i] = wire[k] /\ k \in DOMAIN wire
    BY <1>1, <2>1, <2>2
  <2>4. wire[k][3] = IF conn.decryptor = 0 THEN 0 ELSE conn.decryptor + k - 1
    BY <1>4, <2>3 DEF KeysSound
  <2> QED BY <1>1, <1>3, <2>1, <2>2, <2>3, <2>4
<1>8. conn'.decryptor # 0 => server.key = conn'.decryptor + Len(wire')
  <2>1. conn.decryptor # 0 => server.key = conn.decryptor + Len(wire)
    BY <1>4, <1>5 DEF KeysSound
  <2> QED BY <1>1, <1>3, <2>1
<1>9. /\ conn.encryptor <=> conn.decryptor # 0
      /\ conn.decryptor # 0 => \E i \in 1 .. Handled : Sent(i, "encryption_request")
      /\ conn.decryptor = 0 => server.key = 0
      /\ ~Closed => \A j \in DOMAIN outbox : outbox[j].packet # "encryption_response"
  BY <1>4, <1>5 DEF KeysSound
<1> QED BY <1>1, <1>2, <1>6, <1>7, <1>8, <1>9 DEF KeysSound, Closed, Sent

\* A read of the socket.
LEMMA ReceiveParts ==
    ASSUME LoginType, LoginType', Parts, NEW n, Receives(n)
    PROVE  Parts' /\ SameLogin
<1>1. SameLogin
  BY ReceivedType DEF Receives, SameLogin
<1>2. StreamSound' /\ KeysSound'
  BY ReceiveStream, ReceiveKeys DEF Parts
<1> QED BY <1>1, <1>2, KeptParts DEF Parts

\* The task waits, or nothing happens.
LEMMA RestParts ==
    ASSUME LoginType, Parts, UNCHANGED <<conn, wire, outbox, sent, server>>,
           UNCHANGED client \/ \E waiting : Waits(waiting)
    PROVE  Parts' /\ SameLogin
<1>1. SameLogin
  <2>1. client \in ClientRecord
    BY TypeParts
  <2> QED BY <2>1 DEF SameLogin, Waits, ClientRecord
<1>2. StreamSound'
  BY <1>1, SameStream DEF Parts, SameLogin, Handled
<1>3. KeysSound'
  BY <1>1 DEF Parts, KeysSound, SameLogin, Handled, Closed, Sent
<1> QED BY <1>1, <1>2, <1>3, KeptParts DEF Parts

\* The server hangs up.
LEMMA CloseParts ==
    ASSUME LoginType, Parts, ServerCloses
    PROVE  Parts'
<1>1. /\ UNCHANGED <<conn, client, wire, outbox, sent>> /\ server.phase # "Handshake"
      /\ server' = [server EXCEPT !.phase = "Closed", !.awaits = None]
  BY DEF ServerCloses
<1>2. server \in ServerRecord
  BY TypeParts
<1>3. /\ server'.phase = "Closed" /\ server'.awaits = None /\ server'.key = server.key
      /\ server'.zip = server.zip /\ server'.inZip = server.inZip /\ server'.done = server.done
      /\ server'.faulty = server.faulty /\ Closed' /\ Handled' = Handled /\ Last' = Last
  BY <1>1, <1>2 DEF ServerRecord, Closed, Handled, Last
<1>4. StreamSound'
  BY <1>1, <1>3, SameStream DEF Parts
<1>5. KeysSound'
  <2>1. KeysSound
    BY DEF Parts
  <2> QED BY <1>1, <1>3, <2>1 DEF KeysSound, Sent
<1>6. PhasesSound'
  <2>1. PhasesSound
    BY DEF Parts
  <2>2. client.state # "Handshake"
    BY <1>1, <2>1 DEF PhasesSound
  <2>3. StateAfter(Handled)' = StateAfter(Handled)
    BY <1>1, <1>3, Zenon DEF StateAfter, First
  <2>4. \A i \in DOMAIN sent : StateFor(sent[i].phase) = StateAfter(i - 1)'
    <3> TAKE i \in DOMAIN sent
    <3>1. StateAfter(i - 1)' = StateAfter(i - 1)
      BY <1>1, Zenon DEF StateAfter, First
    <3> QED BY <2>1, <3>1 DEF PhasesSound
  <2> QED BY <1>1, <1>3, <2>1, <2>2, <2>3, <2>4 DEF PhasesSound, StateFor
<1>7. FramesPlaced' /\ LoginSound'
  <2>1. FramesPlaced'
    BY <1>1 DEF Parts, FramesPlaced
  <2>2. LoginSound'
    BY <1>1, <1>3 DEF Parts, LoginSound, Sent
  <2> QED BY <2>1, <2>2
<1>8. KindSound'
  BY <1>1, <1>3 DEF Parts, KindSound
<1>9. AcksSound'
  <2>1. AcksSound
    BY DEF Parts
  <2> QED BY <1>1, <1>3, <2>1 DEF AcksSound, Sent
<1>10. WritesSound' /\ OwedSound'
  BY <1>3 DEF WritesSound, OwedSound, Closed
<1>11. ZipSound'
  <2>1. ZipSound
    BY DEF Parts
  <2>2. /\ sent' = sent /\ conn' = conn /\ Handled' = Handled /\ Last' = Last
        /\ server'.zip = server.zip /\ server'.inZip = server.inZip /\ server'.faulty = server.faulty
    BY <1>1, <1>3
  <2> QED BY <2>1, <2>2 DEF ZipSound, Sent
<1>12. RegistriesSound'
  <2>1. RegistriesSound
    BY DEF Parts
  <2>2. \A r \in Registries : LatestIs(r, Handled, Merged(client.registries, client.phase)[r])'
    BY <1>1, <1>3, <2>1 DEF RegistriesSound, LatestIs, Sent, Merged
  <2> QED BY <1>1, <1>3, <2>1, <2>2 DEF RegistriesSound, Sent
<1> QED BY <1>4, <1>5, <1>6, <1>7, <1>8, <1>9, <1>10, <1>11, <1>12 DEF Parts

\* The connection is made: nothing has been sent yet in either direction.
LEMMA ConnectParts ==
    ASSUME LoginType, Parts, Connects
    PROVE  Parts' /\ Handled' = Handled /\ Last' = Last
<1>1. PICK second \in {"status_request", "login_start"} :
        /\ Write(<<"handshake", second>>)
        /\ client' = [client EXCEPT !.state = IF second = "status_request" THEN "Status" ELSE "Login"]
        /\ client.kind = "status" <=> second = "status_request"
  BY DEF Connects
<1>2. /\ client.state = "Handshake" /\ UNCHANGED <<conn, wire, sent, server>>
  BY DEF Connects
<1>3. /\ client'.state = (IF second = "status_request" THEN "Status" ELSE "Login")
      /\ client'.kind = client.kind /\ client'.log = client.log
      /\ client'.registries = client.registries /\ client'.phase = client.phase
  <2>1. client \in ClientRecord
    BY TypeParts
  <2> QED BY <1>1, <2>1 DEF ClientRecord
<1>4. /\ Handled' = Handled /\ Last' = Last /\ (Closed' <=> Closed)
      /\ sent' = sent /\ server' = server /\ conn' = conn /\ wire' = wire
  BY <1>2, <1>3 DEF Handled, Last, Closed
<1>5. /\ server.phase = "Handshake" /\ outbox = <<>> /\ sent = <<>> /\ server.awaits = None
  BY <1>2 DEF Parts, PhasesSound
<1>6. Last = 0 /\ Handled = 0 /\ DOMAIN sent = {}
  <2>1. Last = 0 /\ Handled \in Nat /\ Handled <= Last
    BY <1>5 DEF Parts, StreamSound, Last, Handled, LoginType
  <2> QED BY <1>5, <2>1
<1>7. /\ Len(outbox') = 2 /\ DOMAIN outbox' = 1 .. 2
      /\ outbox'[1] = [packet |-> "handshake", enc |-> conn.encryptor, zip |-> conn.threshold # 0]
      /\ outbox'[2] = [packet |-> second, enc |-> conn.encryptor, zip |-> conn.threshold # 0]
  <2>1. PICK packets : packets = <<"handshake", second>>
    OBVIOUS
  <2>2. packets \in Seq(Written) /\ Len(packets) = 2 /\ DOMAIN packets = 1 .. 2
        /\ packets[1] = "handshake" /\ packets[2] = second
    BY <2>1 DEF Written, Opening
  <2>3. Write(packets)
    BY <1>1, <2>1
  <2>4. /\ outbox' \in Seq(OutPacket) /\ Len(outbox') = Len(outbox) + Len(packets)
        /\ \A i \in DOMAIN packets :
                outbox'[Len(outbox) + i] = [packet |-> packets[i], enc |-> conn.encryptor,
                                            zip |-> conn.threshold # 0]
    BY <2>2, <2>3, WriteType
  <2>5. Len(outbox) = 0
    BY <1>5
  <2>6. Len(outbox') = 2 /\ DOMAIN outbox' = 1 .. 2
    BY <2>2, <2>4, <2>5
  <2>7. outbox'[0 + 1] = [packet |-> packets[1], enc |-> conn.encryptor, zip |-> conn.threshold # 0]
        /\ outbox'[0 + 2] = [packet |-> packets[2], enc |-> conn.encryptor, zip |-> conn.threshold # 0]
    BY <2>2, <2>4, <2>5
  <2> QED BY <2>2, <2>6, <2>7
<1>8. \A j \in DOMAIN outbox' :
        /\ outbox'[j].packet \in {"handshake", second}
        /\ outbox'[j].packet # "handshake" => j = 2
        /\ outbox'[j].enc = conn.encryptor /\ outbox'[j].zip = (conn.threshold # 0)
  BY <1>7
<1>9. StreamSound'
  BY <1>2, <1>4, SameStream DEF Parts
<1>10. KeysSound'
  <2>1. KeysSound
    BY DEF Parts
  <2>2. \A j \in DOMAIN outbox' : outbox'[j].packet # "encryption_response"
    BY <1>8
  <2> QED BY <1>4, <2>1, <2>2 DEF KeysSound, Sent
<1>11. PhasesSound'
  <2>1. client'.state = StateAfter(Handled)' /\ client'.state # "Handshake"
    BY <1>1, <1>3, <1>4, <1>6 DEF StateAfter, First
  <2>2. \A j \in DOMAIN outbox' :
          /\ outbox'[j].packet \in Opening
          /\ outbox'[j].packet # "handshake" => j = Len(outbox')
          /\ outbox'[j].packet = "status_request" => client'.kind = "status"
          /\ outbox'[j].packet = "login_start" => client'.kind # "status"
    BY <1>1, <1>3, <1>7, <1>8 DEF Opening
  <2>3. server.owed = 0
    BY <1>5 DEF Parts, PhasesSound
  <2> QED BY <1>4, <1>5, <1>6, <2>1, <2>2, <2>3 DEF PhasesSound
<1>12. FramesPlaced' /\ LoginSound' /\ KindSound' /\ AcksSound'
  <2>1. FramesPlaced' /\ LoginSound'
    BY <1>4, <1>6 DEF FramesPlaced, LoginSound
  <2>2. KindSound'
    BY <1>3, <1>4, <1>5, <1>6, <1>8 DEF KindSound
  <2>3. AcksSound'
    BY <1>4, <1>5, <1>6, <1>8 DEF AcksSound, Acknowledgements
  <2> QED BY <2>1, <2>2, <2>3
<1>13. WritesSound'
  <2>1. WritesSound /\ ZipSound
    BY DEF Parts
  <2>2. conn.encryptor <=> server.inKey
    <3>1. DOMAIN outbox = {} /\ ~Closed
      BY <1>5 DEF Closed
    <3> QED BY <2>1, <3>1 DEF WritesSound
  <2>3. conn.threshold # 0 <=> server.inZip
    <3>1. conn.threshold = 0
      <4>1. ~(\E c \in 1 .. Handled : Sent(c, "set_compression"))
        BY <1>6
      <4> QED BY <2>1, <4>1 DEF ZipSound
    <3>2. ~server.inZip
      BY <1>6, <2>1 DEF ZipSound
    <3> QED BY <3>1, <3>2
  <2>4. \A j \in DOMAIN outbox' : outbox'[j].packet # "encryption_response"
    BY <1>8
  <2>5. \A j \in DOMAIN outbox' : \A k \in 1 .. j - 1 : outbox'[k].packet # "encryption_response"
    BY <1>7, <2>4
  <2> QED BY <1>4, <1>8, <2>2, <2>3, <2>4, <2>5 DEF WritesSound
<1>14. ZipSound'
  <2>1. ZipSound
    BY DEF Parts
  <2> QED BY <1>4, <2>1 DEF ZipSound, Sent
<1>15. OwedSound'
  BY <1>4, <1>5 DEF OwedSound
<1>16. RegistriesSound'
  <2>1. RegistriesSound
    BY DEF Parts
  <2>2. \A r \in Registries : LatestIs(r, Handled, Merged(client.registries, client.phase)[r])'
    BY <1>3, <1>4, <2>1 DEF RegistriesSound, LatestIs, Sent, Merged
  <2>3. client'.phase = [r \in Registries |-> 0] /\ client'.state # "Session"
    BY <1>2, <1>3, <2>1 DEF RegistriesSound
  <2> QED BY <1>4, <1>6, <2>2, <2>3 DEF RegistriesSound, Sent
<1> QED BY <1>4, <1>9, <1>10, <1>11, <1>12, <1>13, <1>14, <1>15, <1>16 DEF Parts

\* What the invariant says of a packet that the server reads.
LEMMA ReadsKnown ==
    ASSUME LoginType, Parts, NEW got, Reads(got)
    PROVE  /\ Len(outbox) \in Nat \ {0} /\ DOMAIN outbox = 1 .. Len(outbox) /\ got = outbox[1]
           /\ Len(outbox') = Len(outbox) - 1 /\ DOMAIN outbox' = 1 .. Len(outbox) - 1
           /\ \A j \in DOMAIN outbox' : j + 1 \in DOMAIN outbox /\ outbox'[j] = outbox[j + 1]
           /\ \A j \in DOMAIN outbox : j # 1 => j - 1 \in DOMAIN outbox'
           /\ UNCHANGED <<conn, client, wire, sent>> /\ Handled' = Handled /\ Last' = Last
           /\ server.phase # "Closed" /\ client.state # "Handshake"
           /\ got.packet \in Written
           /\ Handled \in 0 .. Last /\ Last \in Nat /\ DOMAIN sent = 1 .. Last
<1>1. /\ Len(outbox) > 0 /\ got = outbox[1] /\ got \in OutPacket
      /\ outbox' \in Seq(OutPacket) /\ Len(outbox') = Len(outbox) - 1
      /\ \A j \in 1 .. Len(outbox) - 1 : outbox'[j] = outbox[j + 1]
      /\ UNCHANGED <<conn, client, wire, sent>> /\ server.phase # "Closed"
  BY DEF Reads, Closed
<1>2. Len(outbox) \in Nat \ {0} /\ DOMAIN outbox = 1 .. Len(outbox) /\ DOMAIN outbox' = 1 .. Len(outbox) - 1
  <2>1. outbox \in Seq(OutPacket)
    BY TypeParts
  <2> QED BY <1>1, <2>1
<1>3. \A j \in DOMAIN outbox' : j + 1 \in DOMAIN outbox /\ outbox'[j] = outbox[j + 1]
  BY <1>1, <1>2
<1>4. \A j \in DOMAIN outbox : j # 1 => j - 1 \in DOMAIN outbox'
  BY <1>2
<1>5. client.state # "Handshake"
  <2>1. outbox # <<>>
    BY <1>1
  <2> QED BY <2>1 DEF Parts, PhasesSound
<1>6. Handled' = Handled /\ Last' = Last
  BY <1>1 DEF Handled, Last
<1>7. Handled \in 0 .. Last /\ Last \in Nat /\ DOMAIN sent = 1 .. Last
  <2>1. Handled \in Nat /\ Last \in Nat /\ DOMAIN sent = 1 .. Last
    BY DEF LoginType, Handled, Last
  <2> QED BY <2>1 DEF Parts, StreamSound
<1> QED BY <1>1, <1>2, <1>3, <1>4, <1>5, <1>6, <1>7 DEF OutPacket

\* What the invariant says of the server that reads it.
LEMMA ReaderKnown ==
    ASSUME LoginType, Parts, NEW got, Reads(got)
    PROVE  /\ server.phase # "Handshake" => got.packet \notin Opening
           /\ server.phase = "Handshake" =>
                /\ got.packet \in Opening /\ Last = 0 /\ server.awaits = None /\ server.owed = 0
                /\ got.packet # "handshake" => Len(outbox) = 1
                /\ got.packet = "status_request" => client.kind = "status"
                /\ got.packet = "login_start" => client.kind # "status"
           /\ got.packet \in Acknowledgements =>
                /\ server.awaits = got.packet /\ Handled = Last
                /\ \A j \in DOMAIN outbox' : outbox'[j].packet \notin Acknowledgements
           /\ server'.awaits = IF got.packet \in Acknowledgements THEN None ELSE server.awaits
           /\ server.awaits # None =>
                /\ Last > 0 /\ sent[Last].packet \in DOMAIN Acknowledgement
                /\ server.awaits = Acknowledgement[sent[Last].packet]
                /\ server.phase = sent[Last].phase
                /\ server.phase \in {"Login", "Configuration", "Play"}
           /\ got.packet = "ping" => /\ client.kind = "status" /\ server.awaits = None
                                     /\ server.phase \in {"Status", "Ping"}
<1>1. /\ Len(outbox) \in Nat \ {0} /\ 1 \in DOMAIN outbox /\ got = outbox[1]
      /\ \A j \in DOMAIN outbox' : j + 1 \in DOMAIN outbox /\ outbox'[j] = outbox[j + 1]
      /\ server.phase # "Closed" /\ DOMAIN outbox' = 1 .. Len(outbox) - 1
      /\ Last \in Nat /\ DOMAIN sent = 1 .. Last
  BY ReadsKnown
<1>2. server \in ServerRecord
  BY TypeParts
<1>3. server.phase # "Handshake" => got.packet \notin Opening
  BY <1>1 DEF Parts, PhasesSound
<1>4. server.phase = "Handshake" =>
        /\ got.packet \in Opening /\ Last = 0 /\ server.awaits = None /\ server.owed = 0
        /\ got.packet # "handshake" => Len(outbox) = 1
        /\ got.packet = "status_request" => client.kind = "status"
        /\ got.packet = "login_start" => client.kind # "status"
  <2>1. PhasesSound
    BY DEF Parts
  <2> QED BY <1>1, <2>1 DEF PhasesSound, Last
<1>5. got.packet \in Acknowledgements =>
        /\ server.awaits = got.packet /\ Handled = Last
        /\ \A j \in DOMAIN outbox' : outbox'[j].packet \notin Acknowledgements
  <2> SUFFICES ASSUME got.packet \in Acknowledgements
               PROVE  /\ server.awaits = got.packet /\ Handled = Last
                      /\ \A j \in DOMAIN outbox' : outbox'[j].packet \notin Acknowledgements
    OBVIOUS
  <2>1. AcksSound /\ ~Closed
    BY <1>1 DEF Parts, Closed
  <2>2. /\ server.awaits = got.packet /\ Handled = Last
        /\ \A k \in DOMAIN outbox : outbox[k].packet \in Acknowledgements => k = 1
    BY <1>1, <2>1 DEF AcksSound
  <2>3. ASSUME NEW j \in DOMAIN outbox' PROVE outbox'[j].packet \notin Acknowledgements
    <3>1. j + 1 \in DOMAIN outbox /\ outbox'[j] = outbox[j + 1] /\ j + 1 # 1
      BY <1>1
    <3> QED BY <2>2, <3>1
  <2> QED BY <2>2, <2>3
<1>6. server'.awaits = IF got.packet \in Acknowledgements THEN None ELSE server.awaits
  <2>1. server'.awaits = IF server.awaits = got.packet THEN None ELSE server.awaits
    BY DEF Reads
  <2>2. server.awaits \in Acknowledgements \cup {None}
    BY <1>2 DEF ServerRecord
  <2> QED BY <1>5, <2>1, <2>2
<1>7. server.awaits # None =>
        /\ Last > 0 /\ sent[Last].packet \in DOMAIN Acknowledgement
        /\ server.awaits = Acknowledgement[sent[Last].packet]
        /\ server.phase = sent[Last].phase
        /\ server.phase \in {"Login", "Configuration", "Play"}
  <2> SUFFICES ASSUME server.awaits # None
               PROVE  /\ Last > 0 /\ sent[Last].packet \in DOMAIN Acknowledgement
                      /\ server.awaits = Acknowledgement[sent[Last].packet]
                      /\ server.phase = sent[Last].phase
                      /\ server.phase \in {"Login", "Configuration", "Play"}
    OBVIOUS
  <2>1. /\ Last > 0 /\ sent[Last].packet \in DOMAIN Acknowledgement
        /\ server.awaits = Acknowledgement[sent[Last].packet]
        /\ server.phase = sent[Last].phase
    BY DEF Parts, AcksSound
  <2>2. Last \in DOMAIN sent
    BY <1>1, <2>1
  <2>3. sent[Last].phase \in {"Login", "Configuration", "Play"}
    <3>1. sent[Last].packet \in {"encryption_request", "success", "finish", "start_configuration"}
      BY <2>1 DEF Acknowledgement
    <3> QED BY <2>2, <3>1 DEF Parts, FramesPlaced
  <2> QED BY <2>1, <2>3
<1>8. got.packet = "ping" => /\ client.kind = "status" /\ server.awaits = None
                             /\ server.phase \in {"Status", "Ping"}
  <2> SUFFICES ASSUME got.packet = "ping"
               PROVE  client.kind = "status" /\ server.awaits = None /\ server.phase \in {"Status", "Ping"}
    OBVIOUS
  <2>1. KindSound
    BY DEF Parts
  <2>2. client.kind = "status"
    BY <1>1, <2>1 DEF KindSound
  <2>3. server.phase # "Handshake"
    BY <1>4 DEF Opening
  <2>4. server.phase \in {"Status", "Ping"}
    BY <1>1, <2>1, <2>2, <2>3 DEF KindSound
  <2> QED BY <1>7, <2>2, <2>4
<1> QED BY <1>3, <1>4, <1>5, <1>6, <1>7, <1>8

LEMMA ReadKeys ==
    ASSUME LoginType, Parts, NEW got, Reads(got)
    PROVE  KeysSound'
<1>1. /\ 1 \in DOMAIN outbox /\ got = outbox[1]
      /\ \A j \in DOMAIN outbox' : j + 1 \in DOMAIN outbox /\ outbox'[j] = outbox[j + 1]
      /\ UNCHANGED <<conn, client, wire, sent>> /\ Handled' = Handled
      /\ ~Closed
  BY ReadsKnown DEF Closed
<1>2. server'.awaits = IF got.packet \in Acknowledgements THEN None ELSE server.awaits
  BY ReaderKnown
<1>3. server'.key = IF got.packet = "encryption_response" THEN 1 ELSE server.key
  BY DEF Reads
<1>4. KeysSound
  BY DEF Parts
<1>5. /\ conn.encryptor <=> conn.decryptor # 0
      /\ conn.decryptor # 0 => \E i \in 1 .. Handled : Sent(i, "encryption_request")
      /\ \A i \in DOMAIN wire : wire[i][3] = IF conn.decryptor = 0 THEN 0 ELSE conn.decryptor + i - 1
      /\ \A j \in DOMAIN outbox : outbox[j].packet = "encryption_response" =>
           wire = <<>> /\ conn.decryptor = 1
  BY <1>1, <1>4 DEF KeysSound
<1>6. CASE got.packet = "encryption_response"
  <2>1. wire = <<>> /\ conn.decryptor = 1 /\ Len(wire) = 0
    BY <1>1, <1>5, <1>6
  <2>2. server'.key = conn.decryptor + Len(wire)
    BY <1>3, <1>6, <2>1
  <2> QED BY <1>1, <1>5, <2>1, <2>2 DEF KeysSound, Sent
<1>7. CASE got.packet # "encryption_response"
  <2>1. server'.key = server.key
    BY <1>3, <1>7
  <2>2. server.awaits = "encryption_response" => server'.awaits = "encryption_response"
    <3>1. got.packet \in Acknowledgements => server.awaits = got.packet
      BY ReaderKnown
    <3> QED BY <1>2, <1>7, <3>1
  <2>3. /\ conn.decryptor = 0 => server.key = 0
        /\ conn.decryptor # 0 =>
            \/ server.key = conn.decryptor + Len(wire)
            \/ /\ server.key = 0 /\ wire = <<>> /\ conn.decryptor = 1
               /\ server.awaits = "encryption_response"
    BY <1>1, <1>4 DEF KeysSound
  <2> QED BY <1>1, <1>5, <2>1, <2>2, <2>3 DEF KeysSound, Sent
<1> QED BY <1>6, <1>7

LEMMA ReadPhases ==
    ASSUME LoginType, Parts, NEW got, Reads(got)
    PROVE  PhasesSound'
<1>1. /\ Len(outbox) \in Nat \ {0} /\ DOMAIN outbox = 1 .. Len(outbox) /\ got = outbox[1]
      /\ Len(outbox') = Len(outbox) - 1 /\ DOMAIN outbox' = 1 .. Len(outbox) - 1
      /\ \A j \in DOMAIN outbox' : j + 1 \in DOMAIN outbox /\ outbox'[j] = outbox[j + 1]
      /\ UNCHANGED <<conn, client, wire, sent>> /\ Handled' = Handled /\ Last' = Last
      /\ server.phase # "Closed" /\ client.state # "Handshake" /\ got.packet \in Written
  BY ReadsKnown
<1>2. PhasesSound
  BY DEF Parts
<1>3. server'.phase = PhaseOnRead(got.packet)
      /\ server'.owed = IF got.packet \in LoginAnswer /\ server.owed > 0 THEN server.owed - 1
                        ELSE server.owed
  BY DEF Reads
<1>4. server'.awaits = IF got.packet \in Acknowledgements THEN None ELSE server.awaits
  BY ReaderKnown
<1>5. \A i \in DOMAIN sent : StateFor(sent[i].phase) = StateAfter(i - 1)'
  <2> TAKE i \in DOMAIN sent
  <2>1. StateAfter(i - 1)' = StateAfter(i - 1)
    BY <1>1, Zenon DEF StateAfter, First
  <2> QED BY <1>2, <2>1 DEF PhasesSound
<1>6. StateAfter(Handled)' = StateAfter(Handled) /\ StateAfter(Last)' = StateAfter(Last)
  BY <1>1, Zenon DEF StateAfter, First
<1>7. server'.phase \notin {"Handshake", "Closed"} /\ server'.awaits = None =>
        StateFor(server'.phase) = StateAfter(Last)
  <2> SUFFICES ASSUME server'.phase \notin {"Handshake", "Closed"}, server'.awaits = None
               PROVE  StateFor(server'.phase) = StateAfter(Last)
    OBVIOUS
  <2>1. CASE server.phase = "Handshake"
    <3>1. /\ got.packet \in Opening /\ Last = 0
          /\ got.packet = "status_request" => client.kind = "status"
          /\ got.packet = "login_start" => client.kind # "status"
      BY <2>1, ReaderKnown
    <3>2. got.packet # "handshake"
      BY <1>3, <2>1 DEF PhaseOnRead
    <3> QED BY <1>3, <3>1, <3>2 DEF Opening, PhaseOnRead, StateFor, StateAfter, First
  <2>2. CASE server.phase # "Handshake" /\ got.packet \in Acknowledgements
    <3>1. /\ server.awaits = got.packet /\ server.awaits # None
      BY <2>2, ReaderKnown DEF Acknowledgements, None
    <3>2. /\ Last > 0 /\ sent[Last].packet \in DOMAIN Acknowledgement
          /\ got.packet = Acknowledgement[sent[Last].packet] /\ server.phase = sent[Last].phase
          /\ server.phase \in {"Login", "Configuration", "Play"}
      BY <3>1, ReaderKnown
    <3>3. Last # 0
      BY <3>2
    <3>4. CASE sent[Last].packet = "encryption_request"
      <4>1. got.packet = "encryption_response"
        BY <3>2, <3>4 DEF Acknowledgement
      <4>2. server'.phase = server.phase
        BY <1>3, <4>1 DEF PhaseOnRead
      <4> QED BY <3>2, <3>3, <3>4, <4>2 DEF StateAfter
    <3>5. CASE sent[Last].packet = "success"
      <4>1. got.packet = "login_acknowledged"
        BY <3>2, <3>5 DEF Acknowledgement
      <4>2. server'.phase = "Configuration"
        BY <1>3, <4>1 DEF PhaseOnRead
      <4> QED BY <3>2, <3>3, <3>5, <4>2 DEF StateAfter, StateFor
    <3>6. CASE sent[Last].packet = "start_configuration"
      <4>1. got.packet = "configuration_acknowledged"
        BY <3>2, <3>6 DEF Acknowledgement
      <4>2. server'.phase = "Configuration"
        BY <1>3, <4>1 DEF PhaseOnRead
      <4> QED BY <3>2, <3>3, <3>6, <4>2 DEF StateAfter, StateFor
    <3>7. CASE sent[Last].packet = "finish"
      <4>1. got.packet = "finish_acknowledged"
        BY <3>2, <3>7 DEF Acknowledgement
      <4>2. server'.phase = "Play"
        BY <1>3, <4>1 DEF PhaseOnRead
      <4> QED BY <3>2, <3>3, <3>7, <4>2 DEF StateAfter, StateFor
    <3>8. sent[Last].packet \in {"encryption_request", "success", "finish", "start_configuration"}
      BY <3>2 DEF Acknowledgement
    <3> QED BY <3>4, <3>5, <3>6, <3>7, <3>8
  <2>3. CASE server.phase # "Handshake" /\ got.packet \notin Acknowledgements
    <3>1. server.awaits = None /\ StateFor(server.phase) = StateAfter(Last)
      BY <1>1, <1>2, <1>4, <2>3 DEF PhasesSound
    <3>2. got.packet \notin Opening
      BY <2>3, ReaderKnown
    <3>3. CASE got.packet = "ping"
      <4>1. server.phase \in {"Status", "Ping"}
        BY <3>3, ReaderKnown
      <4>2. server'.phase = "Ping"
        BY <1>3, <3>3 DEF PhaseOnRead
      <4> QED BY <3>1, <4>1, <4>2 DEF StateFor
    <3>4. CASE got.packet # "ping"
      <4>1. server'.phase = server.phase
        BY <1>3, <2>3, <3>2, <3>4 DEF PhaseOnRead, Opening, Acknowledgements
      <4> QED BY <3>1, <4>1
    <3> QED BY <3>3, <3>4
  <2> QED BY <2>1, <2>2, <2>3
<1>8. server'.phase = "Handshake" => server.phase = "Handshake" /\ got.packet = "handshake"
  <2> SUFFICES ASSUME server'.phase = "Handshake" PROVE server.phase = "Handshake" /\ got.packet = "handshake"
    OBVIOUS
  <2>1. got.packet \notin {"status_request", "login_start"} /\ server.phase = "Handshake"
    BY <1>3 DEF PhaseOnRead
  <2>2. got.packet \in Opening
    BY <2>1, ReaderKnown
  <2> QED BY <2>1, <2>2 DEF Opening
<1>9. server'.phase = "Handshake" =>
        /\ sent = <<>> /\ server'.awaits = None /\ server'.owed = 0
        /\ \A j \in DOMAIN outbox' : outbox'[j].packet \in Opening
        /\ \A j \in DOMAIN outbox' : outbox'[j].packet # "handshake" => j = Len(outbox')
        /\ \A j \in DOMAIN outbox' :
            /\ outbox'[j].packet = "status_request" => client.kind = "status"
            /\ outbox'[j].packet = "login_start" => client.kind # "status"
  <2> SUFFICES ASSUME server'.phase = "Handshake"
               PROVE  /\ sent = <<>> /\ server'.awaits = None /\ server'.owed = 0
                      /\ \A j \in DOMAIN outbox' :
                          /\ outbox'[j].packet \in Opening
                          /\ outbox'[j].packet # "handshake" => j = Len(outbox')
                          /\ outbox'[j].packet = "status_request" => client.kind = "status"
                          /\ outbox'[j].packet = "login_start" => client.kind # "status"
    OBVIOUS
  <2>1. /\ server.phase = "Handshake" /\ sent = <<>> /\ server.awaits = None /\ server.owed = 0
        /\ \A j \in DOMAIN outbox : outbox[j].packet \in Opening
        /\ \A j \in DOMAIN outbox : outbox[j].packet # "handshake" => j = Len(outbox)
        /\ \A j \in DOMAIN outbox :
            /\ outbox[j].packet = "status_request" => client.kind = "status"
            /\ outbox[j].packet = "login_start" => client.kind # "status"
    BY <1>2, <1>8 DEF PhasesSound
  <2>2. server'.awaits = None /\ server'.owed = 0
    BY <1>3, <1>4, <2>1
  <2>3. ASSUME NEW j \in DOMAIN outbox'
        PROVE  /\ outbox'[j].packet \in Opening
               /\ outbox'[j].packet # "handshake" => j = Len(outbox')
               /\ outbox'[j].packet = "status_request" => client.kind = "status"
               /\ outbox'[j].packet = "login_start" => client.kind # "status"
    <3>1. PICK k : k = j + 1
      OBVIOUS
    <3>2. k \in DOMAIN outbox /\ outbox'[j] = outbox[k] /\ (k = Len(outbox) => j = Len(outbox'))
      BY <1>1, <3>1
    <3> QED BY <2>1, <3>2
  <2> QED BY <2>1, <2>2, <2>3
<1>10. server'.phase \notin {"Handshake", "Closed"} =>
         \A j \in DOMAIN outbox' : outbox'[j].packet \notin Opening
  <2>1. CASE server.phase = "Handshake"
    <3>1. got.packet \in Opening /\ (got.packet # "handshake" => Len(outbox) = 1)
      BY <2>1, ReaderKnown
    <3>2. got.packet # "handshake" => DOMAIN outbox' = {}
      BY <1>1, <3>1
    <3>3. got.packet = "handshake" => server'.phase = "Handshake"
      BY <1>3, <2>1 DEF PhaseOnRead
    <3> QED BY <3>2, <3>3
  <2>2. CASE server.phase # "Handshake"
    <3>1. \A j \in DOMAIN outbox : outbox[j].packet \notin Opening
      BY <1>1, <1>2, <2>2 DEF PhasesSound
    <3> QED BY <1>1, <3>1
  <2> QED BY <2>1, <2>2
<1>11. client.state = StateAfter(Handled)
  BY <1>1, <1>2 DEF PhasesSound
<1> QED BY <1>1, <1>5, <1>6, <1>7, <1>9, <1>10, <1>11 DEF PhasesSound, StateFor

LEMMA ReadPlaced ==
    ASSUME LoginType, Parts, NEW got, Reads(got)
    PROVE  FramesPlaced' /\ LoginSound' /\ ZipSound'
<1>1. /\ UNCHANGED <<conn, client, wire, sent>> /\ Handled' = Handled /\ Last' = Last
      /\ server.phase # "Closed"
  BY ReadsKnown
<1>2. server'.zip = server.zip /\ server'.inZip = server.inZip
      /\ server'.done = server.done /\ server'.faulty = server.faulty
  BY DEF Reads
<1>3. FramesPlaced'
  BY <1>1 DEF Parts, FramesPlaced
<1>4. LoginSound'
  BY <1>1, <1>2 DEF Parts, LoginSound, Sent, Closed
<1>5. ZipSound'
  <2>1. ZipSound
    BY DEF Parts
  <2>2. /\ sent' = sent /\ conn' = conn /\ Handled' = Handled /\ Last' = Last
        /\ server'.zip = server.zip /\ server'.inZip = server.inZip /\ server'.faulty = server.faulty
    BY <1>1, <1>2
  <2> QED BY <2>1, <2>2 DEF ZipSound, Sent
<1> QED BY <1>3, <1>4, <1>5

LEMMA ReadKind ==
    ASSUME LoginType, Parts, NEW got, Reads(got)
    PROVE  KindSound'
<1>1. /\ UNCHANGED <<conn, client, wire, sent>> /\ server.phase # "Closed"
      /\ \A j \in DOMAIN outbox' : j + 1 \in DOMAIN outbox /\ outbox'[j] = outbox[j + 1]
  BY ReadsKnown
<1>2. server'.phase = PhaseOnRead(got.packet)
  BY DEF Reads
<1>3. KindSound
  BY DEF Parts
<1>4. /\ server.phase # "Handshake" => got.packet \notin Opening
      /\ got.packet = "status_request" /\ server.phase = "Handshake" => client.kind = "status"
      /\ got.packet = "login_start" /\ server.phase = "Handshake" => client.kind # "status"
      /\ got.packet = "ping" => client.kind = "status"
  BY ReaderKnown
<1>5. client.kind = "status" => got.packet \notin Acknowledgements
  <2> SUFFICES ASSUME client.kind = "status", got.packet \in Acknowledgements PROVE FALSE
    OBVIOUS
  <2>1. server.awaits # None
    BY ReaderKnown DEF Acknowledgements, None
  <2>2. server.phase \in {"Login", "Configuration", "Play"}
    BY <2>1, ReaderKnown
  <2> QED BY <1>3, <2>2 DEF KindSound
<1>6. client.kind = "status" => server'.phase \in {"Handshake", "Status", "Ping", "Closed"}
  BY <1>2, <1>3, <1>4, <1>5 DEF KindSound, PhaseOnRead, Opening, Acknowledgements
<1>7. client.kind # "status" => server'.phase \notin {"Status", "Ping"}
  BY <1>2, <1>3, <1>4 DEF KindSound, PhaseOnRead, Opening
<1>8. client.kind # "status" => \A j \in DOMAIN outbox' : outbox'[j].packet # "ping"
  BY <1>1, <1>3 DEF KindSound
<1> QED BY <1>1, <1>3, <1>6, <1>7, <1>8 DEF KindSound

\* While the server waits nothing but the answer changes its phase.
LEMMA ReadWaiting ==
    ASSUME LoginType, Parts, NEW got, Reads(got), got.packet \notin Acknowledgements,
           server.phase \notin {"Handshake", "Status", "Ping"}
    PROVE  server'.phase = server.phase
<1>1. server'.phase = PhaseOnRead(got.packet)
  BY DEF Reads
<1>2. got.packet \notin Opening /\ got.packet # "ping"
  BY ReaderKnown
<1> QED BY <1>1, <1>2 DEF PhaseOnRead, Opening, Acknowledgements

LEMMA ReadAcks ==
    ASSUME LoginType, Parts, NEW got, Reads(got)
    PROVE  AcksSound'
<1>1. /\ UNCHANGED <<conn, client, wire, sent>> /\ Handled' = Handled /\ Last' = Last
      /\ server.phase # "Closed" /\ Last \in Nat /\ DOMAIN sent = 1 .. Last
      /\ \A j \in DOMAIN outbox' : j + 1 \in DOMAIN outbox /\ outbox'[j] = outbox[j + 1]
      /\ DOMAIN outbox = 1 .. Len(outbox) /\ Len(outbox) \in Nat
      /\ DOMAIN outbox' = 1 .. Len(outbox) - 1
  BY ReadsKnown
<1>2. AcksSound
  BY DEF Parts
<1>3. server'.awaits = IF got.packet \in Acknowledgements THEN None ELSE server.awaits
  BY ReaderKnown
<1>4. server'.done = server.done
  BY DEF Reads
<1>5. \A i \in DOMAIN sent : sent[i].packet \in DOMAIN Acknowledgement =>
        i <= Handled \/ (i = Last /\ server'.awaits = Acknowledgement[sent[i].packet])
  <2>1. CASE got.packet \in Acknowledgements
    <3>1. Handled = Last
      BY <2>1, ReaderKnown
    <3> QED BY <1>1, <3>1
  <2>2. CASE got.packet \notin Acknowledgements
    BY <1>1, <1>2, <1>3, <2>2 DEF AcksSound, Closed
  <2> QED BY <2>1, <2>2
<1>6. server'.awaits # None =>
        /\ Last > 0 /\ sent[Last].packet \in DOMAIN Acknowledgement
        /\ server'.awaits = Acknowledgement[sent[Last].packet]
        /\ server'.phase = sent[Last].phase
  <2> SUFFICES ASSUME server'.awaits # None
               PROVE  /\ Last > 0 /\ sent[Last].packet \in DOMAIN Acknowledgement
                      /\ server'.awaits = Acknowledgement[sent[Last].packet]
                      /\ server'.phase = sent[Last].phase
    OBVIOUS
  <2>1. got.packet \notin Acknowledgements /\ server'.awaits = server.awaits
    BY <1>3
  <2>2. /\ Last > 0 /\ sent[Last].packet \in DOMAIN Acknowledgement
        /\ server.awaits = Acknowledgement[sent[Last].packet]
        /\ server.phase = sent[Last].phase
        /\ server.phase \in {"Login", "Configuration", "Play"}
    BY <2>1, ReaderKnown
  <2>3. server'.phase = server.phase
    BY <2>1, <2>2, ReadWaiting
  <2> QED BY <2>1, <2>2, <2>3
<1>7. \A j \in DOMAIN outbox' : outbox'[j].packet \in Acknowledgements =>
        /\ server'.awaits = outbox'[j].packet /\ Handled = Last
        /\ \A k \in DOMAIN outbox' : outbox'[k].packet \in Acknowledgements => k = j
  <2> SUFFICES ASSUME NEW j \in DOMAIN outbox', outbox'[j].packet \in Acknowledgements
               PROVE  /\ server'.awaits = outbox'[j].packet /\ Handled = Last
                      /\ \A k \in DOMAIN outbox' : outbox'[k].packet \in Acknowledgements => k = j
    OBVIOUS
  <2>1. got.packet \notin Acknowledgements
    BY ReaderKnown
  <2>2. server'.awaits = server.awaits
    BY <1>3, <2>1
  <2>3. PICK m : m = j + 1
    OBVIOUS
  <2>4. m \in DOMAIN outbox /\ outbox[m].packet \in Acknowledgements /\ outbox'[j] = outbox[m]
    BY <1>1, <2>3
  <2>5. /\ server.awaits = outbox[m].packet /\ Handled = Last
        /\ \A k \in DOMAIN outbox : outbox[k].packet \in Acknowledgements => k = m
    BY <1>1, <1>2, <2>4 DEF AcksSound, Closed
  <2>6. ASSUME NEW k \in DOMAIN outbox', outbox'[k].packet \in Acknowledgements PROVE k = j
    <3>1. k + 1 \in DOMAIN outbox /\ outbox[k + 1].packet \in Acknowledgements
      BY <1>1, <2>6
    <3>2. k + 1 = m
      BY <2>5, <3>1
    <3> QED BY <1>1, <2>3, <3>2
  <2> QED BY <2>2, <2>4, <2>5, <2>6
<1> QED BY <1>1, <1>2, <1>4, <1>5, <1>6, <1>7 DEF AcksSound, Sent

LEMMA ReadWrites ==
    ASSUME LoginType, Parts, NEW got, Reads(got)
    PROVE  /\ WritesSound'
           /\ got.enc <=> server.inKey
           /\ got.zip <=> server.inZip
<1>1. /\ UNCHANGED <<conn, client, wire, sent>> /\ server.phase # "Closed" /\ got = outbox[1]
      /\ \A j \in DOMAIN outbox' : j + 1 \in DOMAIN outbox /\ outbox'[j] = outbox[j + 1]
      /\ \A j \in DOMAIN outbox : j # 1 => j - 1 \in DOMAIN outbox'
      /\ DOMAIN outbox = 1 .. Len(outbox) /\ Len(outbox) \in Nat \ {0}
      /\ DOMAIN outbox' = 1 .. Len(outbox) - 1
  BY ReadsKnown
<1>2. /\ server'.inKey <=> server.inKey \/ got.packet = "encryption_response"
      /\ server'.inZip = server.inZip
  BY DEF Reads
<1>3. /\ conn.encryptor <=>
           server.inKey \/ \E k \in DOMAIN outbox : outbox[k].packet = "encryption_response"
      /\ \A j \in DOMAIN outbox :
          /\ outbox[j].enc <=>
               server.inKey \/ \E k \in 1 .. j - 1 : outbox[k].packet = "encryption_response"
          /\ outbox[j].zip <=> server.inZip
  BY <1>1 DEF Parts, WritesSound, Closed
<1>4. ASSUME NEW k \in DOMAIN outbox
      PROVE  (\E m \in 1 .. k : outbox[m].packet = "encryption_response") <=>
               \/ got.packet = "encryption_response"
               \/ \E m \in 1 .. k - 1 : outbox'[m].packet = "encryption_response"
  <2>1. ASSUME NEW m \in 1 .. k, outbox[m].packet = "encryption_response", m # 1
        PROVE  \E p \in 1 .. k - 1 : outbox'[p].packet = "encryption_response"
    <3>1. PICK p : p = m - 1
      OBVIOUS
    <3>2. p \in 1 .. k - 1 /\ p \in DOMAIN outbox' /\ p + 1 = m
      BY <1>1, <2>1, <3>1
    <3>3. outbox'[p].packet = "encryption_response"
      BY <1>1, <2>1, <3>2
    <3> QED BY <3>2, <3>3
  <2>2. ASSUME NEW p \in 1 .. k - 1, outbox'[p].packet = "encryption_response"
        PROVE  \E m \in 1 .. k : outbox[m].packet = "encryption_response"
    <3>1. p \in DOMAIN outbox' /\ p + 1 \in 1 .. k
      BY <1>1
    <3> QED BY <1>1, <2>2, <3>1
  <2>3. 1 \in 1 .. k
    BY <1>1
  <2> QED BY <1>1, <2>1, <2>2, <2>3
<1>5. conn.encryptor <=>
        server'.inKey \/ \E k \in DOMAIN outbox' : outbox'[k].packet = "encryption_response"
  <2>1. Len(outbox) \in DOMAIN outbox
    BY <1>1
  <2>2. (\E m \in 1 .. Len(outbox) : outbox[m].packet = "encryption_response") <=>
          \/ got.packet = "encryption_response"
          \/ \E m \in 1 .. Len(outbox) - 1 : outbox'[m].packet = "encryption_response"
    BY <1>4, <2>1
  <2> QED BY <1>1, <1>2, <1>3, <2>2
<1>6. \A j \in DOMAIN outbox' :
        /\ outbox'[j].enc <=>
             server'.inKey \/ \E k \in 1 .. j - 1 : outbox'[k].packet = "encryption_response"
        /\ outbox'[j].zip <=> server'.inZip
  <2> TAKE j \in DOMAIN outbox'
  <2>1. PICK m : m = j + 1
    OBVIOUS
  <2>2. m \in DOMAIN outbox /\ outbox'[j] = outbox[m] /\ j \in DOMAIN outbox /\ m - 1 = j
    BY <1>1, <2>1
  <2>3. /\ outbox[m].enc <=>
             server.inKey \/ \E k \in 1 .. j : outbox[k].packet = "encryption_response"
        /\ outbox[m].zip <=> server.inZip
    BY <1>3, <2>2
  <2>4. (\E k \in 1 .. j : outbox[k].packet = "encryption_response") <=>
          \/ got.packet = "encryption_response"
          \/ \E k \in 1 .. j - 1 : outbox'[k].packet = "encryption_response"
    BY <1>4, <2>2
  <2> QED BY <1>2, <2>2, <2>3, <2>4
<1>7. WritesSound'
  BY <1>1, <1>5, <1>6 DEF WritesSound
<1>8. (got.enc <=> server.inKey) /\ (got.zip <=> server.inZip)
  <2>1. 1 \in DOMAIN outbox /\ ~(\E k \in 1 .. 1 - 1 : outbox[k].packet = "encryption_response")
    BY <1>1
  <2> QED BY <1>1, <1>3, <2>1
<1> QED BY <1>7, <1>8

LEMMA ReadRegistries ==
    ASSUME LoginType, Parts, NEW got, Reads(got)
    PROVE  RegistriesSound'
<1>1. /\ UNCHANGED <<conn, client, wire, sent>> /\ Handled' = Handled /\ Last' = Last
      /\ server.phase # "Closed"
  BY ReadsKnown
<1>2. RegistriesSound
  BY DEF Parts
<1>3. \A r \in Registries : LatestIs(r, Handled, Merged(client.registries, client.phase)[r])'
  BY <1>1, <1>2 DEF RegistriesSound, LatestIs, Sent, Merged
<1>4. ASSUME NEW i \in DOMAIN sent, sent[i].packet = "login"
      PROVE  server'.phase = "Session" /\ server'.awaits = None
  <2>1. server.phase = "Session" /\ server.awaits = None
    BY <1>1, <1>2, <1>4 DEF RegistriesSound, Sent
  <2>2. got.packet \notin Acknowledgements
    BY <2>1, ReaderKnown DEF Acknowledgements, None
  <2>3. server'.phase = server.phase
    BY <2>1, <2>2, ReadWaiting
  <2>4. server'.awaits = server.awaits
    BY <2>2, ReaderKnown
  <2> QED BY <2>1, <2>3, <2>4
<1> QED BY <1>1, <1>2, <1>3, <1>4 DEF RegistriesSound, Sent

\* Reading a packet takes it from the answers under way.
LEMMA ReadUnread ==
    ASSUME LoginType, Parts, NEW got, Reads(got)
    PROVE  Cardinality(Unread) = Cardinality(Unread') + (IF got.packet \in LoginAnswer THEN 1 ELSE 0)
           /\ Cardinality(Unread') \in Nat
<1>1. /\ Len(outbox) \in Nat \ {0} /\ DOMAIN outbox = 1 .. Len(outbox) /\ got = outbox[1]
      /\ DOMAIN outbox' = 1 .. Len(outbox) - 1
      /\ \A j \in DOMAIN outbox' : j + 1 \in DOMAIN outbox /\ outbox'[j] = outbox[j + 1]
      /\ \A j \in DOMAIN outbox : j # 1 => j - 1 \in DOMAIN outbox'
  BY ReadsKnown
<1>2. PICK rest : rest = Unread \ {1}
  OBVIOUS
<1>3. PICK left : left = Unread'
  OBVIOUS
<1>4. left = {j \in 1 .. Len(outbox) - 1 : outbox'[j].packet \in LoginAnswer}
  BY <1>1, <1>3 DEF Unread
<1>5. rest = {j \in 1 .. Len(outbox) : outbox[j].packet \in LoginAnswer /\ j # 1}
  BY <1>1, <1>2 DEF Unread
<1>6. IsFiniteSet(Unread) /\ IsFiniteSet(rest)
  BY <1>2, UnansweredFinite, FS_RemoveElement
<1>7. PICK f : f = [j \in rest |-> j - 1]
  OBVIOUS
<1>8. f \in Bijection(rest, left)
  <2>1. ASSUME NEW j \in rest PROVE f[j] \in left /\ f[j] = j - 1 /\ j \in Nat
    <3>1. j \in DOMAIN outbox /\ j # 1 /\ outbox[j].packet \in LoginAnswer
      BY <1>1, <1>5, <2>1
    <3>2. PICK k : k = j - 1
      OBVIOUS
    <3>3. k \in DOMAIN outbox' /\ k + 1 = j /\ j \in Nat
      BY <1>1, <3>1, <3>2
    <3>4. outbox'[k] = outbox[j]
      BY <1>1, <3>3
    <3> QED BY <1>1, <1>4, <1>7, <3>1, <3>2, <3>3, <3>4
  <2>2. f \in [rest -> left]
    BY <1>7, <2>1
  <2>3. \A i, j \in rest : f[i] = f[j] => i = j
    BY <2>1
  <2>4. \A k \in left : \E j \in rest : f[j] = k
    <3> TAKE k \in left
    <3>1. PICK j : j = k + 1
      OBVIOUS
    <3>2. k \in DOMAIN outbox' /\ k \in Nat /\ outbox'[k].packet \in LoginAnswer
      BY <1>1, <1>4
    <3>3. j \in DOMAIN outbox /\ j # 1 /\ outbox[j] = outbox'[k] /\ j - 1 = k
      BY <1>1, <3>1, <3>2
    <3>4. j \in rest
      BY <1>1, <1>5, <3>2, <3>3
    <3> QED BY <1>7, <3>3, <3>4
  <2> QED BY <2>2, <2>3, <2>4 DEF Bijection, Injection, Surjection, IsInjective
<1>9. IsFiniteSet(left) /\ Cardinality(left) = Cardinality(rest)
  <2>1. ExistsBijection(rest, left)
    BY <1>8 DEF ExistsBijection
  <2> QED BY <1>6, <2>1, FS_Bijection
<1>10. Cardinality(left) \in Nat
  BY <1>9, FS_CardinalityType
<1>11. CASE got.packet \in LoginAnswer
  <2>1. 1 \in Unread
    BY <1>1, <1>11 DEF Unread
  <2>2. Cardinality(rest) = Cardinality(Unread) - 1 /\ Cardinality(Unread) \in Nat
    BY <1>2, <1>6, <2>1, FS_RemoveElement, FS_CardinalityType
  <2> QED BY <1>3, <1>9, <1>10, <1>11, <2>2
<1>12. CASE got.packet \notin LoginAnswer
  <2>1. 1 \notin Unread
    BY <1>1, <1>12 DEF Unread
  <2>2. rest = Unread
    BY <1>2, <2>1
  <2> QED BY <1>3, <1>9, <1>10, <1>12, <2>2
<1> QED BY <1>11, <1>12

LEMMA ReadOwed ==
    ASSUME LoginType, Parts, NEW got, Reads(got)
    PROVE  OwedSound'
<1>1. /\ Len(outbox) \in Nat \ {0} /\ got = outbox[1] /\ 1 \in DOMAIN outbox
      /\ DOMAIN outbox' = 1 .. Len(outbox) - 1
      /\ \A j \in DOMAIN outbox' : j + 1 \in DOMAIN outbox /\ outbox'[j] = outbox[j + 1]
      /\ UNCHANGED <<conn, client, wire, sent>> /\ Handled' = Handled /\ Last' = Last
      /\ Handled \in 0 .. Last /\ Last \in Nat /\ DOMAIN sent = 1 .. Last
  BY ReadsKnown
<1>2. server'.phase = PhaseOnRead(got.packet)
      /\ server'.owed = IF got.packet \in LoginAnswer /\ server.owed > 0 THEN server.owed - 1
                        ELSE server.owed
  BY DEF Reads
<1>3. OwedSound
  BY DEF Parts
<1>4. server'.awaits = IF got.packet \in Acknowledgements THEN None ELSE server.awaits
  BY ReaderKnown
<1> SUFFICES ASSUME server'.phase = "Login"
             PROVE  /\ \A i \in DOMAIN sent : sent[i].phase = "Login"
                    /\ \A j \in DOMAIN outbox' :
                        /\ outbox'[j].packet \in LoginAnswer \cup {"client_information", "encryption_response",
                                                      "login_acknowledged"}
                        /\ outbox'[j].packet = "client_information" => server'.awaits = "login_acknowledged"
                    /\ server'.owed = Cardinality(Unanswered') + Cardinality(Unread')
  BY <1>1 DEF OwedSound
<1>5. Unanswered' = Unanswered
  BY <1>1 DEF Unanswered
<1>6. CASE server.phase = "Handshake"
  <2>1. /\ got.packet \in Opening /\ Last = 0 /\ server.owed = 0
        /\ got.packet # "handshake" => Len(outbox) = 1
    BY <1>6, ReaderKnown
  <2>2. got.packet # "handshake"
    BY <1>2, <1>6 DEF PhaseOnRead
  <2>3. DOMAIN outbox' = {} /\ DOMAIN sent = {}
    BY <1>1, <2>1, <2>2
  <2>4. Unanswered' = {} /\ Unread' = {}
    <3>1. Unanswered = {}
      BY <1>1, <2>1 DEF Unanswered
    <3> QED BY <1>5, <2>3, <3>1 DEF Unread
  <2>5. Cardinality(Unanswered') = 0 /\ Cardinality(Unread') = 0
    BY <2>4, FS_EmptySet
  <2>6. server'.owed = 0
    BY <1>2, <2>1
  <2> QED BY <2>3, <2>5, <2>6
<1>7. CASE server.phase # "Handshake"
  <2>1. got.packet \notin Opening
    BY <1>7, ReaderKnown
  <2>2. server.phase = "Login" /\ got.packet # "login_acknowledged"
    BY <1>2, <2>1 DEF PhaseOnRead, Opening
  <2>3. /\ \A i \in DOMAIN sent : sent[i].phase = "Login"
        /\ \A j \in DOMAIN outbox :
            /\ outbox[j].packet \in LoginAnswer \cup {"client_information", "encryption_response",
                                                      "login_acknowledged"}
            /\ outbox[j].packet = "client_information" => server.awaits = "login_acknowledged"
        /\ server.owed = Cardinality(Unanswered) + Cardinality(Unread)
    BY <1>3, <2>2 DEF OwedSound
  <2>4. ASSUME NEW j \in DOMAIN outbox'
        PROVE  /\ outbox'[j].packet \in LoginAnswer \cup {"client_information", "encryption_response",
                                                      "login_acknowledged"}
               /\ outbox'[j].packet = "client_information" => server'.awaits = "login_acknowledged"
    <3>1. PICK m : m = j + 1
      OBVIOUS
    <3>2. m \in DOMAIN outbox /\ outbox'[j] = outbox[m]
      BY <1>1, <3>1
    <3>3. server.awaits = "login_acknowledged" => server'.awaits = "login_acknowledged"
      <4>1. got.packet \in Acknowledgements => server.awaits = got.packet
        BY ReaderKnown
      <4> QED BY <1>4, <2>2, <4>1
    <3> QED BY <2>3, <3>2, <3>3
  <2>5. /\ Cardinality(Unread) = Cardinality(Unread') + (IF got.packet \in LoginAnswer THEN 1 ELSE 0)
        /\ Cardinality(Unread') \in Nat
    BY ReadUnread
  <2>6. Cardinality(Unanswered) \in Nat
    BY UnansweredFinite, FS_CardinalityType
  <2>7. server'.owed = Cardinality(Unanswered) + Cardinality(Unread')
    <3>1. CASE got.packet \in LoginAnswer
      <4>1. server.owed = Cardinality(Unanswered) + Cardinality(Unread') + 1
        BY <2>3, <2>5, <2>6, <3>1
      <4> QED BY <1>2, <2>5, <2>6, <3>1, <4>1
    <3>2. CASE got.packet \notin LoginAnswer
      <4>1. server.owed = Cardinality(Unanswered) + Cardinality(Unread')
        BY <2>3, <2>5, <2>6, <3>2
      <4> QED BY <1>2, <3>2, <4>1
    <3> QED BY <3>1, <3>2
  <2> QED BY <1>5, <2>3, <2>4, <2>7
<1> QED BY <1>6, <1>7

\* The server reads a packet.
LEMMA ReadParts ==
    ASSUME LoginType, Parts, NEW got, Reads(got)
    PROVE  Parts'
<1>1. StreamSound'
  <2>1. UNCHANGED <<conn, wire, sent>> /\ Handled' = Handled
    BY ReadsKnown
  <2> QED BY <2>1, SameStream DEF Parts
<1>2. KeysSound' /\ PhasesSound' /\ AcksSound' /\ KindSound'
  BY ReadKeys, ReadPhases, ReadAcks, ReadKind
<1>3. FramesPlaced' /\ LoginSound' /\ ZipSound'
  BY ReadPlaced
<1>4. WritesSound' /\ OwedSound' /\ RegistriesSound'
  BY ReadWrites, ReadOwed, ReadRegistries
<1> QED BY <1>1, <1>2, <1>3, <1>4 DEF Parts

\* The server sends a frame.
LEMMA SendParts ==
    ASSUME LoginType, LoginType', Parts, NEW frame, Sends(frame)
    PROVE  Parts'
<1>1. StreamSound'
  BY SendStream DEF Parts
<1>2. KeysSound' /\ PhasesSound' /\ AcksSound' /\ KindSound'
  BY SendKeys, SendPhases, SendAcks, SendKind
<1>3. FramesPlaced' /\ LoginSound' /\ ZipSound'
  BY SendPlaced, SendZip
<1>4. WritesSound' /\ OwedSound' /\ RegistriesSound'
  BY SendWrites, SendOwed, SendRegistries
<1> QED BY <1>1, <1>2, <1>3, <1>4 DEF Parts

-----------------------------------------------------------------------------
(* The client handles a frame and goes on.                                 *)

HandlesOn(n, packets) ==
    /\ n \in DOMAIN sent /\ NextFrame(conn, sent) = n
    /\ Handles(n, packets) /\ Running'
    /\ Leads(n, sent[n].packet) /\ Answering(sent[n].packet, packets)

\* The client handles a frame in the phase it was sent in.
LEMMA HandledInPhase ==
    ASSUME LoginType, Parts, NEW n \in DOMAIN sent, NextFrame(conn, sent) = n,
           NEW packets, Handles(n, packets)
    PROVE  Placed(n)
<1>1. n = Handled + 1 /\ Handled \in Nat
  <2>1. StreamSound
    BY DEF Parts
  <2>2. Handled \in Nat
    BY DEF LoginType, Handled
  <2> QED BY <2>1, <2>2, HandleStream
<1>2. FramesPlaced /\ PhasesSound
  BY DEF Parts
<1>3. client.state = StateAfter(Handled)
  BY <1>2 DEF PhasesSound, Handles
<1>4. StateFor(sent[n].phase) = StateAfter(n - 1)
  BY <1>2 DEF PhasesSound
<1>5. n - 1 = Handled
  BY <1>1
<1> QED BY <1>2, <1>3, <1>4, <1>5 DEF Placed

LEMMA HandlesKnown ==
    ASSUME LoginType, Parts, NEW n, NEW packets, HandlesOn(n, packets)
    PROVE  /\ n = Handled + 1 /\ Handled' = n /\ Last' = Last /\ n \in 1 .. Last
           /\ Handled \in Nat /\ Last \in Nat /\ DOMAIN sent = 1 .. Last
           /\ UNCHANGED <<wire, sent, server>> /\ client'.kind = client.kind
           /\ client.state = StateFor(sent[n].phase) /\ client.state # "Handshake"
           /\ client'.state = StateAfter(n)
           /\ server.phase # "Handshake"
<1>1. /\ n \in DOMAIN sent /\ NextFrame(conn, sent) = n /\ Handles(n, packets)
      /\ Leads(n, sent[n].packet)
  BY DEF HandlesOn
<1>2. StreamSound /\ PhasesSound /\ FramesPlaced
  BY DEF Parts
<1>3. n = Handled + 1 /\ Handled' = n /\ Last' = Last
  BY <1>1, <1>2, HandleStream
<1>4. Handled \in Nat /\ Last \in Nat /\ DOMAIN sent = 1 .. Last
  BY DEF LoginType, Handled, Last
<1>5. UNCHANGED <<wire, sent, server>> /\ client'.kind = client.kind /\ client.state # "Handshake"
  BY <1>1 DEF Handles
<1>6. client.state = StateFor(sent[n].phase)
  BY <1>1, HandledInPhase DEF Placed
<1>7. client'.state = StateAfter(n)
  <2>1. client'.state = StateFrom(sent[n].packet)
    BY <1>1 DEF Leads
  <2>2. n # 0
    BY <1>3, <1>4
  <2> QED BY <1>6, <2>1, <2>2 DEF StateFrom, StateAfter
<1>8. server.phase # "Handshake"
  <2>1. sent # <<>>
    BY <1>1
  <2> QED BY <1>2, <2>1 DEF PhasesSound
<1> QED BY <1>1, <1>3, <1>4, <1>5, <1>6, <1>7, <1>8

\* What it writes, and what that does to the connection.
LEMMA HandlesWrites ==
    ASSUME LoginType, Parts, NEW n, NEW packets, HandlesOn(n, packets)
    PROVE  /\ packets \in Seq(Written) /\ Len(packets) \in 0 .. 2 /\ DOMAIN packets = 1 .. Len(packets)
           /\ Len(outbox) \in Nat /\ Len(outbox') = Len(outbox) + Len(packets)
           /\ DOMAIN outbox = 1 .. Len(outbox) /\ DOMAIN outbox' = 1 .. Len(outbox) + Len(packets)
           /\ \A j \in DOMAIN outbox : outbox'[j] = outbox[j]
           /\ \A j \in DOMAIN outbox' \ DOMAIN outbox :
                /\ j - Len(outbox) \in DOMAIN packets
                /\ outbox'[j] = [packet |-> packets[j - Len(outbox)], enc |-> conn.encryptor,
                                 zip |-> conn.threshold # 0]
           /\ \A i \in DOMAIN packets : outbox'[Len(outbox) + i].packet = packets[i]
<1>1. packets \in Seq(Written) /\ Len(packets) <= 2 /\ Write(packets)
  BY DEF HandlesOn, Handles
<1>2. /\ outbox' \in Seq(OutPacket) /\ Len(outbox') = Len(outbox) + Len(packets)
      /\ \A j \in DOMAIN outbox : outbox'[j] = outbox[j]
      /\ \A i \in DOMAIN packets :
           outbox'[Len(outbox) + i] = [packet |-> packets[i], enc |-> conn.encryptor,
                                       zip |-> conn.threshold # 0]
  BY <1>1, WriteType
<1>3. Len(packets) \in 0 .. 2 /\ DOMAIN packets = 1 .. Len(packets)
  <2>1. packets \in Seq(Written) /\ Len(packets) <= 2
    BY <1>1
  <2>2. Len(packets) \in Nat /\ DOMAIN packets = 1 .. Len(packets)
    BY <2>1
  <2> QED BY <2>1, <2>2
<1>4. Len(outbox) \in Nat /\ DOMAIN outbox = 1 .. Len(outbox)
  BY DEF LoginType
<1>5. DOMAIN outbox' = 1 .. Len(outbox) + Len(packets)
  BY <1>2
<1>6. ASSUME NEW j \in DOMAIN outbox' \ DOMAIN outbox
      PROVE  /\ j - Len(outbox) \in DOMAIN packets
             /\ outbox'[j] = [packet |-> packets[j - Len(outbox)], enc |-> conn.encryptor,
                              zip |-> conn.threshold # 0]
  <2>1. PICK i : i = j - Len(outbox)
    OBVIOUS
  <2>2. i \in DOMAIN packets /\ Len(outbox) + i = j
    BY <1>3, <1>4, <1>5, <2>1
  <2> QED BY <1>2, <2>1, <2>2
<1>7. ASSUME NEW i \in DOMAIN packets PROVE outbox'[Len(outbox) + i].packet = packets[i]
  <2>1. outbox'[Len(outbox) + i] = [packet |-> packets[i], enc |-> conn.encryptor,
                                    zip |-> conn.threshold # 0]
    BY <1>2
  <2> QED BY <2>1
<1> QED BY <1>1, <1>2, <1>3, <1>4, <1>5, <1>6, <1>7

\* The transforms after a frame.
LEMMA HandlesTransforms ==
    ASSUME LoginType, Parts, NEW n, NEW packets, HandlesOn(n, packets)
    PROVE  /\ conn'.decryptor = IF sent[n].packet = "encryption_request" THEN 1 ELSE conn.decryptor
           /\ conn'.encryptor = IF sent[n].packet = "encryption_request" THEN TRUE ELSE conn.encryptor
           /\ conn'.threshold = IF sent[n].packet = "set_compression" THEN Threshold ELSE conn.threshold
           /\ conn.decryptor \in Nat /\ conn.encryptor \in BOOLEAN /\ Threshold # 0
<1>1. /\ n \in DOMAIN sent /\ NextFrame(conn, sent) = n /\ Handles(n, packets)
      /\ Leads(n, sent[n].packet)
  BY DEF HandlesOn
<1>2. conn' \in {Consumed(conn, sent[n]), EnableEncryption(Consumed(conn, sent[n])),
                 EnableCompression(Consumed(conn, sent[n]))}
  BY <1>1 DEF Handles
<1>3. /\ conn' = Consumed(conn, sent[n]) =>
           conn'.decryptor = conn.decryptor /\ conn'.encryptor = conn.encryptor
           /\ conn'.threshold = conn.threshold
      /\ conn' = EnableEncryption(Consumed(conn, sent[n])) =>
           conn'.decryptor = 1 /\ conn'.encryptor = TRUE /\ conn'.threshold = conn.threshold
      /\ conn' = EnableCompression(Consumed(conn, sent[n])) =>
           conn'.decryptor = conn.decryptor /\ conn'.encryptor = conn.encryptor
           /\ conn'.threshold = Threshold
  BY <1>1, <1>2, HandlesConn
<1>4. conn' = IF sent[n].packet = "encryption_request" THEN EnableEncryption(Consumed(conn, sent[n]))
              ELSE IF sent[n].packet = "set_compression" THEN EnableCompression(Consumed(conn, sent[n]))
              ELSE Consumed(conn, sent[n])
  BY <1>1 DEF Leads
<1>5. conn.decryptor \in Nat /\ conn.encryptor \in BOOLEAN /\ Threshold # 0
  BY TransportAssumption DEF LoginType
<1> QED BY <1>3, <1>4, <1>5

\* A packet that awaits an acknowledgement is the last frame, and its acknowledgement is
\* not under way yet.
LEMMA HandlesLast ==
    ASSUME LoginType, Parts, NEW n, NEW packets, HandlesOn(n, packets)
    PROVE  /\ sent[n].packet \in DOMAIN Acknowledgement =>
                n = Last /\ (Closed \/ server.awaits = Acknowledgement[sent[n].packet])
           /\ ~Closed => \A j \in DOMAIN outbox : outbox[j].packet \notin Acknowledgements
<1>1. n = Handled + 1 /\ n \in 1 .. Last /\ Handled \in Nat /\ Last \in Nat /\ DOMAIN sent = 1 .. Last
  BY HandlesKnown
<1>2. AcksSound
  BY DEF Parts
<1>3. ~(n <= Handled) /\ Handled # Last /\ n \in DOMAIN sent
  BY <1>1
<1>4. sent[n].packet \in DOMAIN Acknowledgement =>
        n = Last /\ (Closed \/ server.awaits = Acknowledgement[sent[n].packet])
  BY <1>2, <1>3 DEF AcksSound
<1>5. ~Closed => \A j \in DOMAIN outbox : outbox[j].packet \notin Acknowledgements
  BY <1>2, <1>3 DEF AcksSound
<1> QED BY <1>4, <1>5

\* The packets that a handler writes.
LEMMA HandlesPackets ==
    ASSUME LoginType, Parts, NEW n, NEW packets, HandlesOn(n, packets)
    PROVE  /\ sent[n].packet \in DOMAIN Acknowledgement =>
                1 \in DOMAIN packets /\ packets[1] = Acknowledgement[sent[n].packet]
           /\ \A i \in DOMAIN packets :
                /\ packets[i] \in Acknowledgements =>
                     /\ i = 1 /\ sent[n].packet \in DOMAIN Acknowledgement
                     /\ packets[i] = Acknowledgement[sent[n].packet]
                /\ packets[i] \notin Opening
                /\ packets[i] = "client_information" => sent[n].packet \in {"success", "start_configuration"}
                /\ sent[n].packet \in DOMAIN Acknowledgement =>
                     packets[i] \in {Acknowledgement[sent[n].packet], "client_information"}
<1>1. Answering(sent[n].packet, packets)
  BY DEF HandlesOn
<1>2. DOMAIN packets = 1 .. Len(packets) /\ packets \in Seq(Written)
  BY HandlesWrites
<1>3. CASE sent[n].packet \in DOMAIN Acknowledgement
  <2>1. PICK ack : ack = Acknowledgement[sent[n].packet]
    OBVIOUS
  <2>2. ack \in Acknowledgements
    BY <1>3, <2>1 DEF Acknowledgement, Acknowledgements
  <2>3. \/ packets = <<ack>>
        \/ packets = <<ack, "client_information">> /\ sent[n].packet \in {"success", "start_configuration"}
    BY <1>1, <1>3, <2>1 DEF Answering
  <2>4. "client_information" \notin Acknowledgements /\ ack # "client_information" /\ ack \notin Opening
        /\ "client_information" \notin Opening
    BY <2>2 DEF Acknowledgements, Opening
  <2>5. CASE packets = <<ack>>
    <3>1. DOMAIN packets = {1} /\ packets[1] = ack
      BY <2>5
    <3> QED BY <1>3, <2>1, <2>4, <3>1
  <2>6. CASE packets = <<ack, "client_information">> /\ sent[n].packet \in {"success", "start_configuration"}
    <3>1. DOMAIN packets = {1, 2} /\ packets[1] = ack /\ packets[2] = "client_information"
      BY <2>6
    <3> QED BY <1>3, <2>1, <2>4, <2>6, <3>1
  <2> QED BY <2>3, <2>5, <2>6
<1>4. CASE sent[n].packet \notin DOMAIN Acknowledgement
  <2>1. \A i \in DOMAIN packets : packets[i] \in Replies \ {"client_information"}
    BY <1>1, <1>4 DEF Answering
  <2> QED BY <1>4, <2>1 DEF Replies, LoginAnswer, Opening, Acknowledgements
<1> QED BY <1>3, <1>4

LEMMA HandlesKeys ==
    ASSUME LoginType, Parts, NEW n, NEW packets, HandlesOn(n, packets)
    PROVE  KeysSound'
<1>1. /\ n = Handled + 1 /\ Handled' = n /\ Last' = Last /\ n \in 1 .. Last
      /\ Handled \in Nat /\ Last \in Nat /\ DOMAIN sent = 1 .. Last
      /\ UNCHANGED <<wire, sent, server>>
  BY HandlesKnown
<1>2. /\ conn'.decryptor = IF sent[n].packet = "encryption_request" THEN 1 ELSE conn.decryptor
      /\ conn'.encryptor = IF sent[n].packet = "encryption_request" THEN TRUE ELSE conn.encryptor
      /\ conn.decryptor \in Nat /\ conn.encryptor \in BOOLEAN
  BY HandlesTransforms
<1>3. KeysSound /\ AcksSound
  BY DEF Parts
<1>4. ASSUME sent[n].packet = "encryption_request"
      PROVE  /\ wire = <<>> /\ server.key = 0
             /\ Closed \/ server.awaits = "encryption_response"
  <2>1. sent[n].packet \in DOMAIN Acknowledgement
        /\ Acknowledgement[sent[n].packet] = "encryption_response"
    BY <1>4 DEF Acknowledgement
  <2>2. n = Last /\ (Closed \/ server.awaits = "encryption_response")
    BY <2>1, HandlesLast
  <2>3. StreamSound'
    BY HandleStream DEF HandlesOn, Parts
  <2>4. Streamed' = 0
    BY <1>1, <2>2, <2>3 DEF StreamSound
  <2>5. wire = <<>>
    <3>1. Len(conn'.buffer) \in Nat /\ wire \in WireType
      <4>1. conn' \in [buffer : Seq(Bytes), decryptor : Nat, encryptor : BOOLEAN,
                       threshold : {0, Threshold}]
        BY HandlesConn DEF HandlesOn, Handles
      <4>2. wire \in WireType
        BY TypeParts
      <4> QED BY <4>1, <4>2
    <3>2. Len(wire) \in Nat
      BY <3>1 DEF WireType
    <3>3. Streamed' = Len(conn'.buffer) + Len(wire)
      BY <1>1 DEF Streamed
    <3>4. Len(wire) = 0
      BY <2>4, <3>1, <3>2, <3>3
    <3> QED BY <3>1, <3>4 DEF WireType
  <2>6. conn.decryptor = 0
    <3> SUFFICES ASSUME conn.decryptor # 0 PROVE FALSE
      OBVIOUS
    <3>1. PICK i \in 1 .. Handled : Sent(i, "encryption_request")
      BY <1>3 DEF KeysSound
    <3>2. i \in DOMAIN sent /\ n \in DOMAIN sent /\ Sent(n, "encryption_request") /\ i # n
      BY <1>1, <1>4 DEF Sent
    <3> QED BY <1>3, <3>1, <3>2 DEF AcksSound
  <2> QED BY <1>3, <2>2, <2>5, <2>6 DEF KeysSound
<1>5. conn'.encryptor <=> conn'.decryptor # 0
  <2>1. conn.encryptor <=> conn.decryptor # 0
    BY <1>3 DEF KeysSound
  <2> QED BY <1>2, <2>1
<1>6. conn'.decryptor # 0 => \E i \in 1 .. n : sent[i].packet = "encryption_request"
  <2>1. CASE sent[n].packet = "encryption_request"
    BY <1>1, <2>1
  <2>2. CASE sent[n].packet # "encryption_request"
    <3>1. conn.decryptor # 0 => \E i \in 1 .. Handled : sent[i].packet = "encryption_request"
      BY <1>3 DEF KeysSound, Sent
    <3>2. 1 .. Handled \subseteq 1 .. n
      BY <1>1
    <3> QED BY <1>2, <2>2, <3>1, <3>2
  <2> QED BY <2>1, <2>2
<1>7. \A i \in DOMAIN wire : wire[i][3] = IF conn'.decryptor = 0 THEN 0 ELSE conn'.decryptor + i - 1
  <2>1. CASE sent[n].packet = "encryption_request"
    BY <1>4, <2>1
  <2>2. CASE sent[n].packet # "encryption_request"
    <3>1. conn'.decryptor = conn.decryptor
      BY <1>2, <2>2
    <3>2. \A i \in DOMAIN wire : wire[i][3] = IF conn.decryptor = 0 THEN 0 ELSE conn.decryptor + i - 1
      BY <1>3 DEF KeysSound
    <3> QED BY <3>1, <3>2
  <2> QED BY <2>1, <2>2
<1>8. /\ conn'.decryptor = 0 => server.key = 0
      /\ conn'.decryptor # 0 =>
           \/ server.key = conn'.decryptor + Len(wire)
           \/ /\ server.key = 0 /\ wire = <<>> /\ conn'.decryptor = 1
              /\ Closed \/ server.awaits = "encryption_response"
  <2>1. CASE sent[n].packet = "encryption_request"
    BY <1>2, <1>4, <2>1
  <2>2. CASE sent[n].packet # "encryption_request"
    <3>1. conn'.decryptor = conn.decryptor
      BY <1>2, <2>2
    <3> QED BY <1>3, <3>1 DEF KeysSound
  <2> QED BY <2>1, <2>2
<1>9. ASSUME ~Closed, NEW j \in DOMAIN outbox', outbox'[j].packet = "encryption_response"
      PROVE  wire = <<>> /\ conn'.decryptor = 1
  <2>1. j \notin DOMAIN outbox
    <3> SUFFICES ASSUME j \in DOMAIN outbox PROVE FALSE
      OBVIOUS
    <3>1. outbox'[j] = outbox[j]
      BY HandlesWrites
    <3>2. outbox[j].packet \notin Acknowledgements
      BY <1>9, HandlesLast
    <3> QED BY <1>9, <3>1, <3>2 DEF Acknowledgements
  <2>2. /\ j - Len(outbox) \in DOMAIN packets
        /\ outbox'[j] = [packet |-> packets[j - Len(outbox)], enc |-> conn.encryptor,
                         zip |-> conn.threshold # 0]
    BY <2>1, HandlesWrites
  <2>3. PICK i : i = j - Len(outbox)
    OBVIOUS
  <2>4. i \in DOMAIN packets /\ packets[i] = "encryption_response"
    BY <1>9, <2>2, <2>3
  <2>5. sent[n].packet \in DOMAIN Acknowledgement
        /\ "encryption_response" = Acknowledgement[sent[n].packet]
    BY <2>4, HandlesPackets DEF Acknowledgements
  <2>6. sent[n].packet = "encryption_request"
    BY <2>5 DEF Acknowledgement
  <2> QED BY <1>2, <1>4, <2>6
<1>10. Closed' = Closed
  BY <1>1 DEF Closed
<1> QED BY <1>1, <1>5, <1>6, <1>7, <1>8, <1>9, <1>10 DEF KeysSound, Sent

\* A packet in the queue was there, or the handler wrote it.
LEMMA HandlesQueue ==
    ASSUME LoginType, Parts, NEW n, NEW packets, HandlesOn(n, packets), NEW j \in DOMAIN outbox'
    PROVE  \/ j \in DOMAIN outbox /\ outbox'[j] = outbox[j]
           \/ \E i \in DOMAIN packets :
                /\ j = Len(outbox) + i /\ outbox'[j].packet = packets[i]
                /\ outbox'[j].enc = conn.encryptor /\ outbox'[j].zip = (conn.threshold # 0)
<1>1. CASE j \in DOMAIN outbox
  BY <1>1, HandlesWrites
<1>2. CASE j \notin DOMAIN outbox
  <2>1. /\ j - Len(outbox) \in DOMAIN packets
        /\ outbox'[j] = [packet |-> packets[j - Len(outbox)], enc |-> conn.encryptor,
                         zip |-> conn.threshold # 0]
        /\ Len(outbox) \in Nat /\ DOMAIN packets = 1 .. Len(packets) /\ Len(packets) \in 0 .. 2
        /\ DOMAIN outbox' = 1 .. Len(outbox) + Len(packets)
    BY <1>2, HandlesWrites
  <2>2. PICK i : i = j - Len(outbox)
    OBVIOUS
  <2>3. i \in DOMAIN packets /\ j = Len(outbox) + i
    BY <2>1, <2>2
  <2>4. outbox'[j] = [packet |-> packets[i], enc |-> conn.encryptor, zip |-> conn.threshold # 0]
    BY <2>1, <2>2
  <2>5. /\ outbox'[j].packet = packets[i] /\ outbox'[j].enc = conn.encryptor
        /\ outbox'[j].zip = (conn.threshold # 0)
    BY <2>4
  <2> QED BY <2>3, <2>5
<1> QED BY <1>1, <1>2

LEMMA HandlesPhases ==
    ASSUME LoginType, Parts, NEW n, NEW packets, HandlesOn(n, packets)
    PROVE  PhasesSound'
<1>1. /\ Handled' = n /\ Last' = Last /\ UNCHANGED <<wire, sent, server>>
      /\ client'.kind = client.kind /\ client.state = StateFor(sent[n].phase)
      /\ client.state # "Handshake" /\ client'.state = StateAfter(n) /\ server.phase # "Handshake"
      /\ n \in 1 .. Last /\ Last \in Nat
  BY HandlesKnown
<1>2. PhasesSound
  BY DEF Parts
<1>3. \A i : StateAfter(i)' = StateAfter(i)
  <2>1. First' = First
    BY <1>1 DEF First
  <2>2. sent' = sent
    BY <1>1
  <2> QED BY <2>1, <2>2 DEF StateAfter, StateFor
<1>4. client'.state # "Handshake"
  <2>1. n # 0
    BY <1>1
  <2> QED BY <1>1, <2>1 DEF StateAfter
<1>5. \A j \in DOMAIN outbox' : server.phase \notin {"Handshake", "Closed"} => outbox'[j].packet \notin Opening
  <2> TAKE j \in DOMAIN outbox'
  <2>1. CASE j \in DOMAIN outbox /\ outbox'[j] = outbox[j]
    BY <1>2, <2>1 DEF PhasesSound
  <2>2. CASE \E i \in DOMAIN packets : outbox'[j].packet = packets[i]
    BY <2>2, HandlesPackets
  <2> QED BY <2>1, <2>2, HandlesQueue
<1>6. client'.state = StateAfter(Handled)'
  <2>1. StateAfter(Handled)' = StateAfter(n)
    <3>1. StateAfter(n)' = StateAfter(n)
      BY <1>3
    <3>2. StateAfter(Handled)' = StateAfter(n)'
      BY <1>1 DEF StateAfter
    <3> QED BY <3>1, <3>2
  <2> QED BY <1>1, <2>1
<1>7. \A i \in DOMAIN sent : StateFor(sent[i].phase) = StateAfter(i - 1)'
  <2> TAKE i \in DOMAIN sent
  <2>1. PICK k : k = i - 1
    OBVIOUS
  <2>2. StateFor(sent[i].phase) = StateAfter(k)
    BY <1>2, <2>1 DEF PhasesSound
  <2>3. StateAfter(k)' = StateAfter(k) /\ StateAfter(i - 1)' = StateAfter(k)'
    BY <1>3, <2>1
  <2> QED BY <2>2, <2>3
<1>8. server.phase \notin {"Handshake", "Closed"} /\ server.awaits = None =>
        StateFor(server.phase) = StateAfter(Last)'
  <2>1. PICK k : k = Last
    OBVIOUS
  <2>2. StateAfter(k)' = StateAfter(k) /\ StateAfter(Last)' = StateAfter(k)'
    BY <1>1, <1>3, <2>1
  <2> QED BY <1>2, <2>1, <2>2 DEF PhasesSound
<1> QED BY <1>1, <1>4, <1>5, <1>6, <1>7, <1>8 DEF PhasesSound, StateFor

LEMMA HandlesPlaced ==
    ASSUME LoginType, Parts, NEW n, NEW packets, HandlesOn(n, packets)
    PROVE  FramesPlaced' /\ LoginSound'
<1>1. UNCHANGED <<sent, server>>
  BY HandlesKnown
<1>2. FramesPlaced /\ LoginSound
  BY DEF Parts
<1> QED BY <1>1, <1>2 DEF FramesPlaced, LoginSound, Sent, Closed

LEMMA HandlesKind ==
    ASSUME LoginType, Parts, NEW n, NEW packets, HandlesOn(n, packets)
    PROVE  KindSound'
<1>1. /\ UNCHANGED <<sent, server>> /\ client'.kind = client.kind /\ n \in 1 .. Last
      /\ client.state = StateFor(sent[n].phase) /\ DOMAIN sent = 1 .. Last
  BY HandlesKnown
<1>2. KindSound
  BY DEF Parts
<1>3. ASSUME client.kind # "status", NEW j \in DOMAIN outbox' PROVE outbox'[j].packet # "ping"
  <2>1. CASE j \in DOMAIN outbox /\ outbox'[j] = outbox[j]
    BY <1>2, <1>3, <2>1 DEF KindSound
  <2>2. CASE \E i \in DOMAIN packets : outbox'[j].packet = packets[i]
    <3>1. client.state # "Status"
      <4>1. sent[n].phase \notin {"Status", "Ping"}
        BY <1>1, <1>2, <1>3 DEF KindSound
      <4> QED BY <1>1, <4>1 DEF StateFor
    <3>2. Answering(sent[n].packet, packets)
      BY DEF HandlesOn
    <3>3. \A i \in DOMAIN packets : packets[i] # "ping"
      BY <3>1, <3>2 DEF Answering
    <3> QED BY <2>2, <3>3
  <2> QED BY <2>1, <2>2, HandlesQueue
<1> QED BY <1>1, <1>2, <1>3 DEF KindSound

LEMMA HandlesAcks ==
    ASSUME LoginType, Parts, NEW n, NEW packets, HandlesOn(n, packets)
    PROVE  AcksSound'
<1>1. /\ n = Handled + 1 /\ Handled' = n /\ Last' = Last /\ n \in 1 .. Last
      /\ UNCHANGED <<wire, sent, server>> /\ Handled \in Nat /\ Last \in Nat
      /\ DOMAIN sent = 1 .. Last
  BY HandlesKnown
<1>2. AcksSound
  BY DEF Parts
<1>3. Closed' = Closed
  BY <1>1 DEF Closed
<1>4. \A i \in DOMAIN sent : sent[i].packet \in DOMAIN Acknowledgement =>
        \/ i <= n
        \/ i = Last /\ (Closed \/ server.awaits = Acknowledgement[sent[i].packet])
  <2>1. \A i \in DOMAIN sent : i <= Handled => i <= n
    BY <1>1
  <2>2. \A i \in DOMAIN sent : sent[i].packet \in DOMAIN Acknowledgement =>
        \/ i <= Handled
        \/ i = Last /\ (Closed \/ server.awaits = Acknowledgement[sent[i].packet])
    BY <1>2 DEF AcksSound
  <2> QED BY <2>1, <2>2
<1>5. ASSUME ~Closed, NEW j \in DOMAIN outbox', outbox'[j].packet \in Acknowledgements
      PROVE  /\ server.awaits = outbox'[j].packet /\ n = Last /\ j = Len(outbox) + 1
  <2>1. PICK i \in DOMAIN packets : j = Len(outbox) + i /\ outbox'[j].packet = packets[i]
    <3>1. ~(j \in DOMAIN outbox /\ outbox'[j] = outbox[j])
      BY <1>5, HandlesLast
    <3> QED BY <3>1, HandlesQueue
  <2>2. /\ i = 1 /\ sent[n].packet \in DOMAIN Acknowledgement
        /\ packets[i] = Acknowledgement[sent[n].packet]
    BY <1>5, <2>1, HandlesPackets
  <2>3. n = Last /\ server.awaits = Acknowledgement[sent[n].packet]
    BY <1>5, <2>2, HandlesLast
  <2> QED BY <2>1, <2>2, <2>3
<1>6. ASSUME ~Closed, NEW j \in DOMAIN outbox', outbox'[j].packet \in Acknowledgements
      PROVE  /\ server.awaits = outbox'[j].packet /\ n = Last
             /\ \A k \in DOMAIN outbox' : outbox'[k].packet \in Acknowledgements => k = j
  BY <1>5, <1>6
<1>7. /\ server.awaits # None =>
           /\ Last > 0 /\ sent[Last].packet \in DOMAIN Acknowledgement
           /\ server.awaits = Acknowledgement[sent[Last].packet]
           /\ server.phase = sent[Last].phase
      /\ \A i, j \in DOMAIN sent :
           Sent(i, "encryption_request") /\ Sent(j, "encryption_request") => i = j
      /\ \A i \in DOMAIN sent :
           Sent(i, "encryption_request") => "encryption_request" \in server.done
  BY <1>2 DEF AcksSound
<1> QED BY <1>1, <1>3, <1>4, <1>6, <1>7 DEF AcksSound, Sent

\* A handler that answers runs under the compression that the server expects.
LEMMA HandlesZipKnown ==
    ASSUME LoginType, Parts, NEW n, NEW packets, HandlesOn(n, packets), packets # <<>>
    PROVE  conn.threshold # 0 <=> server.inZip
<1>1. /\ n = Handled + 1 /\ n \in 1 .. Last /\ Handled \in Nat /\ Last \in Nat
      /\ DOMAIN sent = 1 .. Last /\ client.state = StateFor(sent[n].phase)
  BY HandlesKnown
<1>2. ZipSound
  BY DEF Parts
<1>3. Answering(sent[n].packet, packets) /\ Threshold # 0
  BY TransportAssumption DEF HandlesOn
<1>4. ASSUME NEW c \in DOMAIN sent, Sent(c, "set_compression") PROVE c \in 1 .. Handled
  <2> SUFFICES ASSUME c \notin 1 .. Handled PROVE FALSE
    OBVIOUS
  <2>1. c \in Handled + 1 .. Last /\ c >= n
    BY <1>1, <1>4
  <2>2. CASE c = n
    BY <1>3, <1>4, <2>2 DEF Answering, Sent
  <2>3. CASE c > n
    <3>1. n \in Handled + 1 .. c - 1
      BY <1>1, <2>1, <2>3
    <3>2. sent[n].packet \in {"wrong_success", "garbage"} /\ sent[n].phase = "Login"
      BY <1>2, <1>4, <2>1, <3>1 DEF ZipSound
    <3>3. client.state = "Login"
      BY <1>1, <3>2 DEF StateFor
    <3> QED BY <1>3, <3>2, <3>3 DEF Answering
  <2> QED BY <1>1, <2>1, <2>2, <2>3
<1>5. server.inZip <=> \E c \in DOMAIN sent : Sent(c, "set_compression")
  BY <1>2 DEF ZipSound
<1>6. conn.threshold = IF \E c \in 1 .. Handled : Sent(c, "set_compression") THEN Threshold ELSE 0
  BY <1>2 DEF ZipSound
<1>7. 1 .. Handled \subseteq DOMAIN sent
  BY <1>1
<1> QED BY <1>3, <1>4, <1>5, <1>6, <1>7

LEMMA HandlesWritesSound ==
    ASSUME LoginType, Parts, NEW n, NEW packets, HandlesOn(n, packets)
    PROVE  WritesSound'
<1>1. UNCHANGED <<sent, server>>
  BY HandlesKnown
<1>2. WritesSound
  BY DEF Parts
<1>3. /\ Len(outbox) \in Nat /\ DOMAIN outbox = 1 .. Len(outbox)
      /\ DOMAIN outbox' = 1 .. Len(outbox) + Len(packets)
      /\ \A j \in DOMAIN outbox : outbox'[j] = outbox[j]
      /\ DOMAIN packets = 1 .. Len(packets) /\ Len(packets) \in 0 .. 2
      /\ \A i \in DOMAIN packets : outbox'[Len(outbox) + i].packet = packets[i]
  BY HandlesWrites
<1> SUFFICES ASSUME ~Closed
             PROVE  /\ conn'.encryptor <=>
                         server.inKey \/ \E k \in DOMAIN outbox' : outbox'[k].packet = "encryption_response"
                    /\ \A j \in DOMAIN outbox' :
                        /\ outbox'[j].enc <=>
                             server.inKey \/ \E k \in 1 .. j - 1 : outbox'[k].packet = "encryption_response"
                        /\ outbox'[j].zip <=> server.inZip
  BY <1>1 DEF WritesSound, Closed
<1>4. \A k \in DOMAIN outbox : outbox[k].packet # "encryption_response"
  BY HandlesLast DEF Acknowledgements
<1>5. conn.encryptor <=> server.inKey
  BY <1>2, <1>4 DEF WritesSound
<1>6. \A i \in DOMAIN packets : packets[i] = "encryption_response" =>
        sent[n].packet = "encryption_request" /\ i = 1 /\ Len(packets) = 1
  <2> SUFFICES ASSUME NEW i \in DOMAIN packets, packets[i] = "encryption_response"
               PROVE  sent[n].packet = "encryption_request" /\ i = 1 /\ Len(packets) = 1
    OBVIOUS
  <2>1. /\ i = 1 /\ sent[n].packet \in DOMAIN Acknowledgement
        /\ packets[i] = Acknowledgement[sent[n].packet]
    BY HandlesPackets DEF Acknowledgements
  <2>2. sent[n].packet = "encryption_request"
    BY <2>1 DEF Acknowledgement
  <2>3. packets = <<Acknowledgement[sent[n].packet]>>
    BY <2>1, <2>2 DEF HandlesOn, Answering
  <2>4. Len(packets) = 1
    BY <2>3
  <2> QED BY <2>1, <2>2, <2>4
<1>7. \A k \in DOMAIN outbox' : outbox'[k].packet = "encryption_response" =>
        sent[n].packet = "encryption_request" /\ k = Len(outbox) + 1 /\ Len(packets) = 1
  <2> SUFFICES ASSUME NEW k \in DOMAIN outbox', outbox'[k].packet = "encryption_response"
               PROVE  sent[n].packet = "encryption_request" /\ k = Len(outbox) + 1 /\ Len(packets) = 1
    OBVIOUS
  <2>1. PICK i \in DOMAIN packets : k = Len(outbox) + i /\ outbox'[k].packet = packets[i]
    BY <1>4, HandlesQueue
  <2> QED BY <1>6, <2>1
<1>8. conn'.encryptor <=>
        server.inKey \/ \E k \in DOMAIN outbox' : outbox'[k].packet = "encryption_response"
  <2>1. conn'.encryptor = IF sent[n].packet = "encryption_request" THEN TRUE ELSE conn.encryptor
    BY HandlesTransforms
  <2>2. CASE sent[n].packet = "encryption_request"
    <3>1. 1 \in DOMAIN packets /\ packets[1] = "encryption_response"
      BY <2>2, HandlesPackets DEF Acknowledgement
    <3>2. outbox'[Len(outbox) + 1].packet = "encryption_response" /\ Len(outbox) + 1 \in DOMAIN outbox'
      BY <1>3, <3>1
    <3> QED BY <2>1, <2>2, <3>2
  <2>3. CASE sent[n].packet # "encryption_request"
    BY <1>5, <1>7, <2>1, <2>3
  <2> QED BY <2>2, <2>3
<1>9. ASSUME NEW j \in DOMAIN outbox'
      PROVE  /\ outbox'[j].enc <=>
                  server.inKey \/ \E k \in 1 .. j - 1 : outbox'[k].packet = "encryption_response"
             /\ outbox'[j].zip <=> server.inZip
  <2>1. \A k \in 1 .. j - 1 : outbox'[k].packet # "encryption_response"
    <3> SUFFICES ASSUME NEW k \in 1 .. j - 1, outbox'[k].packet = "encryption_response" PROVE FALSE
      OBVIOUS
    <3>1. k \in DOMAIN outbox'
      BY <1>3
    <3>2. k = Len(outbox) + 1 /\ Len(packets) = 1
      BY <1>7, <3>1
    <3> QED BY <1>3, <3>2
  <2>2. CASE j \in DOMAIN outbox /\ outbox'[j] = outbox[j]
    <3>1. \A k \in 1 .. j - 1 : outbox[k].packet # "encryption_response"
      BY <1>3, <1>4, <2>2
    <3>2. outbox[j].enc <=> server.inKey
      BY <1>2, <2>2, <3>1 DEF WritesSound
    <3>3. outbox[j].zip <=> server.inZip
      BY <1>2, <2>2 DEF WritesSound
    <3> QED BY <2>1, <2>2, <3>2, <3>3
  <2>3. CASE \E i \in DOMAIN packets :
               /\ j = Len(outbox) + i /\ outbox'[j].packet = packets[i]
               /\ outbox'[j].enc = conn.encryptor /\ outbox'[j].zip = (conn.threshold # 0)
    <3>1. packets # <<>>
      BY <2>3
    <3>2. conn.threshold # 0 <=> server.inZip
      BY <3>1, HandlesZipKnown
    <3> QED BY <1>5, <2>1, <2>3, <3>2
  <2> QED BY <2>2, <2>3, HandlesQueue
<1> QED BY <1>8, <1>9

LEMMA HandlesZip ==
    ASSUME LoginType, Parts, NEW n, NEW packets, HandlesOn(n, packets)
    PROVE  ZipSound'
<1>1. /\ n = Handled + 1 /\ Handled' = n /\ Last' = Last /\ n \in 1 .. Last
      /\ UNCHANGED <<sent, server>> /\ Handled \in Nat /\ Last \in Nat /\ DOMAIN sent = 1 .. Last
  BY HandlesKnown
<1>2. ZipSound
  BY DEF Parts
<1>3. conn'.threshold = IF sent[n].packet = "set_compression" THEN Threshold ELSE conn.threshold
  BY HandlesTransforms
<1>4. conn'.threshold = IF \E c \in 1 .. n : sent[c].packet = "set_compression" THEN Threshold ELSE 0
  <2>1. conn.threshold = IF \E c \in 1 .. Handled : sent[c].packet = "set_compression" THEN Threshold ELSE 0
    BY <1>2 DEF ZipSound, Sent
  <2>2. 1 .. n = (1 .. Handled) \cup {n}
    BY <1>1
  <2> QED BY <1>3, <2>1, <2>2
<1>5. \A c \in n + 1 .. Last : sent[c].packet = "set_compression" =>
        \A i \in n + 1 .. c - 1 :
            sent[i].packet \in {"wrong_success", "garbage"} /\ sent[i].phase = "Login"
  <2> SUFFICES ASSUME NEW c \in n + 1 .. Last, sent[c].packet = "set_compression",
                      NEW i \in n + 1 .. c - 1
               PROVE  sent[i].packet \in {"wrong_success", "garbage"} /\ sent[i].phase = "Login"
    OBVIOUS
  <2>1. c \in Handled + 1 .. Last /\ i \in Handled + 1 .. c - 1
    BY <1>1
  <2> QED BY <1>2, <2>1 DEF ZipSound, Sent
<1>6. /\ server.zip <=> server.inZip
      /\ server.zip <=> \E c \in DOMAIN sent : sent[c].packet = "set_compression"
  BY <1>2 DEF ZipSound, Sent
<1>7. ~server.faulty => \A i \in DOMAIN sent :
        sent[i].format = Format(\E c \in 1 .. i - 1 : sent[c].packet = "set_compression", sent[i].size)
  BY <1>2 DEF ZipSound, Sent
<1> QED BY <1>1, <1>4, <1>5, <1>6, <1>7 DEF ZipSound, Sent

\* In the login phase a handler answers what is asked, or acknowledges.
LEMMA HandlesLogin ==
    ASSUME LoginType, Parts, NEW n, NEW packets, HandlesOn(n, packets), server.phase = "Login"
    PROVE  /\ sent[n].packet \in DOMAIN LoginReply =>
                Len(packets) = 1 /\ packets[1] \in LoginAnswer
           /\ sent[n].packet \notin DOMAIN LoginReply =>
                \A i \in DOMAIN packets :
                    /\ packets[i] \in {"client_information", "encryption_response", "login_acknowledged"}
                    /\ packets[i] = "client_information" => server.awaits = "login_acknowledged"
<1>1. /\ n \in DOMAIN sent /\ client.state = StateFor(sent[n].phase)
  BY HandlesKnown
<1>2. OwedSound /\ LoginSound
  BY DEF Parts
<1>3. sent[n].phase = "Login"
  BY <1>1, <1>2 DEF OwedSound
<1>4. sent[n].packet \in {"success", "wrong_success", "disconnect", "garbage",
                          "encryption_request", "set_compression"} \cup DOMAIN LoginReply
  BY <1>1, <1>2, <1>3 DEF LoginSound
<1>5. client.state = "Login"
  BY <1>1, <1>3 DEF StateFor
<1>6. Answering(sent[n].packet, packets)
  BY DEF HandlesOn
<1>7. CASE sent[n].packet \in DOMAIN LoginReply
  <2>1. sent[n].packet \notin DOMAIN Acknowledgement
    BY <1>7 DEF LoginReply, Acknowledgement
  <2>2. PICK reply : reply = LoginReply[sent[n].packet]
    OBVIOUS
  <2>3. packets = <<reply>>
    BY <1>5, <1>6, <1>7, <2>1, <2>2 DEF Answering
  <2>4. reply \in LoginAnswer
    BY <1>7, <2>2 DEF LoginReply, LoginAnswer
  <2> QED BY <1>7, <2>3, <2>4
<1>8. CASE sent[n].packet \notin DOMAIN LoginReply /\ sent[n].packet \notin DOMAIN Acknowledgement
  <2>1. packets = <<>>
    BY <1>5, <1>6, <1>8 DEF Answering
  <2>2. DOMAIN packets = {}
    BY <2>1
  <2> QED BY <1>8, <2>2
<1>9. CASE sent[n].packet \notin DOMAIN LoginReply /\ sent[n].packet \in DOMAIN Acknowledgement
  <2>1. sent[n].packet \in {"success", "encryption_request"}
    BY <1>4, <1>9 DEF Acknowledgement
  <2>2. Acknowledgement[sent[n].packet] =
          IF sent[n].packet = "success" THEN "login_acknowledged" ELSE "encryption_response"
    BY <2>1 DEF Acknowledgement
  <2>3. server.awaits = Acknowledgement[sent[n].packet]
    BY <1>9, HandlesLast DEF Closed
  <2>4. ASSUME NEW i \in DOMAIN packets
        PROVE  /\ packets[i] \in {"client_information", "encryption_response", "login_acknowledged"}
               /\ packets[i] = "client_information" => server.awaits = "login_acknowledged"
    <3>1. packets[i] \in {Acknowledgement[sent[n].packet], "client_information"}
      BY <1>9, HandlesPackets
    <3>2. packets[i] = "client_information" => sent[n].packet = "success"
      BY <2>1, HandlesPackets
    <3> QED BY <2>1, <2>2, <2>3, <3>1, <3>2
  <2> QED BY <1>9, <2>4
<1> QED BY <1>7, <1>8, <1>9

LEMMA HandlesOwed ==
    ASSUME LoginType, Parts, NEW n, NEW packets, HandlesOn(n, packets)
    PROVE  OwedSound'
<1>1. /\ n = Handled + 1 /\ Handled' = n /\ Last' = Last /\ n \in 1 .. Last
      /\ UNCHANGED <<sent, server>> /\ Handled \in Nat /\ Last \in Nat /\ DOMAIN sent = 1 .. Last
  BY HandlesKnown
<1> SUFFICES ASSUME server.phase = "Login"
             PROVE  /\ \A i \in DOMAIN sent : sent[i].phase = "Login"
                    /\ \A j \in DOMAIN outbox' :
                        /\ outbox'[j].packet \in LoginAnswer \cup {"client_information", "encryption_response",
                                                      "login_acknowledged"}
                        /\ outbox'[j].packet = "client_information" => server.awaits = "login_acknowledged"
                    /\ server.owed = Cardinality(Unanswered') + Cardinality(Unread')
  BY <1>1 DEF OwedSound
<1>2. /\ \A i \in DOMAIN sent : sent[i].phase = "Login"
      /\ \A j \in DOMAIN outbox :
          /\ outbox[j].packet \in LoginAnswer \cup {"client_information", "encryption_response",
                                                    "login_acknowledged"}
          /\ outbox[j].packet = "client_information" => server.awaits = "login_acknowledged"
      /\ server.owed = Cardinality(Unanswered) + Cardinality(Unread)
  BY DEF OwedSound, Parts
<1>3. /\ sent[n].packet \in DOMAIN LoginReply => Len(packets) = 1 /\ packets[1] \in LoginAnswer
      /\ sent[n].packet \notin DOMAIN LoginReply =>
           \A i \in DOMAIN packets :
               /\ packets[i] \in {"client_information", "encryption_response", "login_acknowledged"}
               /\ packets[i] = "client_information" => server.awaits = "login_acknowledged"
  BY HandlesLogin
<1>4. "client_information" \notin LoginAnswer
  BY DEF LoginAnswer
<1>5. /\ Len(outbox) \in Nat /\ DOMAIN outbox = 1 .. Len(outbox)
      /\ DOMAIN outbox' = 1 .. Len(outbox) + Len(packets)
      /\ \A j \in DOMAIN outbox : outbox'[j] = outbox[j]
      /\ DOMAIN packets = 1 .. Len(packets) /\ Len(packets) \in 0 .. 2
      /\ \A i \in DOMAIN packets : outbox'[Len(outbox) + i].packet = packets[i]
  BY HandlesWrites
<1>6. ASSUME NEW j \in DOMAIN outbox'
      PROVE  /\ outbox'[j].packet \in LoginAnswer \cup {"client_information", "encryption_response",
                                                      "login_acknowledged"}
             /\ outbox'[j].packet = "client_information" => server.awaits = "login_acknowledged"
  <2>1. CASE j \in DOMAIN outbox /\ outbox'[j] = outbox[j]
    BY <1>2, <2>1
  <2>2. CASE \E i \in DOMAIN packets : outbox'[j].packet = packets[i]
    <3>1. PICK i \in DOMAIN packets : outbox'[j].packet = packets[i]
      BY <2>2
    <3>2. CASE sent[n].packet \in DOMAIN LoginReply
      <4>1. i = 1
        BY <1>3, <1>5, <3>2
      <4> QED BY <1>3, <1>4, <3>1, <3>2, <4>1
    <3>3. CASE sent[n].packet \notin DOMAIN LoginReply
      BY <1>3, <3>1, <3>3
    <3> QED BY <3>2, <3>3
  <2> QED BY <2>1, <2>2, HandlesQueue
<1>7. /\ IsFiniteSet(Unanswered) /\ IsFiniteSet(Unread)
      /\ Cardinality(Unanswered) \in Nat /\ Cardinality(Unread) \in Nat
  BY UnansweredFinite, FS_CardinalityType
<1>8. Unanswered' = {i \in n + 1 .. Last : sent[i].packet \in DOMAIN LoginReply}
  BY <1>1 DEF Unanswered
<1>9. CASE sent[n].packet \in DOMAIN LoginReply
  <2>1. n \in Unanswered /\ Unanswered' = Unanswered \ {n}
    BY <1>1, <1>8, <1>9 DEF Unanswered
  <2>2. Cardinality(Unanswered \ {n}) = Cardinality(Unanswered) - 1
    BY <1>7, <2>1, FS_RemoveElement
  <2>3. PICK k : k = Len(outbox) + 1
    OBVIOUS
  <2>4. k \notin Unread /\ outbox'[k].packet \in LoginAnswer /\ DOMAIN outbox' = DOMAIN outbox \cup {k}
    <3>1. Len(packets) = 1 /\ packets[1] \in LoginAnswer /\ 1 \in DOMAIN packets
      BY <1>3, <1>5, <1>9
    <3>2. outbox'[k].packet \in LoginAnswer
      BY <1>5, <2>3, <3>1
    <3>3. k \notin DOMAIN outbox /\ DOMAIN outbox' = DOMAIN outbox \cup {k}
      BY <1>5, <2>3, <3>1
    <3> QED BY <3>2, <3>3 DEF Unread
  <2>5. Unread' = Unread \cup {k}
    BY <1>5, <2>4 DEF Unread
  <2>6. Cardinality(Unread \cup {k}) = Cardinality(Unread) + 1
    BY <1>7, <2>4, FS_AddElement
  <2>7. server.owed = (Cardinality(Unanswered) - 1) + (Cardinality(Unread) + 1)
    BY <1>2, <1>7
  <2> QED BY <1>2, <1>6, <2>1, <2>2, <2>5, <2>6, <2>7
<1>10. CASE sent[n].packet \notin DOMAIN LoginReply
  <2>1. n \notin Unanswered /\ Unanswered' = Unanswered
    <3>1. Unanswered' \subseteq Unanswered
      BY <1>1, <1>8 DEF Unanswered
    <3>2. Unanswered \subseteq Unanswered'
      BY <1>1, <1>8, <1>10 DEF Unanswered
    <3>3. n \notin Unanswered
      BY <1>10 DEF Unanswered
    <3> QED BY <3>1, <3>2, <3>3
  <2>2. Unread' = Unread
    <3>1. Unread \subseteq Unread'
      BY <1>5 DEF Unread
    <3>2. Unread' \subseteq Unread
      <4> SUFFICES ASSUME NEW j \in DOMAIN outbox', outbox'[j].packet \in LoginAnswer
                   PROVE  j \in Unread
        BY DEF Unread
      <4>1. ~ \E i \in DOMAIN packets : outbox'[j].packet = packets[i]
        BY <1>3, <1>10 DEF LoginAnswer
      <4>2. j \in DOMAIN outbox /\ outbox'[j] = outbox[j]
        BY <4>1, HandlesQueue
      <4> QED BY <4>2 DEF Unread
    <3> QED BY <3>1, <3>2
  <2> QED BY <1>2, <1>6, <2>1, <2>2
<1> QED BY <1>9, <1>10

LEMMA HandlesRegistries ==
    ASSUME LoginType, Parts, NEW n, NEW packets, HandlesOn(n, packets)
    PROVE  RegistriesSound'
<1>1. /\ n = Handled + 1 /\ Handled' = n /\ Last' = Last /\ n \in 1 .. Last
      /\ UNCHANGED <<sent, server>> /\ Handled \in Nat /\ Last \in Nat /\ DOMAIN sent = 1 .. Last
      /\ client.state = StateFor(sent[n].phase)
  BY HandlesKnown
<1>2. RegistriesSound /\ FramesPlaced
  BY DEF Parts
<1>3. /\ client'.state = StateFrom(sent[n].packet)
      /\ client'.registries = IF sent[n].packet = "finish" THEN Merged(client.registries, client.phase)
                              ELSE client.registries
      /\ client'.phase = IF sent[n].packet = "finish" THEN [r \in Registries |-> 0]
                         ELSE IF sent[n].packet \in Registries
                              THEN [client.phase EXCEPT ![sent[n].packet] = n]
                              ELSE client.phase
  BY DEF HandlesOn, Leads
<1>4. /\ sent[n].packet \in Registries \cup {"finish"} => client.state = "Configuration"
      /\ sent[n].packet \in {"start_configuration", "login"} => client.state = "Play"
  BY <1>1, <1>2 DEF FramesPlaced, StateFor
<1>5. client.phase \in [Registries -> 0 .. MaxSent] /\ client.registries \in [Registries -> 0 .. MaxSent]
  BY DEF LoginType
<1>6. "finish" \notin Registries
  BY DEF Registries
<1>7. ASSUME NEW r \in Registries
      PROVE  LatestIs(r, Handled, Merged(client.registries, client.phase)[r])'
  <2>1. PICK v : v = Merged(client.registries, client.phase)[r]
    OBVIOUS
  <2>2. PICK w : w = Merged(client.registries, client.phase)[r]'
    OBVIOUS
  <2>3. v \in 0 .. Handled /\ (v > 0 => sent[v].packet = r) /\ \A i \in v + 1 .. Handled : sent[i].packet # r
    BY <1>2, <2>1 DEF RegistriesSound, LatestIs, Sent
  <2>4. v = IF client.phase[r] = 0 THEN client.registries[r] ELSE client.phase[r]
    BY <2>1 DEF Merged
  <2>5. w = IF client'.phase[r] = 0 THEN client'.registries[r] ELSE client'.phase[r]
    BY <2>2 DEF Merged
  <2>6. w = IF sent[n].packet = r THEN n ELSE v
    <3>1. CASE sent[n].packet = r
      <4>1. client'.phase[r] = n
        BY <1>3, <1>5, <1>6, <3>1
      <4> QED BY <1>1, <2>5, <3>1, <4>1
    <3>2. CASE sent[n].packet = "finish"
      <4>1. client'.phase[r] = 0 /\ client'.registries[r] = v
        BY <1>3, <2>1, <3>2
      <4> QED BY <1>6, <2>5, <3>2, <4>1
    <3>3. CASE sent[n].packet # "finish" /\ sent[n].packet # r
      <4>1. client'.phase[r] = client.phase[r]
        BY <1>3, <1>5, <3>3
      <4>2. client'.registries[r] = client.registries[r]
        BY <1>3, <3>3
      <4> QED BY <2>4, <2>5, <3>3, <4>1, <4>2
    <3> QED BY <3>1, <3>2, <3>3
  <2>7. w \in 0 .. n /\ (w > 0 => sent[w].packet = r) /\ \A i \in w + 1 .. n : sent[i].packet # r
    <3>1. CASE sent[n].packet = r
      BY <1>1, <2>6, <3>1
    <3>2. CASE sent[n].packet # r
      <4>1. \A i \in v + 1 .. n : i = n \/ i \in v + 1 .. Handled
        BY <1>1, <2>3
      <4>2. \A i \in v + 1 .. n : sent[i].packet # r
        BY <2>3, <3>2, <4>1
      <4>3. v \in 0 .. n
        BY <1>1, <2>3
      <4> QED BY <2>3, <2>6, <3>2, <4>2, <4>3
    <3> QED BY <3>1, <3>2
  <2>8. LatestIs(r, n, w)'
    BY <1>1, <2>7 DEF LatestIs, Sent
  <2> QED BY <1>1, <2>2, <2>8 DEF LatestIs, Sent
<1>8. client'.state # "Configuration" => client'.phase = [r \in Registries |-> 0]
  <2> SUFFICES ASSUME client'.state # "Configuration", sent[n].packet # "finish"
               PROVE  client'.phase = [r \in Registries |-> 0]
    BY <1>3
  <2>1. sent[n].packet \notin Registries /\ client.state # "Configuration"
    BY <1>3, <1>4 DEF StateFrom, Registries
  <2>2. client.phase = [r \in Registries |-> 0]
    BY <1>2, <2>1 DEF RegistriesSound
  <2> QED BY <1>3, <2>1, <2>2
<1>9. client'.state = "Session" => \E i \in 1 .. n : sent[i].packet = "login"
  <2> SUFFICES ASSUME client'.state = "Session" PROVE \E i \in 1 .. n : sent[i].packet = "login"
    OBVIOUS
  <2>1. CASE sent[n].packet = "login"
    BY <1>1, <2>1
  <2>2. CASE sent[n].packet # "login"
    <3>1. client.state = "Session"
      BY <1>3, <2>2 DEF StateFrom
    <3>2. PICK i \in 1 .. Handled : sent[i].packet = "login"
      BY <1>2, <3>1 DEF RegistriesSound, Sent
    <3>3. i \in 1 .. n
      BY <1>1
    <3> QED BY <3>2, <3>3
  <2> QED BY <2>1, <2>2
<1>10. /\ \A i \in DOMAIN sent : sent[i].packet = "login" =>
            server.phase \in {"Session", "Closed"} /\ server.awaits = None
       /\ \A i, k \in DOMAIN sent : sent[i].packet = "login" /\ i < k => sent[k].phase = "Session"
  BY <1>2 DEF RegistriesSound, Sent
<1> QED BY <1>1, <1>7, <1>8, <1>9, <1>10 DEF RegistriesSound, Sent

LEMMA HandlesParts ==
    ASSUME LoginType, Parts, NEW n, NEW packets, HandlesOn(n, packets)
    PROVE  Parts'
<1>1. StreamSound'
  BY HandleStream DEF HandlesOn, Parts
<1>2. KeysSound' /\ PhasesSound' /\ AcksSound' /\ KindSound'
  BY HandlesKeys, HandlesPhases, HandlesAcks, HandlesKind
<1>3. FramesPlaced' /\ LoginSound' /\ ZipSound'
  BY HandlesPlaced, HandlesZip
<1>4. WritesSound' /\ OwedSound' /\ RegistriesSound'
  BY HandlesWritesSound, HandlesOwed, HandlesRegistries
<1> QED BY <1>1, <1>2, <1>3, <1>4 DEF Parts

-----------------------------------------------------------------------------
(* The three properties.                                                   *)

\* What a finished configuration and no login phase since leave in the registries is what
\* the server sent last.
LEMMA LatestRegistries == LoginType /\ Handled <= Last /\ FramesPlaced /\ RegistriesSound => RegistriesLatest
<1> SUFFICES ASSUME LoginType, Handled <= Last, FramesPlaced, RegistriesSound, client.state = "Session",
                    NEW r \in Registries
             PROVE  client.registries[r] =
                      IF {k \in DOMAIN sent : sent[k].packet = r} = {} THEN 0
                      ELSE CHOOSE n \in {k \in DOMAIN sent : sent[k].packet = r} :
                             \A m \in {k \in DOMAIN sent : sent[k].packet = r} : m <= n
  BY DEF RegistriesLatest
<1>1. Handled \in Nat /\ Last \in Nat /\ DOMAIN sent = 1 .. Last
  BY DEF LoginType, Handled, Last
<1>2. PICK v : v = client.registries[r]
  OBVIOUS
<1>3. v = Merged(client.registries, client.phase)[r]
  <2>1. client.phase = [s \in Registries |-> 0]
    BY DEF RegistriesSound
  <2> QED BY <1>2, <2>1 DEF Merged
<1>4. v \in 0 .. Handled /\ (v > 0 => sent[v].packet = r) /\ \A i \in v + 1 .. Handled : sent[i].packet # r
  BY <1>3 DEF RegistriesSound, LatestIs, Sent
<1>5. PICK frames : frames = {n \in DOMAIN sent : sent[n].packet = r}
  OBVIOUS
<1>6. PICK login \in 1 .. Handled : Sent(login, "login")
  BY DEF RegistriesSound
<1>7. \A i \in frames : i <= Handled
  <2> SUFFICES ASSUME NEW i \in frames, ~(i <= Handled) PROVE FALSE
    OBVIOUS
  <2>1. i \in DOMAIN sent /\ sent[i].packet = r /\ login \in DOMAIN sent /\ login < i
    BY <1>1, <1>5, <1>6
  <2>2. sent[i].phase = "Session"
    BY <1>6, <2>1 DEF RegistriesSound
  <2>3. sent[i].phase = "Configuration"
    BY <2>1 DEF FramesPlaced
  <2> QED BY <2>2, <2>3
<1>8. \A i \in frames : i <= v /\ i \in Nat
  <2> TAKE i \in frames
  <2>1. i \in 1 .. Handled /\ sent[i].packet = r
    BY <1>1, <1>5, <1>7
  <2>2. i \notin v + 1 .. Handled
    BY <1>4, <2>1
  <2> QED BY <1>1, <1>4, <2>1, <2>2
<1>9. CASE v = 0
  <2>1. frames = {}
    BY <1>1, <1>5, <1>8, <1>9
  <2> QED BY <1>2, <1>5, <1>9, <2>1
<1>10. CASE v # 0
  <2>1. v \in frames
    BY <1>1, <1>4, <1>5, <1>10
  <2>2. \A n \in frames : (\A m \in frames : m <= n) => n = v
    BY <1>4, <1>8, <2>1
  <2>3. (CHOOSE n \in frames : \A m \in frames : m <= n) = v
    BY <1>8, <2>1, <2>2
  <2> QED BY <1>2, <1>5, <2>1, <2>3
<1> QED BY <1>9, <1>10

\* A frame that ends the login leaves the client in the state it was in, and the session
\* does not end on a frame.
LEMMA HandlerEnds ==
    ASSUME LoginType, NEW n \in DOMAIN sent, Handler(n), ~Running'
    PROVE  client'.state # "Session" /\ client'.outcome # "framing"
<1>1. /\ Taken(n) \in ClientRecord /\ Taken(n).state = client.state /\ Taken(n).outcome = client.outcome
  BY TakenFields
<1>2. client.outcome = "running"
  BY DEF Handler, HandleStatus, HandleOfflineLogin, HandleOnlineLogin, HandleConfiguration,
         HandleAcceptance, HandleSession, Arrived, Reading, Running
<1>3. client' # Taken(n)
  BY <1>1, <1>2 DEF Running
<1>4. ASSUME NEW reason, Fails(n, reason) PROVE client'.state = client.state
  <2>1. client' = [Taken(n) EXCEPT !.outcome = reason]
    BY <1>4 DEF Fails, Answer
  <2> QED BY <1>1, <2>1 DEF ClientRecord
<1>5. client'.outcome # "framing"
  <2>1. PICK packets : Handles(n, packets)
    BY HandlersDescribed DEF Described
  <2> QED BY <2>1 DEF Handles
<1>6. CASE HandleStatus(n)
  <2>1. client.state = "Status" /\ client'.state = client.state
    <3>1. CASE Answer(n, <<>>, [Taken(n) EXCEPT !.outcome = "status"])
      BY <1>1, <1>6, <3>1 DEF Answer, HandleStatus, ClientRecord
    <3>2. CASE Fails(n, "protocol")
      BY <1>4, <1>6, <3>2 DEF HandleStatus
    <3> QED BY <1>3, <1>6, <3>1, <3>2 DEF HandleStatus, Answer
  <2> QED BY <1>5, <2>1
<1>7. ASSUME client.state = "Login", LoginAnswers(n, sent[n].packet) PROVE client'.state # "Session"
  <2>1. CASE Fails(n, "refused") \/ Fails(n, "profile_mismatch")
    BY <1>4, <1>7, <2>1
  <2>2. CASE Answer(n, <<"login_acknowledged", "client_information">>,
                    [Taken(n) EXCEPT !.state = "Configuration", !.count = 0])
    BY <1>1, <2>2 DEF Answer, ClientRecord
  <2> QED BY <1>3, <1>7, <2>1, <2>2 DEF LoginAnswers, Answer
<1>8. CASE HandleOfflineLogin(n)
  <2>1. CASE Fails(n, "unsupported")
    BY <1>4, <1>5, <1>8, <2>1 DEF HandleOfflineLogin
  <2> QED BY <1>5, <1>7, <1>8, <2>1 DEF HandleOfflineLogin
<1>9. CASE HandleOnlineLogin(n)
  <2>1. CASE Fails(n, "join_failed")
    BY <1>4, <1>5, <1>9, <2>1 DEF HandleOnlineLogin
  <2> QED BY <1>3, <1>5, <1>7, <1>9, <2>1 DEF HandleOnlineLogin
<1>10. CASE HandleConfiguration(n)
  <2>1. client.state = "Configuration"
    BY <1>10 DEF HandleConfiguration
  <2>2. CASE Fails(n, "refused")
    BY <1>4, <1>5, <2>1, <2>2
  <2>3. CASE Answer(n, <<>>, [Taken(n) EXCEPT !.phase[sent[n].packet] = n])
    <3>1. client'.state = client.state
      BY <1>1, <2>3 DEF Answer, ClientRecord
    <3> QED BY <1>5, <2>1, <3>1
  <2>4. CASE Answer(n, <<"finish_acknowledged">>,
                    [Taken(n) EXCEPT !.state = "Play", !.count = 0, !.loaded = FALSE,
                                     !.registries = Merged(client.registries, client.phase),
                                     !.phase = [r \in Registries |-> 0]])
    <3>1. client'.state = "Play"
      BY <1>1, <2>4 DEF Answer, ClientRecord
    <3> QED BY <1>5, <3>1
  <2> QED BY <1>3, <1>10, <2>2, <2>3, <2>4 DEF HandleConfiguration, Answer
<1>11. CASE HandleAcceptance(n)
  <2>1. client.state = "Play"
    BY <1>11 DEF HandleAcceptance
  <2>2. CASE Fails(n, "refused")
    BY <1>4, <1>5, <2>1, <2>2
  <2>3. CASE client' = [Taken(n) EXCEPT !.loaded = TRUE]
    <3>1. client'.state = client.state
      BY <1>1, <2>3 DEF ClientRecord
    <3> QED BY <1>5, <2>1, <3>1
  <2>4. CASE client' = [Taken(n) EXCEPT !.state = "Configuration", !.count = 0, !.rounds = @ + 1]
    <3>1. client'.state = "Configuration"
      BY <1>1, <2>4 DEF ClientRecord
    <3> QED BY <1>5, <3>1
  <2>5. CASE client' = [Taken(n) EXCEPT !.outcome = "packet_limit"]
    <3>1. client'.state = client.state
      BY <1>1, <2>5 DEF ClientRecord
    <3> QED BY <1>5, <2>1, <3>1
  <2>6. CASE client' = [Taken(n) EXCEPT !.state = "Session"]
    <3>1. client'.outcome = client.outcome
      BY <1>1, <2>6 DEF ClientRecord
    <3> QED BY <1>2, <3>1 DEF Running
  <2> QED BY <1>3, <1>11, <2>2, <2>3, <2>4, <2>5, <2>6 DEF HandleAcceptance, Answer
<1>12. CASE HandleSession(n)
  <2>1. client' = [Taken(n) EXCEPT !.count = 0]
    BY <1>12 DEF HandleSession, Answer
  <2>2. client'.outcome = client.outcome
    BY <1>1, <2>1 DEF ClientRecord
  <2> QED BY <1>2, <2>2 DEF Running
<1> QED BY <1>6, <1>8, <1>9, <1>10, <1>11, <1>12 DEF Handler

LEMMA LatestNext == (LoginType /\ Handled <= Last /\ FramesPlaced /\ RegistriesSound)' => RegistriesLatest'
BY LatestRegistries, PTL

\* What has been handled rightly stays so.
LEMMA SameIntact ==
    ASSUME LoginType, FramesIntact, Handled <= Last, client'.log = client.log,
           client'.outcome = client.outcome, server.faulty => server'.faulty,
           \A i \in 1 .. Last : sent'[i] = sent[i]
    PROVE  FramesIntact'
<1>1. DOMAIN client.log = 1 .. Handled /\ Handled \in Nat /\ Last \in Nat
  BY DEF LoginType, Handled, Last
<1>2. \A i \in DOMAIN client.log : sent'[i] = sent[i]
  BY <1>1
<1> QED BY <1>2 DEF FramesIntact

\* The parts of the invariant that a step of a running login keeps imply the rest.
LEMMA PartsSuffice ==
    ASSUME LoginType', Parts', FramesIntact', ServerUnderstands'
    PROVE  LoginInv'
<1>1. (Handled <= Last)'
  BY DEF Parts, StreamSound
<1>2. RegistriesLatest'
  BY <1>1, LatestNext DEF Parts
<1> QED BY <1>1, <1>2 DEF LoginInv

LEMMA QuitsInv ==
    ASSUME LoginInv, LoginType', NEW reason, Quits(reason)
    PROVE  LoginInv'
<1>1. /\ LoginType /\ FramesIntact /\ ServerUnderstands /\ RegistriesLatest /\ Handled <= Last
      /\ Running => Parts
  BY DEF LoginInv
<1>2. /\ Running /\ reason # "running" /\ client' = [client EXCEPT !.outcome = reason]
      /\ sent' = sent /\ server' = server
      /\ reason = "framing" => BadFrame \/ Overflow
  BY DEF Quits
<1>3. /\ client'.outcome = reason /\ client'.log = client.log /\ client'.state = client.state
      /\ client'.registries = client.registries
  BY <1>1, <1>2 DEF LoginType
<1>4. ~Running'
  BY <1>2, <1>3 DEF Running
<1>5. reason = "framing" => server.faulty
  BY <1>1, <1>2, NoBadFrame, NoOverflow DEF Parts
<1>6. FramesIntact'
  BY <1>1, <1>2, <1>3, <1>5 DEF FramesIntact
<1>7. ServerUnderstands' /\ RegistriesLatest'
  BY <1>1, <1>2, <1>3 DEF ServerUnderstands, RegistriesLatest
<1>8. (Handled <= Last)'
  BY <1>1, <1>2, <1>3 DEF Handled, Last
<1> QED BY <1>4, <1>6, <1>7, <1>8 DEF LoginInv

LEMMA ConnectsInv ==
    ASSUME LoginInv, LoginType', Connects
    PROVE  LoginInv'
<1>1. /\ LoginType /\ FramesIntact /\ ServerUnderstands /\ Handled <= Last /\ Parts
  BY DEF LoginInv, Connects
<1>2. Parts' /\ client'.log = client.log /\ client'.outcome = client.outcome
      /\ sent' = sent /\ server' = server
  BY <1>1, ConnectParts, ConnectsType DEF Connects
<1>3. FramesIntact'
  BY <1>1, <1>2, SameIntact
<1>4. ServerUnderstands'
  BY <1>1, <1>2 DEF ServerUnderstands
<1> QED BY <1>2, <1>3, <1>4, PartsSuffice

LEMMA WaitsInv ==
    ASSUME LoginInv, LoginType', NEW waiting, Waits(waiting)
    PROVE  LoginInv'
<1>1. /\ LoginType /\ FramesIntact /\ ServerUnderstands /\ Handled <= Last /\ Parts
  BY DEF LoginInv, Waits
<1>2. Parts'
  BY <1>1, RestParts DEF Waits
<1>3. client'.log = client.log /\ client'.outcome = client.outcome /\ sent' = sent /\ server' = server
  BY <1>1 DEF Waits, LoginType
<1>4. FramesIntact' /\ ServerUnderstands'
  BY <1>1, <1>3, SameIntact DEF ServerUnderstands
<1> QED BY <1>2, <1>4, PartsSuffice

LEMMA ReceivesInv ==
    ASSUME LoginInv, LoginType', NEW n, Receives(n)
    PROVE  LoginInv'
<1>1. /\ LoginType /\ FramesIntact /\ ServerUnderstands /\ Handled <= Last /\ Parts
  BY DEF LoginInv, Receives
<1>2. Parts'
  BY <1>1, ReceiveParts
<1>3. client' = client /\ sent' = sent /\ server' = server
  BY DEF Receives
<1>4. FramesIntact' /\ ServerUnderstands'
  BY <1>1, <1>3, SameIntact DEF ServerUnderstands
<1> QED BY <1>2, <1>4, PartsSuffice

LEMMA SendsInv ==
    ASSUME LoginInv, LoginType', NEW frame, Sends(frame)
    PROVE  LoginInv'
<1>1. /\ LoginType /\ FramesIntact /\ ServerUnderstands /\ Handled <= Last /\ Parts
  BY DEF LoginInv, Sends
<1>2. Parts'
  BY <1>1, SendParts
<1>3. client' = client /\ (server.faulty => server'.faulty) /\ server'.confused = server.confused
  BY DEF Sends
<1>4. \A i \in 1 .. Last : sent'[i] = sent[i]
  BY <1>1, SendsFrame
<1>5. FramesIntact' /\ ServerUnderstands'
  BY <1>1, <1>3, <1>4, SameIntact DEF ServerUnderstands
<1> QED BY <1>2, <1>5, PartsSuffice

LEMMA ClosesInv ==
    ASSUME LoginInv, LoginType', ServerCloses
    PROVE  LoginInv'
<1>1. /\ LoginType /\ FramesIntact /\ ServerUnderstands /\ Handled <= Last /\ Parts
  BY DEF LoginInv, ServerCloses
<1>2. Parts'
  BY <1>1, CloseParts
<1>3. client' = client /\ sent' = sent
  BY DEF ServerCloses
<1>4. server'.faulty = server.faulty /\ server'.confused = server.confused
  BY <1>1, TypeParts DEF ServerCloses, ServerRecord
<1>5. FramesIntact' /\ ServerUnderstands'
  BY <1>1, <1>3, <1>4, SameIntact DEF ServerUnderstands
<1> QED BY <1>2, <1>5, PartsSuffice

\* What the server reads is enciphered and compressed as it expects.
LEMMA ReadsInv ==
    ASSUME LoginInv, LoginType', Reads(outbox[1])
    PROVE  LoginInv'
<1>1. /\ LoginType /\ FramesIntact /\ ServerUnderstands /\ Handled <= Last /\ Parts
  BY DEF LoginInv, Reads
<1>2. PICK got : got = outbox[1]
  OBVIOUS
<1>3. Reads(got)
  BY <1>2
<1>4. Parts'
  BY <1>1, <1>3, ReadParts
<1>5. client' = client /\ sent' = sent /\ server'.faulty = server.faulty
  BY <1>3 DEF Reads
<1>6. FramesIntact'
  BY <1>1, <1>5, SameIntact
<1>7. (got.enc <=> server.inKey) /\ (got.zip <=> server.inZip)
  BY <1>1, <1>3, ReadWrites
<1>8. server'.confused <=> server.confused \/ ~(got.enc <=> server.inKey) \/ ~(got.zip <=> server.inZip)
  BY <1>3 DEF Reads
<1>9. ServerUnderstands'
  BY <1>1, <1>7, <1>8 DEF ServerUnderstands
<1> QED BY <1>4, <1>6, <1>9, PartsSuffice

\* A frame is handled in its turn, whole, and in the phase it was sent in.
LEMMA HandlerInv ==
    ASSUME LoginInv, LoginType', NEW n \in DOMAIN sent, NextFrame(conn, sent) = n, Handler(n)
    PROVE  LoginInv'
<1>1. PICK packets :
        /\ Handles(n, packets)
        /\ Placed(n) /\ Running' => Leads(n, sent[n].packet) /\ Answering(sent[n].packet, packets)
  BY HandlersDescribed DEF Described, LoginInv
<1>2. /\ LoginType /\ FramesIntact /\ ServerUnderstands /\ Handled <= Last /\ Parts
  BY <1>1 DEF LoginInv, Handles, Arrived, Reading
<1>3. Placed(n)
  BY <1>1, <1>2, HandledInPhase
<1>4. /\ n = Handled + 1 /\ Handled' = n /\ Last' = Last
      /\ \A i \in 1 .. Handled : client'.log[i] = client.log[i]
      /\ client'.log[n] = <<n, client.state>>
  BY <1>1, <1>2, HandleStream DEF Parts
<1>5. /\ Handled \in Nat /\ DOMAIN client.log = 1 .. Handled /\ DOMAIN client'.log = 1 .. Handled'
      /\ DOMAIN sent = 1 .. Last /\ Last \in Nat
  <2>1. client \in ClientRecord /\ client' \in ClientRecord /\ sent \in Seq(Frame)
    BY <1>2, TypeParts, TypePartsNext
  <2>2. PICK log : log = client.log
    OBVIOUS
  <2>3. PICK next : next = client'.log
    OBVIOUS
  <2>4. log \in Seq((0 .. MaxSent) \X States) /\ next \in Seq((0 .. MaxSent) \X States)
    BY <2>1, <2>2, <2>3 DEF ClientRecord
  <2>5. Len(log) \in Nat /\ DOMAIN log = 1 .. Len(log) /\ DOMAIN next = 1 .. Len(next)
    BY <2>4
  <2>6. DOMAIN sent = 1 .. Last /\ Last \in Nat
    BY <2>1 DEF Last
  <2> QED BY <2>2, <2>3, <2>5, <2>6 DEF Handled
<1>6. sent' = sent /\ server' = server /\ client'.outcome # "framing"
  BY <1>1 DEF Handles
<1>7. FramesIntact'
  <2>1. ASSUME NEW i \in 1 .. n
        PROVE  /\ client'.log[i][1] = i
               /\ client'.log[i][2] = IF sent[i].phase = "Ping" THEN "Status" ELSE sent[i].phase
    <3>1. CASE i = n
      <4>1. client.state = StateFor(sent[n].phase)
        BY <1>3 DEF Placed
      <4> QED BY <1>4, <3>1, <4>1 DEF StateFor
    <3>2. CASE i # n
      <4>1. i \in 1 .. Handled
        BY <1>4, <1>5, <3>2
      <4> QED BY <1>2, <1>4, <1>5, <4>1 DEF FramesIntact
    <3> QED BY <3>1, <3>2
  <2> QED BY <1>4, <1>5, <1>6, <2>1 DEF FramesIntact
<1>8. ServerUnderstands'
  BY <1>2, <1>6 DEF ServerUnderstands
<1>9. CASE Running'
  <2>1. HandlesOn(n, packets)
    BY <1>1, <1>3, <1>9 DEF HandlesOn
  <2>2. Parts'
    BY <1>2, <2>1, HandlesParts
  <2> QED BY <1>7, <1>8, <2>2, PartsSuffice
<1>10. CASE ~Running'
  <2>1. RegistriesLatest'
    BY <1>2, <1>10, HandlerEnds DEF RegistriesLatest
  <2>2. (Handled <= Last)'
    BY <1>4, <1>5
  <2> QED BY <1>7, <1>8, <1>10, <2>1, <2>2 DEF LoginInv
<1> QED BY <1>9, <1>10

LEMMA LoginNextInv == LoginInv /\ [Next]_vars => LoginInv'
<1> SUFFICES ASSUME LoginInv, [Next]_vars PROVE LoginInv'
  OBVIOUS
<1>1. LoginType /\ LoginType'
  BY TypeStep DEF LoginInv
<1>2. CASE UNCHANGED vars
  <2>1. UNCHANGED <<conn, client, wire, outbox, sent, server>>
    BY <1>2 DEF vars
  <2>2. CASE Running
    <3>1. Parts' /\ FramesIntact' /\ ServerUnderstands'
      BY <1>1, <2>1, <2>2, RestParts, SameIntact DEF LoginInv, ServerUnderstands
    <3> QED BY <1>1, <3>1, PartsSuffice
  <2>3. CASE ~Running
    <3>1. FramesIntact'
      BY <1>1, <2>1, SameIntact DEF LoginInv
    <3>2. ServerUnderstands' /\ RegistriesLatest'
      BY <2>1 DEF LoginInv, ServerUnderstands, RegistriesLatest
    <3>3. (Handled <= Last)' /\ ~Running'
      BY <2>1, <2>3 DEF LoginInv, Handled, Last, Running
    <3> QED BY <1>1, <3>1, <3>2, <3>3 DEF LoginInv
  <2> QED BY <2>2, <2>3
<1>3. CASE Next
  BY <1>1, <1>2, <1>3, NextSteps, QuitsInv, ConnectsInv, WaitsInv, ReceivesInv, HandlerInv,
     SendsInv, ClosesInv, ReadsInv
<1> QED BY <1>2, <1>3

LEMMA LoginInitInv == Init => LoginInv
<1> SUFFICES ASSUME Init PROVE LoginInv
  OBVIOUS
<1>1. LoginType
  BY InitType
<1>2. conn = [buffer |-> <<>>, decryptor |-> 0, encryptor |-> FALSE, threshold |-> 0]
      /\ wire = <<>> /\ outbox = <<>> /\ sent = <<>>
  BY DEF Init, NewConnection
<1>3. server = [phase |-> "Handshake", key |-> 0, zip |-> FALSE, inKey |-> FALSE,
                inZip |-> FALSE, awaits |-> None, owed |-> 0, done |-> {},
                confused |-> FALSE, faulty |-> FALSE]
  BY DEF Init
<1>4. PICK kind \in Kinds :
        client = [kind |-> kind, state |-> "Handshake", count |-> 0, rounds |-> 0,
                  phase |-> [r \in Registries |-> 0], registries |-> [r \in Registries |-> 0],
                  loaded |-> FALSE, waiting |-> FALSE, outcome |-> "running", log |-> <<>>]
  BY DEF Init
<1>5. /\ client.log = <<>> /\ client.state = "Handshake" /\ client.outcome = "running"
      /\ client.phase = [r \in Registries |-> 0] /\ client.registries = [r \in Registries |-> 0]
  BY <1>4
<1>6. /\ server.phase = "Handshake" /\ server.key = 0 /\ server.awaits = None /\ server.owed = 0
      /\ ~server.confused /\ ~server.faulty /\ ~server.inKey /\ ~server.zip /\ ~server.inZip
  BY <1>3
<1>7. Handled = 0 /\ Last = 0 /\ DOMAIN sent = {} /\ DOMAIN outbox = {} /\ DOMAIN wire = {}
      /\ DOMAIN client.log = {} /\ Streamed = 0
  BY <1>2, <1>5 DEF Handled, Last, Streamed
<1>8. FramesIntact /\ ServerUnderstands /\ RegistriesLatest
  BY <1>5, <1>6, <1>7 DEF FramesIntact, ServerUnderstands, RegistriesLatest
<1>9. StreamSound
  BY <1>7 DEF StreamSound
<1>10. KeysSound /\ WritesSound
  BY <1>2, <1>6, <1>7 DEF KeysSound, WritesSound
<1>11. PhasesSound
  BY <1>2, <1>5, <1>6, <1>7 DEF PhasesSound
<1>12. FramesPlaced /\ KindSound /\ AcksSound /\ LoginSound
  BY <1>6, <1>7 DEF FramesPlaced, KindSound, AcksSound, LoginSound, None
<1>13. ZipSound
  BY <1>2, <1>6, <1>7 DEF ZipSound
<1>14. OwedSound
  BY <1>6 DEF OwedSound
<1>15. RegistriesSound
  <2>1. \A r \in Registries : Merged(client.registries, client.phase)[r] = 0
    BY <1>5 DEF Merged
  <2>2. \A r \in Registries : LatestIs(r, Handled, Merged(client.registries, client.phase)[r])
    BY <1>7, <2>1 DEF LatestIs
  <2> QED BY <1>5, <1>7, <2>2 DEF RegistriesSound
<1>16. Parts
  BY <1>9, <1>10, <1>11, <1>12, <1>13, <1>14, <1>15 DEF Parts
<1> QED BY <1>1, <1>7, <1>8, <1>16 DEF LoginInv

\* The login's inductive invariant holds throughout: what has arrived, been decoded and been
\* written says how far connection, decoder and phase have come (connect_to_play_inner,
\* establish_authenticated_play_inner, query_inner and what they await on the connection).
THEOREM LoginInductive == Spec => []LoginInv
BY LoginInitInv, LoginNextInv, PTL DEF Spec

\* Every frame the client handles is one the server sent, whole, in order and with its own
\* contents, however reads cut the bytes and whenever encryption and compression begin
\* (MinecraftConnection::read_next_frame, FrameDecoder::next_frame, WireTransforms).
THEOREM LoginFrames == Spec => []FramesIntact
<1>1. LoginInv => FramesIntact
  BY DEF LoginInv
<1> QED BY <1>1, LoginInductive, PTL

\* What the client writes is enciphered and compressed as the server expects when it
\* reads it (WireTransforms::encode_outbound, enable_encryption, enable_compression; write_all).
THEOREM LoginUnderstood == Spec => []ServerUnderstands
<1>1. LoginInv => ServerUnderstands
  BY DEF LoginInv
<1> QED BY <1>1, LoginInductive, PTL

\* A session starts with the last copy the server sent of every registry, also when a second
\* configuration phase carried only some of them (run_configuration's merge).
THEOREM LoginRegistries == Spec => []RegistriesLatest
<1>1. LoginInv => RegistriesLatest
  BY DEF LoginInv
<1> QED BY <1>1, LoginInductive, PTL

-----------------------------------------------------------------------------
(* The content cache.                                                      *)

Contents == {Missing, Good, Old, Bad}

Steps == {"off", "failed", "ready", "check", "fetch", "write", "clear", "remove", "promote",
          "download", "transfer", "open"}

CacheType ==
    /\ disk \in [Files -> Contents]
    /\ parts \subseteq Files \X Pids
    /\ program \in [Programs -> [pc : Steps, pid : Pids \cup {0}, file : Files, got : Contents, calm : BOOLEAN]]
    /\ machine \in [published : BOOLEAN, crashes : Nat, spoils : Nat, spoiled : SUBSET Files]
    /\ \A p \in Programs : program[p].pc # "off" => program[p].pid \in Pids

\* What is about to be promoted has been verified, and the client archive alone is downloaded
\* to its temporary file and opened.
Verified(p) ==
    /\ program[p].pc \in {"write", "promote"} => Valid(program[p].file, program[p].got)
    /\ program[p].pc \in {"clear", "remove"} /\ program[p].file # "client" =>
         Valid(program[p].file, program[p].got)
    /\ program[p].pc \in {"download", "transfer", "open"} => program[p].file = "client"

\* While a launch is calm the others rest, so that what it saw on the disk is still there.
Undisturbed(p) ==
    program[p].calm =>
      /\ \A q \in Programs \ {p} : program[q].pc \in Stopped
      /\ program[p].pc = "remove" => disk[program[p].file] # Missing
      /\ program[p].pc = "open" => disk["client"] = Good

CacheInv ==
    /\ CacheType
    /\ \A p \in Programs : Verified(p) /\ Undisturbed(p)
    /\ machine.spoiled # {} => machine.spoils > 0
    /\ CacheSound

LEMMA CacheInitInv == CacheInit => CacheInv
<1> SUFFICES ASSUME CacheInit PROVE CacheInv
  OBVIOUS
<1> USE DEF CacheInit, Off, Files, Missing, Good, Old, Bad
<1>1. CacheType
  BY DEF CacheType, Contents, Steps
<1>2. \A p \in Programs : Verified(p) /\ Undisturbed(p)
  BY DEF Verified, Undisturbed
<1>3. CacheSound
  BY DEF CacheSound
<1> QED BY <1>1, <1>2, <1>3 DEF CacheInv

\* What follows a file in hand: the launch goes on with the next file, or is over because
\* the manifest does not list the version.
LEMMA AfterLemma ==
  ASSUME NEW r \in [pc : Steps, pid : Pids \cup {0}, file : Files, got : Contents, calm : BOOLEAN],
         NEW content
  PROVE  /\ After(r, content) \in [pc : Steps, pid : Pids \cup {0}, file : Files, got : Contents, calm : BOOLEAN]
         /\ After(r, content).pc \in {"failed", "open", "check"}
         /\ After(r, content).pc = "failed" => r.file = "manifest" /\ content = Old
         /\ After(r, content).pc = "open" => r.file = "client" /\ After(r, content).file = "client"
         /\ After(r, content).calm = r.calm /\ After(r, content).pid = r.pid
<1> DEFINE pc == IF r.file = "manifest" /\ content = Old THEN "failed"
                 ELSE IF r.file = "client" THEN "open" ELSE "check"
           file == IF r.file = "manifest" THEN "metadata" ELSE "client"
<1>1. pc \in {"failed", "open", "check"} /\ pc \in Steps /\ file \in Files /\ Missing \in Contents
  BY DEF Steps, Files, Contents
<1>2. /\ pc = "failed" => r.file = "manifest" /\ content = Old
      /\ pc = "open" => r.file = "client" /\ file = "client"
  OBVIOUS
<1>3. After(r, content) = [r EXCEPT !.pc = pc, !.file = file, !.got = Missing]
  BY DEF After
<1> HIDE DEF pc, file
<1> QED BY <1>1, <1>2, <1>3

\* A step of one process that leaves the disk and what happened around it alone.
LEMMA OwnStep ==
  ASSUME CacheInv, NEW p \in Programs,
         NEW r \in [pc : Steps, pid : Pids \cup {0}, file : Files, got : Contents, calm : BOOLEAN],
         program' = [program EXCEPT ![p] = r], UNCHANGED <<disk, machine>>,
         parts' \subseteq Files \X Pids,
         r.pc # "off" => r.pid \in Pids,
         Verified(p)',
         r.calm => /\ program[p].calm
                   /\ r.pc = "remove" => disk[r.file] # Missing
                   /\ r.pc = "open" => disk["client"] = Good
                   /\ r.pc = "failed" => disk["manifest"] = Old,
         r.pc \notin Stopped => program[p].pc \notin Stopped,
         r.pc = "ready" /\ r.got # Good => machine.spoils > 0
  PROVE  CacheInv'
<1>0. /\ program \in [Programs -> [pc : Steps, pid : Pids \cup {0}, file : Files, got : Contents, calm : BOOLEAN]]
      /\ program'[p] = r
      /\ \A q \in Programs \ {p} : program'[q] = program[q]
  BY DEF CacheInv, CacheType
<1>1. CacheType'
  BY <1>0 DEF CacheInv, CacheType
<1>2. ASSUME NEW q \in Programs PROVE Verified(q)' /\ Undisturbed(q)'
  <2>1. Verified(q)'
    BY <1>0 DEF CacheInv, Verified
  <2>2. CASE q = p
    BY <1>0, <2>1, <2>2 DEF CacheInv, Undisturbed
  <2>3. CASE q # p
    BY <1>0, <2>1, <2>3 DEF CacheInv, Undisturbed
  <2> QED BY <2>2, <2>3
<1>3. CacheSound'
  BY <1>0 DEF CacheInv, CacheSound
<1> QED BY <1>1, <1>2, <1>3 DEF CacheInv

\* Every step of a launch keeps the cache sound.
LEMMA ProgramStepInv == ASSUME CacheInv, NEW p \in Programs, ProgramStep(p) PROVE CacheInv'
<1> DEFINE R == [pc : Steps, pid : Pids \cup {0}, file : Files, got : Contents, calm : BOOLEAN]
           r == program[p]
           Only(s) == program' = [program EXCEPT ![p] = s]
<1>0. /\ program \in [Programs -> R] /\ r \in R
      /\ disk \in [Files -> Contents] /\ parts \subseteq Files \X Pids
      /\ Verified(p) /\ Undisturbed(p) /\ CacheSound
      /\ r.pc # "off" => r.pid \in Pids
  BY DEF CacheInv, CacheType
<1>p. r.pc # "off" => Part(p) \in Files \X Pids
  BY <1>0 DEF Part
<1>g. ASSUME NEW pc \in Steps, Goes(p, pc)
      PROVE  /\ [r EXCEPT !.pc = pc] \in R /\ program' = [program EXCEPT ![p] = [r EXCEPT !.pc = pc]]
             /\ [r EXCEPT !.pc = pc].pc = pc
             /\ [r EXCEPT !.pc = pc].file = r.file /\ [r EXCEPT !.pc = pc].got = r.got
             /\ [r EXCEPT !.pc = pc].calm = r.calm /\ [r EXCEPT !.pc = pc].pid = r.pid
             /\ program'[p] = [r EXCEPT !.pc = pc]
  BY <1>0, <1>g DEF Goes
<1>a. ASSUME Aborts(p), UNCHANGED <<disk, machine>>, parts' \subseteq Files \X Pids,
             r.pc \notin Stopped
      PROVE  CacheInv'
  <2> DEFINE s == [r EXCEPT !.pc = "failed", !.calm = FALSE]
  <2>1. s \in R /\ s.pc = "failed" /\ ~s.calm /\ s.pid = r.pid
    BY <1>0 DEF Steps
  <2>2. program' = [program EXCEPT ![p] = s]
    BY <1>0, <1>a DEF Aborts
  <2>3. program'[p] = s
    BY <1>0, <2>2
  <2> HIDE DEF s
  <2>4. Verified(p)'
    BY <2>1, <2>3 DEF Verified
  <2> QED BY <1>0, <1>a, <2>1, <2>2, <2>4, OwnStep DEF Stopped
<1>1. CASE Check(p)
  <2>0. r.pc = "check" /\ UNCHANGED <<disk, parts, machine>>
    BY <1>1 DEF Check, At
  <2>1. CASE Valid(r.file, disk[r.file])
    <3> DEFINE s == After(r, disk[r.file])
    <3>1. program' = [program EXCEPT ![p] = s]
      BY <1>1, <2>1, <1>0 DEF Check
    <3>2. /\ s \in R /\ s.pc \in {"failed", "open", "check"} /\ s.calm = r.calm /\ s.pid = r.pid
          /\ s.pc = "failed" => r.file = "manifest" /\ disk[r.file] = Old
          /\ s.pc = "open" => r.file = "client" /\ s.file = "client"
      BY <1>0, AfterLemma
    <3>3. program'[p] = s
      BY <1>0, <3>1
    <3> HIDE DEF s
    <3>4. Verified(p)'
      BY <3>2, <3>3 DEF Verified
    <3>5. r.file = "client" => disk["client"] = Good
      BY <1>0, <2>1 DEF Valid
    <3> QED BY <1>0, <2>0, <3>1, <3>2, <3>4, <3>5, OwnStep DEF Stopped
  <2>2. CASE ~Valid(r.file, disk[r.file])
    <3> DEFINE pc == IF r.file = "client" THEN "clear" ELSE "fetch"
    <3>1. pc \in Steps /\ (pc = "fetch" \/ (pc = "clear" /\ r.file = "client"))
      BY DEF Steps
    <3>2. Goes(p, pc)
      BY <1>1, <2>2 DEF Check
    <3> HIDE DEF pc
    <3>3. Verified(p)'
      BY <1>g, <3>1, <3>2 DEF Verified
    <3> DEFINE s == [r EXCEPT !.pc = pc]
    <3>s. /\ s \in R /\ program' = [program EXCEPT ![p] = s] /\ s.pc = pc
          /\ s.file = r.file /\ s.got = r.got /\ s.calm = r.calm /\ s.pid = r.pid
      BY <1>g, <3>1, <3>2
    <3> HIDE DEF s
    <3> QED BY <1>0, <2>0, <3>1, <3>3, <3>s, OwnStep DEF Stopped
  <2> QED BY <2>1, <2>2
<1>2. CASE Fetched(p)
  <2>1. PICK content \in Answers(r.file) :
          /\ Valid(r.file, content)
          /\ program' = [program EXCEPT ![p].pc = "write", ![p].got = content]
    BY <1>2 DEF Fetched, Accepts
  <2> DEFINE s == [r EXCEPT !.pc = "write", !.got = content]
  <2>2. content \in Contents
    BY DEF Answers, Contents
  <2>3. /\ s \in R /\ s.pc = "write" /\ s.got = content /\ s.file = r.file
        /\ s.calm = r.calm /\ s.pid = r.pid
    BY <1>0, <2>2 DEF Steps
  <2>4. program' = [program EXCEPT ![p] = s] /\ r.pc = "fetch" /\ UNCHANGED <<disk, parts, machine>>
    BY <1>0, <1>2, <2>1 DEF Fetched, At
  <2>5. program'[p] = s
    BY <1>0, <2>4
  <2> HIDE DEF s
  <2>6. Verified(p)'
    BY <2>1, <2>3, <2>5 DEF Verified
  <2> QED BY <1>0, <2>3, <2>4, <2>6, OwnStep DEF Stopped
<1>3. CASE FetchFails(p)
  BY <1>0, <1>3, <1>a DEF FetchFails, At, Stopped
<1>4. CASE WritePart(p)
  <2>1. r.pc = "write" /\ Goes(p, "clear") /\ parts' = parts \cup {Part(p)} /\ UNCHANGED <<disk, machine>>
    BY <1>4 DEF WritePart, At
  <2>2. "clear" \in Steps
    BY DEF Steps
  <2>3. Verified(p)'
    BY <1>0, <1>g, <2>1, <2>2 DEF Verified
  <2>4. parts' \subseteq Files \X Pids
    BY <1>0, <1>p, <2>1
  <2> QED BY <1>0, <1>g, <2>1, <2>2, <2>3, <2>4, OwnStep DEF Stopped
<1>5. CASE NameTaken(p)
  BY <1>0, <1>5, <1>a DEF NameTaken, At, Stopped
<1>6. CASE Clear(p)
  <2>1. r.pc = "clear" /\ UNCHANGED <<disk, parts, machine>>
        /\ Goes(p, IF disk[r.file] = Missing THEN Cleared(p) ELSE "remove")
    BY <1>6 DEF Clear, At
  <2> DEFINE pc == IF disk[r.file] = Missing THEN Cleared(p) ELSE "remove"
  <2>2. /\ pc \in {"download", "promote", "remove"} /\ pc \in Steps
        /\ pc = "download" => r.file = "client"
        /\ pc = "promote" => r.file # "client"
        /\ pc = "remove" => disk[r.file] # Missing
    BY DEF Cleared, Steps
  <2> HIDE DEF pc
  <2>3. Goes(p, pc)
    BY <2>1 DEF pc
  <2>4. Verified(p)'
    BY <1>0, <1>g, <2>1, <2>2, <2>3 DEF Verified
  <2> DEFINE s == [r EXCEPT !.pc = pc]
  <2>s. /\ s \in R /\ program' = [program EXCEPT ![p] = s] /\ s.pc = pc
        /\ s.file = r.file /\ s.got = r.got /\ s.calm = r.calm /\ s.pid = r.pid
    BY <1>g, <2>2, <2>3
  <2> HIDE DEF s
  <2> QED BY <1>0, <2>1, <2>2, <2>4, <2>s, OwnStep DEF Stopped
<1>7. CASE Download(p)
  <2>1. r.pc = "download" /\ Goes(p, "transfer") /\ parts' = parts \cup {Part(p)} /\ UNCHANGED <<disk, machine>>
    BY <1>7 DEF Download, At
  <2>2. "transfer" \in Steps
    BY DEF Steps
  <2>3. Verified(p)'
    BY <1>0, <1>g, <2>1, <2>2 DEF Verified
  <2>4. parts' \subseteq Files \X Pids
    BY <1>0, <1>p, <2>1
  <2> QED BY <1>0, <1>g, <2>1, <2>2, <2>3, <2>4, OwnStep DEF Stopped
<1>8. CASE Transferred(p)
  <2>1. PICK content \in Answers("client") :
          /\ Valid("client", content)
          /\ program' = [program EXCEPT ![p].pc = "promote", ![p].got = content]
    BY <1>8 DEF Transferred, Accepts
  <2> DEFINE s == [r EXCEPT !.pc = "promote", !.got = content]
  <2>2. content \in Contents
    BY DEF Answers, Contents
  <2>3. /\ s \in R /\ s.pc = "promote" /\ s.got = content /\ s.file = r.file
        /\ s.calm = r.calm /\ s.pid = r.pid
    BY <1>0, <2>2 DEF Steps
  <2>4. program' = [program EXCEPT ![p] = s] /\ r.pc = "transfer" /\ UNCHANGED <<disk, parts, machine>>
    BY <1>0, <1>8, <2>1 DEF Transferred, At
  <2>5. program'[p] = s /\ r.file = "client"
    BY <1>0, <2>4 DEF Verified
  <2> HIDE DEF s
  <2>6. Verified(p)'
    BY <2>1, <2>3, <2>5 DEF Verified
  <2> QED BY <1>0, <2>3, <2>4, <2>6, OwnStep DEF Stopped
<1>9. CASE DownloadFails(p)
  <2>1. parts' \subseteq Files \X Pids
    BY <1>0, <1>9 DEF DownloadFails
  <2> QED BY <1>9, <1>a, <2>1 DEF DownloadFails, At, Stopped
<1>10. CASE Open(p)
  <2>0. r.pc = "open" /\ UNCHANGED <<disk, parts, machine>>
    BY <1>10 DEF Open, At
  <2>1. CASE /\ disk["client"] # Missing
             /\ program' = [program EXCEPT ![p].pc = "ready", ![p].got = disk["client"]]
    <3> DEFINE s == [r EXCEPT !.pc = "ready", !.got = disk["client"]]
    <3>1. disk["client"] \in Contents /\ "client" \in Files
      BY <1>0 DEF Files
    <3>2. s \in R /\ s.pc = "ready" /\ s.got = disk["client"] /\ s.calm = r.calm /\ s.pid = r.pid
      BY <1>0, <3>1 DEF Steps
    <3>3. program' = [program EXCEPT ![p] = s]
      BY <1>0, <2>1
    <3>4. program'[p] = s
      BY <1>0, <3>3
    <3> HIDE DEF s
    <3>5. Verified(p)'
      BY <3>2, <3>4 DEF Verified
    <3>6. disk["client"] # Good => machine.spoils > 0
      BY <1>0, <2>1, <3>1 DEF CacheInv, CacheSound, Contents
    <3> QED BY <1>0, <2>0, <3>2, <3>3, <3>5, <3>6, OwnStep DEF Stopped
  <2>2. CASE disk["client"] # Good /\ Goes(p, "failed")
    <3>1. "failed" \in Steps
      BY DEF Steps
    <3>2. Verified(p)'
      BY <1>g, <2>2, <3>1 DEF Verified
    <3>3. ~r.calm
      BY <1>0, <2>0, <2>2 DEF Undisturbed
    <3> QED BY <1>0, <1>g, <2>0, <2>2, <3>1, <3>2, <3>3, OwnStep DEF Stopped
  <2> QED BY <1>10, <2>1, <2>2 DEF Open
<1>11. CASE Remove(p)
  <2> DEFINE pc == IF disk[r.file] = Missing THEN "failed" ELSE Cleared(p)
  <2>1. r.pc = "remove" /\ Goes(p, pc) /\ disk' = [disk EXCEPT ![r.file] = Missing] /\ UNCHANGED <<parts, machine>>
    BY <1>11 DEF Remove, At
  <2>2. /\ pc \in Steps /\ pc \in {"failed", "download", "promote"}
        /\ pc = "failed" => disk[r.file] = Missing
        /\ pc = "download" => r.file = "client"
        /\ pc = "promote" => r.file # "client"
    BY DEF Cleared, Steps
  <2> HIDE DEF pc
  <2>3. Verified(p)'
    BY <1>0, <1>g, <2>1, <2>2 DEF Verified
  <2> DEFINE s == [r EXCEPT !.pc = pc]
  <2>s. /\ s \in R /\ program' = [program EXCEPT ![p] = s] /\ s.pc = pc
        /\ s.file = r.file /\ s.got = r.got /\ s.calm = r.calm /\ s.pid = r.pid
    BY <1>g, <2>1, <2>2
  <2> HIDE DEF s
  <2>4. r.file \in Files /\ Missing \in Contents
    BY <1>0 DEF Contents
  <2>5. /\ disk' \in [Files -> Contents]
        /\ \A f \in Files : disk'[f] \in {disk[f], Missing}
    BY <1>0, <2>1, <2>4
  <2>6. \A q \in Programs \ {p} : program'[q] = program[q]
    BY <1>0, <2>s
  <2>7. program' \in [Programs -> R] /\ program'[p] = s
    BY <1>0, <2>s
  <2>8. CacheType'
    BY <1>0, <2>1, <2>2, <2>s, <2>5, <2>6, <2>7 DEF CacheInv, CacheType
  <2>9. pc = "failed" => ~r.calm
    BY <1>0, <2>1, <2>2 DEF Undisturbed
  <2>10. r.pc \notin Stopped
    BY <2>1 DEF Stopped
  <2>11. ASSUME NEW q \in Programs PROVE Verified(q)' /\ Undisturbed(q)'
    <3>1. CASE q = p
      BY <1>0, <2>s, <2>2, <2>3, <2>6, <2>7, <2>9, <3>1 DEF Undisturbed
    <3>2. CASE q # p
      <4>1. Verified(q)'
        BY <2>6, <3>2 DEF CacheInv, Verified
      <4>2. ~program[q].calm
        BY <2>10, <3>2 DEF CacheInv, Undisturbed
      <4> QED BY <2>6, <3>2, <4>1, <4>2 DEF Undisturbed
    <3> QED BY <3>1, <3>2
  <2>12. CacheSound'
    <3>1. ASSUME NEW q \in Programs \ {p} PROVE ~program'[q].calm
      BY <2>6, <2>10, <3>1 DEF CacheInv, Undisturbed
    <3>2. \A q \in Programs : program'[q].pc = "failed" => ~program'[q].calm
      BY <2>s, <2>2, <2>7, <2>9, <3>1
    <3>3. \A q \in Programs : program'[q].pc = "ready" => program'[q] = program[q]
      BY <2>2, <2>s, <2>6, <2>7
    <3>4. disk'["metadata"] # Old /\ disk'["client"] # Old
      BY <1>0, <2>5 DEF CacheSound, Files, Missing, Old
    <3>5. \A f \in Files : disk'[f] = Bad => f \in machine.spoiled
      BY <1>0, <2>5 DEF CacheSound, Missing, Bad
    <3> QED BY <1>0, <2>1, <3>2, <3>3, <3>4, <3>5 DEF CacheSound
  <2> QED BY <2>1, <2>8, <2>11, <2>12 DEF CacheInv
<1>12. CASE Promote(p)
  <2> DEFINE s == After(r, r.got)
  <2>1. /\ r.pc = "promote"
        /\ disk' = [disk EXCEPT ![r.file] = r.got]
        /\ parts' = parts \ {Part(p)}
        /\ program' = [program EXCEPT ![p] = s]
        /\ machine' = [machine EXCEPT !.spoiled = @ \ {r.file}]
    BY <1>0, <1>12 DEF Promote, At
  <2>2. /\ s \in R /\ s.pc \in {"failed", "open", "check"} /\ s.calm = r.calm /\ s.pid = r.pid
        /\ s.pc = "failed" => r.file = "manifest" /\ r.got = Old
        /\ s.pc = "open" => r.file = "client" /\ s.file = "client"
    BY <1>0, AfterLemma
  <2>3. /\ program'[p] = s /\ \A q \in Programs \ {p} : program'[q] = program[q]
        /\ program' \in [Programs -> R]
    BY <1>0, <2>1, <2>2
  <2> HIDE DEF s
  <2>4. /\ r.got = Good \/ (r.file = "manifest" /\ r.got = Old)
        /\ r.file \in Files /\ r.got \in Contents
    BY <1>0, <2>1 DEF Verified, Valid
  <2>5. /\ disk' \in [Files -> Contents] /\ disk'[r.file] = r.got
        /\ \A f \in Files \ {r.file} : disk'[f] = disk[f]
    BY <1>0, <2>1, <2>4
  <2>6. /\ machine' \in [published : BOOLEAN, crashes : Nat, spoils : Nat, spoiled : SUBSET Files]
        /\ machine'.spoils = machine.spoils /\ machine'.spoiled = machine.spoiled \ {r.file}
    BY <2>1 DEF CacheInv, CacheType
  <2>7. CacheType'
    BY <1>0, <2>1, <2>2, <2>3, <2>5, <2>6 DEF CacheInv, CacheType
  <2>8. r.pc \notin Stopped
    BY <2>1 DEF Stopped
  <2>9. \A q \in Programs \ {p} : ~program[q].calm
    BY <2>8 DEF CacheInv, Undisturbed
  <2>10. r.file = "client" => disk'["client"] = Good
    BY <2>4, <2>5
  <2>11. ASSUME NEW q \in Programs PROVE Verified(q)' /\ Undisturbed(q)'
    <3>1. CASE q = p
      <4>1. Verified(p)'
        BY <2>2, <2>3 DEF Verified
      <4>2. Undisturbed(p)'
        BY <1>0, <2>2, <2>3, <2>10 DEF Undisturbed
      <4> QED BY <3>1, <4>1, <4>2
    <3>2. CASE q # p
      BY <2>3, <2>9, <3>2 DEF CacheInv, Verified, Undisturbed
    <3> QED BY <3>1, <3>2
  <2>12. CacheSound'
    <3>1. \A q \in Programs : program'[q].pc = "failed" /\ program'[q].calm => disk'["manifest"] = Old
      BY <2>2, <2>3, <2>5, <2>9
    <3>2. \A q \in Programs : program'[q].pc = "ready" => program'[q] = program[q]
      BY <2>2, <2>3
    <3>3. disk'["metadata"] # Old /\ disk'["client"] # Old
      BY <1>0, <2>4, <2>5 DEF CacheSound, Files, Good, Old
    <3>4. \A f \in Files : disk'[f] = Bad => f \in machine'.spoiled
      BY <1>0, <2>4, <2>5, <2>6 DEF CacheSound, Good, Old, Bad
    <3> QED BY <1>0, <2>6, <3>1, <3>2, <3>3, <3>4 DEF CacheSound
  <2>13. machine'.spoiled # {} => machine'.spoils > 0
    BY <2>6 DEF CacheInv
  <2> QED BY <2>7, <2>11, <2>12, <2>13 DEF CacheInv
<1> QED
  BY <1>1, <1>2, <1>3, <1>4, <1>5, <1>6, <1>7, <1>8, <1>9, <1>10, <1>11, <1>12 DEF ProgramStep

\* What is not a step of the launches themselves: starting and quitting, dying, a file
\* damaged from outside, the publication of the version.
LEMMA MachineStepInv ==
  ASSUME CacheInv,
         \/ \E p \in Programs : Quit(p) \/ Crash(p) \/ \E pid \in Pids : Launch(p, pid)
         \/ Spoil \/ Publish
  PROVE  CacheInv'
<1> DEFINE R == [pc : Steps, pid : Pids \cup {0}, file : Files, got : Contents, calm : BOOLEAN]
           M == [published : BOOLEAN, crashes : Nat, spoils : Nat, spoiled : SUBSET Files]
<1>0. /\ program \in [Programs -> R] /\ machine \in M
      /\ disk \in [Files -> Contents] /\ parts \subseteq Files \X Pids
  BY DEF CacheInv, CacheType
<1>o. Off \in R /\ Off.pc = "off" /\ ~Off.calm
  BY DEF Off, Steps, Files, Contents
\* a process that is over, or dead
<1>1. ASSUME NEW p \in Programs, program' = [program EXCEPT ![p] = Off], machine' \in M,
             machine'.spoils = machine.spoils, machine'.spoiled = machine.spoiled,
             UNCHANGED <<disk, parts>>
      PROVE  CacheInv'
  <2>1. /\ program' \in [Programs -> R] /\ program'[p] = Off
        /\ \A q \in Programs \ {p} : program'[q] = program[q]
    BY <1>0, <1>o, <1>1
  <2>2. CacheType'
    BY <1>0, <1>1, <1>o, <2>1 DEF CacheInv, CacheType
  <2>3. ASSUME NEW q \in Programs PROVE Verified(q)' /\ Undisturbed(q)'
    <3>1. CASE q = p
      BY <1>o, <2>1, <3>1 DEF Verified, Undisturbed
    <3>2. CASE q # p
      BY <1>1, <1>o, <2>1, <3>2 DEF CacheInv, Verified, Undisturbed, Stopped
    <3> QED BY <3>1, <3>2
  <2>4. CacheSound'
    BY <1>1, <1>o, <2>1 DEF CacheInv, CacheSound
  <2> QED BY <1>1, <2>2, <2>3, <2>4 DEF CacheInv
<1>2. ASSUME NEW p \in Programs, Quit(p) PROVE CacheInv'
  BY <1>0, <1>1, <1>2 DEF Quit
<1>3. ASSUME NEW p \in Programs, Crash(p) PROVE CacheInv'
  <2>1. machine.crashes + 1 \in Nat /\ machine' = [machine EXCEPT !.crashes = machine.crashes + 1]
    BY <1>0, <1>3 DEF Crash
  <2>2. machine' \in M /\ machine'.spoils = machine.spoils /\ machine'.spoiled = machine.spoiled
    BY <1>0, <2>1
  <2> QED BY <1>1, <1>3, <2>2 DEF Crash
<1>4. ASSUME NEW p \in Programs, NEW pid \in Pids, Launch(p, pid) PROVE CacheInv'
  <2> DEFINE calm == \A other \in Programs \ {p} : program[other].pc \in Stopped
             s == [Off EXCEPT !.pc = "check", !.pid = pid, !.calm = calm]
  <2>1. /\ program' = [q \in Programs |-> IF q = p THEN s ELSE [program[q] EXCEPT !.calm = FALSE]]
        /\ UNCHANGED <<disk, parts, machine>>
    BY <1>4 DEF Launch
  <2>2. calm \in BOOLEAN /\ (calm => \A other \in Programs \ {p} : program[other].pc \in Stopped)
    OBVIOUS
  <2> HIDE DEF calm
  <2>3. s \in R /\ s.pc = "check" /\ s.pid = pid /\ s.calm = calm
    BY <1>o, <2>2 DEF Off, Steps
  <2> HIDE DEF s
  <2>4. program'[p] = s
    BY <2>1
  <2>5. ASSUME NEW q \in Programs \ {p}
        PROVE  /\ program'[q] \in R /\ ~program'[q].calm
               /\ program'[q].pc = program[q].pc /\ program'[q].pid = program[q].pid
               /\ program'[q].file = program[q].file /\ program'[q].got = program[q].got
    BY <1>0, <2>1, <2>5
  <2>6. program' \in [Programs -> R]
    <3>1. \A q \in Programs : program'[q] \in R
      BY <2>3, <2>4, <2>5
    <3> QED BY <2>1, <3>1
  <2>7. CacheType'
    BY <1>0, <2>1, <2>3, <2>4, <2>5, <2>6 DEF CacheInv, CacheType
  <2>8. ASSUME NEW q \in Programs PROVE Verified(q)' /\ Undisturbed(q)'
    <3>1. CASE q = p
      BY <2>2, <2>3, <2>4, <2>5, <3>1 DEF Verified, Undisturbed
    <3>2. CASE q # p
      BY <2>5, <3>2 DEF CacheInv, Verified, Undisturbed
    <3> QED BY <3>1, <3>2
  <2>9. CacheSound'
    BY <2>1, <2>3, <2>4, <2>5 DEF CacheInv, CacheSound
  <2> QED BY <2>1, <2>7, <2>8, <2>9 DEF CacheInv
<1>5. CASE Spoil
  <2>1. PICK file \in Files :
          /\ disk' = [disk EXCEPT ![file] = Bad]
          /\ machine' = [machine EXCEPT !.spoils = machine.spoils + 1, !.spoiled = machine.spoiled \cup {file}]
    BY <1>5 DEF Spoil
  <2>2. program' = [p \in Programs |-> [program[p] EXCEPT !.calm = FALSE]] /\ UNCHANGED parts
    BY <1>5 DEF Spoil
  <2>3. machine.spoils + 1 \in Nat /\ machine.spoils + 1 > 0
    BY <1>0
  <2>4. machine' \in M /\ machine'.spoils = machine.spoils + 1 /\ machine'.spoiled = machine.spoiled \cup {file}
    BY <1>0, <2>1, <2>3
  <2>5. ASSUME NEW q \in Programs
        PROVE  /\ program'[q] \in R /\ ~program'[q].calm
               /\ program'[q].pc = program[q].pc /\ program'[q].pid = program[q].pid
               /\ program'[q].file = program[q].file /\ program'[q].got = program[q].got
    BY <1>0, <2>2
  <2>6. program' \in [Programs -> R]
    BY <2>2, <2>5
  <2>7. /\ disk' \in [Files -> Contents] /\ disk'[file] = Bad
        /\ \A f \in Files \ {file} : disk'[f] = disk[f]
    BY <1>0, <2>1 DEF Contents
  <2>8. CacheType'
    BY <1>0, <2>2, <2>4, <2>5, <2>6, <2>7 DEF CacheInv, CacheType
  <2>9. \A q \in Programs : Verified(q)' /\ Undisturbed(q)'
    BY <2>5 DEF CacheInv, Verified, Undisturbed
  <2>10. CacheSound'
    <3>1. \A f \in Files : disk'[f] = Bad => f \in machine'.spoiled
      BY <2>4, <2>7 DEF CacheInv, CacheSound
    <3>2. disk'["metadata"] # Old /\ disk'["client"] # Old
      BY <2>7 DEF CacheInv, CacheSound, Files, Bad, Old
    <3> QED BY <2>3, <2>4, <2>5, <3>1, <3>2 DEF CacheSound
  <2> QED BY <2>3, <2>4, <2>8, <2>9, <2>10 DEF CacheInv
<1>6. CASE Publish
  <2>1. machine' \in M /\ machine'.spoils = machine.spoils /\ machine'.spoiled = machine.spoiled
    BY <1>0, <1>6 DEF Publish
  <2>2. UNCHANGED <<disk, parts, program>>
    BY <1>6 DEF Publish
  <2> QED BY <2>1, <2>2 DEF CacheInv, CacheType, Verified, Undisturbed, CacheSound
<1> QED BY <1>2, <1>3, <1>4, <1>5, <1>6

LEMMA CacheNextInv == CacheInv /\ [CacheNext]_cacheVars => CacheInv'
<1>1. CacheInv /\ UNCHANGED cacheVars => CacheInv'
  BY DEF cacheVars, CacheInv, CacheType, Verified, Undisturbed, CacheSound
<1> QED BY <1>1, ProgramStepInv, MachineStepInv DEF CacheNext

\* Only verified files are used, and a calm launch gets to the game: for any number of
\* processes sharing the directory, crashes, reused process ids and damaged files
\* (load_or_fetch_bytes, ensure_artifact, atomic_write, VanillaClientResources::open).
THEOREM CacheStaysSound == CacheInit /\ [][CacheNext]_cacheVars => []CacheSound
<1>1. CacheInv => CacheSound
  BY DEF CacheInv
<1> QED BY <1>1, CacheNextInv, CacheInitInv, PTL

-----------------------------------------------------------------------------
(* The stored accounts.                                                    *)

Stages == {"idle", "device", "new device", "sign in", "redeem", "chain", "session"}

AccountsType ==
    /\ keyring \in [account : [Backends -> Tokens \cup {NoToken}], device : Commands \cup {NoDevice}]
    /\ command \in [Commands -> [pc : Stages, login : BOOLEAN, backend : Backends,
                                 token : Tokens \cup {NoToken}, device : Commands \cup {NoDevice}]]
    /\ service \in [policy : Policies, live : SUBSET Tokens, issued : 0 .. MaxTokens,
                    device : [Tokens -> Commands \cup {NoDevice}]]
    /\ past \in [lost : SUBSET Backends, out : SUBSET Backends, twins : BOOLEAN]

\* Nobody has a token that was not issued.
OnlyIssued ==
    /\ \A b \in Backends : keyring.account[b] <= service.issued
    /\ \A c \in Commands : command[c].token <= service.issued
    /\ \A t \in service.live : t <= service.issued

\* A token is of one backend.
OneBackend ==
    /\ \A a, b \in Backends : a # b /\ keyring.account[a] # NoToken => keyring.account[a] # keyring.account[b]
    /\ \A c \in Commands, b \in Backends :
         command[c].token # NoToken /\ command[c].token = keyring.account[b] => Backend(c) = b
    /\ \A c, d \in Commands :
         command[c].token # NoToken /\ command[c].token = command[d].token => Backend(c) = Backend(d)

\* A login has no token of its own before it redeems its code, a command that uses an
\* account has one.
TokenHeld ==
    \A c \in Commands :
      /\ command[c].login /\ command[c].pc # "chain" => command[c].token = NoToken
      /\ ~command[c].login => command[c].pc \in {"redeem", "chain", "session"} /\ command[c].token # NoToken
      /\ command[c].pc = "session" => ~command[c].login

\* What a command is about to store can be redeemed; where redeeming revokes a token,
\* nobody else has it yet.
ChainFresh ==
    \A c \in Commands : On(c, "chain") =>
      /\ command[c].token \in service.live
      /\ service.policy = "rotates" =>
           /\ \A b \in Backends : keyring.account[b] # command[c].token
           /\ \A d \in Commands \ {c} : command[d].token # command[c].token

\* An account that was removed for good is not in use.
OutUnused == \A c \in Commands : ~On(c, "idle") => Backend(c) \notin past.out

\* Unless two first logins ran at once, there is one device, and what is under way for XAL
\* is under way for it.
OneDevice ==
    ~past.twins =>
      /\ \A c \in Commands : On(c, "new device") =>
           /\ keyring.device = NoDevice
           /\ \A d \in Commands \ {c} : ~On(d, "new device")
      /\ \A c \in Commands :
           Backend(c) = "xal" /\ command[c].pc \in {"sign in", "redeem", "chain", "session"} =>
             /\ command[c].device = keyring.device /\ keyring.device # NoDevice
             /\ command[c].token # NoToken => service.device[command[c].token] = keyring.device
      /\ keyring.account["xal"] # NoToken => keyring.device # NoDevice

DeviceStages ==
    \A c \in Commands : /\ command[c].pc \in {"device", "new device"} => Backend(c) = "xal" /\ command[c].login
                        /\ command[c].pc = "new device" => command[c].device = c

AccountsInv ==
    /\ AccountsType
    /\ OnlyIssued /\ OneBackend /\ TokenHeld /\ ChainFresh /\ OutUnused /\ OneDevice /\ DeviceStages
    /\ AccountsSound

USE AccountsAssumption

LEMMA AccountsInitInv == AccountsInit => AccountsInv
<1> SUFFICES ASSUME AccountsInit PROVE AccountsInv
  OBVIOUS
<1> USE DEF AccountsInit, Idle, NoToken, Tokens, Backends, Backend
<1>1. AccountsType
  BY DEF AccountsType, Stages, Policies
<1>2. OnlyIssued /\ OneBackend /\ TokenHeld
  BY DEF OnlyIssued, OneBackend, TokenHeld
<1>3. ChainFresh /\ OutUnused /\ OneDevice /\ DeviceStages
  BY DEF ChainFresh, OutUnused, OneDevice, DeviceStages, On
<1>4. AccountsSound
  BY DEF AccountsSound
<1> QED BY <1>1, <1>2, <1>3, <1>4 DEF AccountsInv

\* The record of a command.
CommandType == [pc : Stages, login : BOOLEAN, backend : Backends,
                token : Tokens \cup {NoToken}, device : Commands \cup {NoDevice}]

\* A command that ends, wherever it is: what it owes is remembered as lost.
LEMMA EndInv ==
  ASSUME AccountsInv, NEW c \in Commands, Ends(c), ~On(c, "idle"),
         past' = Lost(c), UNCHANGED <<keyring, service>>
  PROVE  AccountsInv'
<1>0. /\ command \in [Commands -> CommandType]
      /\ past \in [lost : SUBSET Backends, out : SUBSET Backends, twins : BOOLEAN]
  BY DEF AccountsInv, AccountsType, CommandType
<1>1. Idle \in CommandType /\ Idle.pc = "idle" /\ Idle.token = NoToken /\ Idle.login
  BY DEF Idle, CommandType, Stages, Backends
<1>2. /\ command' \in [Commands -> CommandType] /\ command'[c] = Idle
      /\ \A d \in Commands \ {c} : command'[d] = command[d]
  BY <1>0, <1>1 DEF Ends
<1>3. /\ past' \in [lost : SUBSET Backends, out : SUBSET Backends, twins : BOOLEAN]
      /\ past'.out = past.out /\ past'.twins = past.twins
      /\ past.lost \subseteq past'.lost
      /\ Owes(c) => Backend(c) \in past'.lost
  BY <1>0 DEF Lost, Backend, CommandType
<1>4. AccountsType'
  BY <1>2, <1>3 DEF AccountsInv, AccountsType, CommandType
<1>5. OnlyIssued' /\ TokenHeld' /\ DeviceStages'
  <2>1. 0 <= service.issued
    BY DEF AccountsInv, AccountsType
  <2>2. OnlyIssued'
    BY <1>1, <1>2, <2>1 DEF AccountsInv, OnlyIssued, NoToken
  <2>3. TokenHeld'
    BY <1>1, <1>2 DEF AccountsInv, TokenHeld
  <2>4. DeviceStages'
    BY <1>1, <1>2 DEF AccountsInv, DeviceStages, Backend
  <2> QED BY <2>2, <2>3, <2>4
<1>6. OneBackend'
  BY <1>1, <1>2 DEF AccountsInv, OneBackend, Backend
<1>7. ChainFresh'
  <2>1. ASSUME NEW d \in Commands, On(d, "chain")' PROVE d # c /\ On(d, "chain")
    BY <1>1, <1>2, <2>1 DEF On
  <2>2. ASSUME NEW d \in Commands, On(d, "chain") PROVE command[d].token # NoToken
    BY <2>2 DEF AccountsInv, AccountsType, ChainFresh, Tokens, NoToken
  <2> QED BY <1>1, <1>2, <2>1, <2>2 DEF AccountsInv, ChainFresh
<1>8. OutUnused'
  BY <1>1, <1>2, <1>3 DEF AccountsInv, OutUnused, On, Backend
<1>9. OneDevice'
  <2>1. Idle.backend = "entra"
    BY DEF Idle
  <2>2. \A d \in Commands : command'[d] = command[d] \/ command'[d] = Idle
    BY <1>2
  <2>3. OneDevice
    BY DEF AccountsInv
  <2> QED BY <1>1, <1>3, <2>1, <2>2, <2>3 DEF OneDevice, On, Backend
<1>10. AccountsSound'
  <2>1. ASSUME NEW d \in Commands \ {c} PROVE Owes(d)' <=> Owes(d)
    BY <1>2, <2>1 DEF Owes, On
  <2>2. \A d \in Commands \ {c} : Backend(d)' = Backend(d)
    BY <1>2 DEF Backend
  <2> QED BY <1>3, <2>1, <2>2 DEF AccountsInv, AccountsSound
<1> QED BY <1>4, <1>5, <1>6, <1>7, <1>8, <1>9, <1>10 DEF AccountsInv

LEMMA IssuedNat == AccountsInv => 0 <= service.issued /\ service.issued \in Nat
  BY DEF AccountsInv, AccountsType

LEMMA ChainToken == ASSUME AccountsInv, NEW d \in Commands, On(d, "chain") PROVE command[d].token # NoToken
  BY DEF AccountsInv, AccountsType, ChainFresh, Tokens, NoToken

\* One device, after the record of one command changed.
LEMMA RecordKeepsDevice ==
  ASSUME OneDevice, NEW c \in Commands, NEW r, command'[c] = r,
         \A d \in Commands \ {c} : command'[d] = command[d],
         keyring'.device = keyring.device, past.twins => past'.twins,
         ~past'.twins /\ keyring'.account["xal"] # NoToken =>
           keyring.account["xal"] # NoToken \/ keyring.device # NoDevice,
         \A d \in Commands \ {c} : command[d].token # NoToken =>
           service'.device[command[d].token] = service.device[command[d].token],
         ~past'.twins /\ r.pc = "new device" =>
           /\ keyring.device = NoDevice
           /\ \A d \in Commands \ {c} : ~On(d, "new device"),
         ~past'.twins /\ r.backend = "xal" /\ r.pc \in {"sign in", "redeem", "chain", "session"} =>
           /\ r.device = keyring.device /\ keyring.device # NoDevice
           /\ r.token # NoToken => service'.device[r.token] = keyring.device
  PROVE  OneDevice'
<1> SUFFICES ASSUME ~past'.twins
             PROVE  /\ \A d \in Commands : On(d, "new device")' =>
                         /\ keyring'.device = NoDevice
                         /\ \A e \in Commands \ {d} : ~On(e, "new device")'
                    /\ \A d \in Commands :
                         Backend(d)' = "xal" /\ command'[d].pc \in {"sign in", "redeem", "chain", "session"} =>
                           /\ command'[d].device = keyring'.device /\ keyring'.device # NoDevice
                           /\ command'[d].token # NoToken => service'.device[command'[d].token] = keyring'.device
                    /\ keyring'.account["xal"] # NoToken => keyring'.device # NoDevice
  BY DEF OneDevice
<1>1. ASSUME NEW d \in Commands, On(d, "new device")'
      PROVE  keyring'.device = NoDevice /\ \A e \in Commands \ {d} : ~On(e, "new device")'
  <2>1. CASE d = c
    BY <1>1, <2>1 DEF On
  <2>2. CASE d # c
    BY <1>1, <2>2 DEF On, OneDevice
  <2> QED BY <2>1, <2>2
<1>2. ASSUME NEW d \in Commands, Backend(d)' = "xal", command'[d].pc \in {"sign in", "redeem", "chain", "session"}
      PROVE  /\ command'[d].device = keyring'.device /\ keyring'.device # NoDevice
             /\ command'[d].token # NoToken => service'.device[command'[d].token] = keyring'.device
  <2>1. CASE d = c
    BY <1>2, <2>1 DEF Backend
  <2>2. CASE d # c
    BY <1>2, <2>2 DEF Backend, OneDevice
  <2> QED BY <2>1, <2>2
<1>3. keyring'.account["xal"] # NoToken => keyring'.device # NoDevice
  BY DEF OneDevice
<1> QED BY <1>1, <1>2, <1>3

\* A command that goes on before it has redeemed anything: with no token, or with the one
\* stored for its backend.
LEMMA GoesOn ==
  ASSUME AccountsInv, NEW c \in Commands, NEW r \in CommandType,
         command' = [command EXCEPT ![c] = r], UNCHANGED <<keyring, service>>,
         past' \in [lost : SUBSET Backends, out : SUBSET Backends, twins : BOOLEAN],
         past'.lost = past.lost, past'.out \subseteq past.out, past.twins => past'.twins,
         command[c].pc # "chain", r.pc \notin {"idle", "chain", "session"},
         r.backend \notin past'.out,
         r.login => r.token = NoToken,
         ~r.login => /\ r.pc = "redeem" /\ r.token # NoToken
                     /\ r.token = keyring.account[r.backend],
         r.pc \in {"device", "new device"} => r.backend = "xal" /\ r.login,
         r.pc = "new device" => r.device = c,
         OneDevice'
  PROVE  AccountsInv'
<1>0. command \in [Commands -> CommandType]
  BY DEF AccountsInv, AccountsType, CommandType
<1>1. /\ command' \in [Commands -> CommandType] /\ command'[c] = r
      /\ \A d \in Commands \ {c} : command'[d] = command[d]
  BY <1>0
<1>2. AccountsType'
  BY <1>1 DEF AccountsInv, AccountsType, CommandType
<1>3. r.backend \in Backends
  BY DEF CommandType
<1>4. OnlyIssued'
  BY <1>1, <1>3, IssuedNat DEF AccountsInv, OnlyIssued, NoToken
<1>5. OneBackend'
  <2>1. \A b \in Backends : r.token # NoToken /\ r.token = keyring.account[b] => r.backend = b
    BY <1>3 DEF AccountsInv, OneBackend
  <2>2. \A d \in Commands : r.token # NoToken /\ command[d].token = r.token => Backend(d) = r.backend
    BY <1>3 DEF AccountsInv, OneBackend
  <2> QED BY <1>1, <2>1, <2>2 DEF AccountsInv, OneBackend, Backend
<1>6. TokenHeld'
  BY <1>1 DEF AccountsInv, TokenHeld
<1>7. DeviceStages'
  BY <1>1 DEF AccountsInv, DeviceStages, Backend
<1>8. ChainFresh'
  <2>1. ASSUME NEW d \in Commands, On(d, "chain")' PROVE d # c /\ On(d, "chain")
    BY <1>1, <2>1 DEF On
  <2>3. ASSUME NEW d \in Commands \ {c}, On(d, "chain"), service.policy = "rotates"
        PROVE  r.token # command[d].token
    BY <1>3, <2>3, ChainToken DEF AccountsInv, ChainFresh
  <2>4. ASSUME NEW d \in Commands, On(d, "chain")'
        PROVE  /\ command'[d].token \in service'.live
               /\ service'.policy = "rotates" =>
                    /\ \A b \in Backends : keyring'.account[b] # command'[d].token
                    /\ \A e \in Commands \ {d} : command'[e].token # command'[d].token
    <3>1. d # c /\ On(d, "chain") /\ command'[d] = command[d]
      BY <1>1, <2>1, <2>4
    <3>2. ChainFresh
      BY DEF AccountsInv
    <3> QED BY <1>1, <2>3, <3>1, <3>2 DEF ChainFresh
  <2> QED BY <2>4 DEF ChainFresh
<1>9. OutUnused'
  BY <1>1 DEF AccountsInv, OutUnused, On, Backend
<1>10. AccountsSound'
  <2>1. ASSUME NEW d \in Commands, Owes(d) PROVE Owes(d)' /\ Backend(d)' = Backend(d)
    BY <1>1, <2>1 DEF Owes, On, Backend
  <2> QED BY <2>1 DEF AccountsInv, AccountsSound
<1> QED BY <1>2, <1>4, <1>5, <1>6, <1>7, <1>8, <1>9, <1>10 DEF AccountsInv

\* Starting, loading the device and signing in.
LEMMA StartInv ==
  ASSUME AccountsInv, NEW c \in Commands,
         \/ \E b \in Backends : StartLogin(c, b) \/ StartWithAccount(c, b)
         \/ LoadDevice(c) \/ SignedIn(c)
  PROVE  AccountsInv'
<1>0. /\ command \in [Commands -> CommandType] /\ command[c] \in CommandType
      /\ past \in [lost : SUBSET Backends, out : SUBSET Backends, twins : BOOLEAN]
      /\ keyring.account \in [Backends -> Tokens \cup {NoToken}] /\ keyring.device \in Commands \cup {NoDevice}
  BY DEF AccountsInv, AccountsType, CommandType
<1>i. Idle \in CommandType /\ Idle.login /\ Idle.token = NoToken /\ Idle.backend = "entra" /\ Idle.device = NoDevice
  BY DEF Idle, CommandType, Stages, Backends
<1>1. ASSUME NEW b \in Backends, StartLogin(c, b) PROVE AccountsInv'
  <2> DEFINE pc == IF b = "xal" THEN "device" ELSE "sign in"
             r == [Idle EXCEPT !.pc = pc, !.backend = b]
  <2>1. /\ pc \in {"device", "sign in"} /\ pc \in Stages /\ (pc = "device" <=> b = "xal")
    BY DEF Stages
  <2>2. command' = [command EXCEPT ![c] = r] /\ past' = [past EXCEPT !.out = past.out \ {b}]
        /\ UNCHANGED <<keyring, service>> /\ command[c].pc = "idle"
    BY <1>1 DEF StartLogin, On
  <2> HIDE DEF pc
  <2>3. r \in CommandType /\ r.pc = pc /\ r.backend = b /\ r.login /\ r.token = NoToken /\ r.device = NoDevice
    BY <1>i, <2>1 DEF CommandType
  <2> HIDE DEF r
  <2>4. command'[c] = r /\ \A d \in Commands \ {c} : command'[d] = command[d]
    BY <1>0, <2>2
  <2>5. /\ past' \in [lost : SUBSET Backends, out : SUBSET Backends, twins : BOOLEAN]
        /\ past'.lost = past.lost /\ past'.out = past.out \ {b} /\ past'.twins = past.twins
    BY <1>0, <2>2
  <2>6. OneDevice'
    BY <2>1, <2>2, <2>3, <2>4, <2>5, RecordKeepsDevice DEF AccountsInv, OneDevice, On, Backend
  <2> QED BY <2>1, <2>2, <2>3, <2>5, <2>6, GoesOn
<1>2. ASSUME NEW b \in Backends, StartWithAccount(c, b) PROVE AccountsInv'
  <2> DEFINE device == IF b = "xal" THEN keyring.device ELSE NoDevice
             r == [pc |-> "redeem", login |-> FALSE, backend |-> b, token |-> keyring.account[b], device |-> device]
  <2>1. /\ command' = [command EXCEPT ![c] = r] /\ UNCHANGED <<keyring, service, past>>
        /\ command[c].pc = "idle" /\ keyring.account[b] # NoToken
        /\ b = "xal" => keyring.device # NoDevice
    BY <1>2 DEF StartWithAccount, On
  <2>2. device \in Commands \cup {NoDevice} /\ (b = "xal" => device = keyring.device)
    BY <1>0
  <2> HIDE DEF device
  <2>3. r \in CommandType
    BY <1>0, <2>2 DEF CommandType, Stages
  <2>4. /\ r.pc = "redeem" /\ ~r.login /\ r.backend = b /\ r.token = keyring.account[b] /\ r.device = device
    OBVIOUS
  <2> HIDE DEF r
  <2>5. command'[c] = r /\ \A d \in Commands \ {c} : command'[d] = command[d]
    BY <1>0, <2>1
  <2>6. b \notin past.out
    BY <2>1 DEF AccountsInv, AccountsSound
  <2>7. ~past.twins /\ b = "xal" => service.device[r.token] = keyring.device
    BY <2>1, <2>4 DEF AccountsInv, AccountsSound
  <2>8. OneDevice'
    BY <2>1, <2>2, <2>4, <2>5, <2>7, RecordKeepsDevice DEF AccountsInv, OneDevice, On, Backend
  <2> QED BY <1>0, <2>1, <2>3, <2>4, <2>6, <2>8, GoesOn
<1>3. CASE LoadDevice(c)
  <2>0. /\ command[c].pc = "device" /\ UNCHANGED <<keyring, service>>
        /\ command[c].backend = "xal" /\ command[c].login /\ command[c].token = NoToken
        /\ command[c].backend \notin past.out
    BY <1>3 DEF LoadDevice, On, AccountsInv, DeviceStages, TokenHeld, OutUnused, Backend
  <2>1. CASE keyring.device = NoDevice
    <3> DEFINE r == [command[c] EXCEPT !.pc = "new device", !.device = c]
               twins == past.twins \/ \E other \in Commands : On(other, "new device")
    <3>1. command' = [command EXCEPT ![c] = r] /\ past' = [past EXCEPT !.twins = twins]
      BY <1>0, <1>3, <2>1 DEF LoadDevice
    <3>2. r \in CommandType /\ r.pc = "new device" /\ r.device = c /\ r.login = command[c].login
          /\ r.token = command[c].token /\ r.backend = command[c].backend
      BY <1>0 DEF CommandType, Stages
    <3> HIDE DEF r
    <3>3. twins \in BOOLEAN /\ (~twins => ~past.twins /\ \A other \in Commands : ~On(other, "new device"))
      BY <1>0
    <3> HIDE DEF twins
    <3>4. /\ past' \in [lost : SUBSET Backends, out : SUBSET Backends, twins : BOOLEAN]
          /\ past'.lost = past.lost /\ past'.out = past.out /\ past'.twins = twins
      BY <1>0, <3>1, <3>3
    <3>5. command'[c] = r /\ \A d \in Commands \ {c} : command'[d] = command[d]
      BY <1>0, <3>1
    <3>6. OneDevice'
      BY <2>0, <2>1, <3>2, <3>3, <3>4, <3>5, RecordKeepsDevice DEF AccountsInv, OneDevice, On, Backend
    <3>7. past.twins => twins
      BY DEF twins
    <3> QED BY <2>0, <3>1, <3>2, <3>3, <3>4, <3>6, <3>7, GoesOn
  <2>2. CASE keyring.device # NoDevice
    <3> DEFINE r == [command[c] EXCEPT !.pc = "sign in", !.device = keyring.device]
    <3>1. command' = [command EXCEPT ![c] = r] /\ past' = past
      BY <1>0, <1>3, <2>2 DEF LoadDevice
    <3>2. r \in CommandType /\ r.pc = "sign in" /\ r.device = keyring.device /\ r.login = command[c].login
          /\ r.token = command[c].token /\ r.backend = command[c].backend
      BY <1>0 DEF CommandType, Stages
    <3> HIDE DEF r
    <3>3. command'[c] = r /\ \A d \in Commands \ {c} : command'[d] = command[d]
      BY <1>0, <3>1
    <3>4. OneDevice'
      BY <2>0, <2>2, <3>1, <3>2, <3>3, RecordKeepsDevice DEF AccountsInv, OneDevice, On, Backend
    <3> QED BY <1>0, <2>0, <3>1, <3>2, <3>4, GoesOn
  <2> QED BY <2>1, <2>2
<1>4. CASE SignedIn(c)
  <2> DEFINE r == [command[c] EXCEPT !.pc = "redeem"]
  <2>0. /\ command[c].pc = "sign in" /\ UNCHANGED <<keyring, service, past>>
        /\ command' = [command EXCEPT ![c] = r]
    BY <1>0, <1>4 DEF SignedIn, On, Moves
  <2>1. /\ command[c].login /\ command[c].token = NoToken /\ command[c].backend \notin past.out
    BY <2>0 DEF On, AccountsInv, TokenHeld, OutUnused, Backend
  <2>2. r \in CommandType /\ r.pc = "redeem" /\ r.device = command[c].device /\ r.login = command[c].login
        /\ r.token = command[c].token /\ r.backend = command[c].backend
    BY <1>0 DEF CommandType, Stages
  <2> HIDE DEF r
  <2>3. command'[c] = r /\ \A d \in Commands \ {c} : command'[d] = command[d]
    BY <1>0, <2>0
  <2>5. ~past.twins /\ r.backend = "xal" => r.device = keyring.device /\ keyring.device # NoDevice
    BY <2>0, <2>2 DEF AccountsInv, OneDevice, Backend
  <2>4. OneDevice'
    BY <2>0, <2>1, <2>2, <2>3, <2>5, RecordKeepsDevice DEF AccountsInv
  <2> QED BY <1>0, <2>0, <2>1, <2>2, <2>4, GoesOn
<1> QED BY <1>1, <1>2, <1>3, <1>4

\* save_xal_device: the device of a first login becomes the device.
LEMMA SaveDeviceInv == ASSUME AccountsInv, NEW c \in Commands, SaveDevice(c) PROVE AccountsInv'
<1> DEFINE r == [command[c] EXCEPT !.pc = "sign in"]
<1>0. /\ command \in [Commands -> CommandType] /\ command[c] \in CommandType
      /\ keyring \in [account : [Backends -> Tokens \cup {NoToken}], device : Commands \cup {NoDevice}]
  BY DEF AccountsInv, AccountsType, CommandType
<1>1. /\ command[c].pc = "new device" /\ UNCHANGED <<service, past>>
      /\ command' = [command EXCEPT ![c] = r] /\ keyring' = [keyring EXCEPT !.device = command[c].device]
  BY <1>0 DEF SaveDevice, On, Moves
<1>2. command[c].device = c /\ command[c].login /\ command[c].backend = "xal" /\ command[c].token = NoToken
  BY <1>1 DEF AccountsInv, DeviceStages, TokenHeld, Backend
<1>3. /\ r \in CommandType /\ r.pc = "sign in" /\ r.device = c /\ r.login /\ r.token = NoToken /\ r.backend = "xal"
  BY <1>0, <1>2 DEF CommandType, Stages
<1> HIDE DEF r
<1>4. /\ command' \in [Commands -> CommandType] /\ command'[c] = r
      /\ \A d \in Commands \ {c} : command'[d] = command[d]
  BY <1>0, <1>1, <1>3
<1>5. /\ keyring' \in [account : [Backends -> Tokens \cup {NoToken}], device : Commands \cup {NoDevice}]
      /\ keyring'.account = keyring.account /\ keyring'.device = c
  BY <1>0, <1>1, <1>2
<1>6. AccountsType'
  BY <1>1, <1>4, <1>5 DEF AccountsInv, AccountsType, CommandType
<1>7. OnlyIssued'
  BY <1>1, <1>3, <1>4, <1>5, IssuedNat DEF AccountsInv, OnlyIssued, NoToken
<1>8. OneBackend'
  <2>1. OneBackend
    BY DEF AccountsInv
  <2>2. \A d \in Commands : command'[d].token # NoToken => d # c /\ command'[d] = command[d]
    BY <1>3, <1>4
  <2>3. \A a, b \in Backends : a # b /\ keyring'.account[a] # NoToken => keyring'.account[a] # keyring'.account[b]
    BY <1>5, <2>1 DEF OneBackend
  <2>4. ASSUME NEW d \in Commands, NEW b \in Backends,
               command'[d].token # NoToken, command'[d].token = keyring'.account[b]
        PROVE  command'[d].backend = b
    BY <1>5, <2>1, <2>2, <2>4 DEF OneBackend, Backend
  <2>5. ASSUME NEW d \in Commands, NEW e \in Commands,
               command'[d].token # NoToken, command'[d].token = command'[e].token
        PROVE  command'[d].backend = command'[e].backend
    BY <2>1, <2>2, <2>5 DEF OneBackend, Backend
  <2> QED BY <2>3, <2>4, <2>5 DEF OneBackend, Backend
<1>9. TokenHeld' /\ DeviceStages'
  <2>1. TokenHeld /\ DeviceStages
    BY DEF AccountsInv
  <2>2. TokenHeld'
    BY <1>3, <1>4, <2>1 DEF TokenHeld
  <2>3. DeviceStages'
    BY <1>3, <1>4, <2>1 DEF DeviceStages, Backend
  <2> QED BY <2>2, <2>3
<1>10. ChainFresh'
  <2>1. ASSUME NEW d \in Commands, On(d, "chain")'
        PROVE  /\ command'[d].token \in service'.live
               /\ service'.policy = "rotates" =>
                    /\ \A b \in Backends : keyring'.account[b] # command'[d].token
                    /\ \A e \in Commands \ {d} : command'[e].token # command'[d].token
    <3>1. d # c /\ On(d, "chain") /\ command'[d] = command[d]
      BY <1>3, <1>4, <2>1 DEF On
    <3>2. ChainFresh /\ command[d].token # NoToken
      BY <3>1, ChainToken DEF AccountsInv
    <3>3. \A e \in Commands : command'[e].token = NoToken \/ command'[e] = command[e]
      BY <1>3, <1>4
    <3>4. command[d].token \in service'.live
      BY <1>1, <3>1, <3>2 DEF ChainFresh
    <3>5. ASSUME service.policy = "rotates"
          PROVE  /\ \A b \in Backends : keyring'.account[b] # command[d].token
                 /\ \A e \in Commands \ {d} : command'[e].token # command[d].token
      BY <1>5, <3>1, <3>2, <3>3, <3>5 DEF ChainFresh
    <3> QED BY <1>1, <3>1, <3>4, <3>5
  <2> QED BY <2>1 DEF ChainFresh
<1>11. OutUnused'
  BY <1>1, <1>2, <1>3, <1>4 DEF AccountsInv, OutUnused, On, Backend
<1>12. ~past.twins => keyring.account["xal"] = NoToken /\ keyring.device = NoDevice
  BY <1>1 DEF AccountsInv, OneDevice, On
<1>13. OneDevice'
  <2> SUFFICES ASSUME ~past.twins
               PROVE  /\ \A d \in Commands : ~On(d, "new device")'
                      /\ \A d \in Commands \ {c} :
                           ~(Backend(d)' = "xal" /\ command'[d].pc \in {"sign in", "redeem", "chain", "session"})
    BY <1>1, <1>3, <1>4, <1>5 DEF OneDevice, On, Backend
  <2>1. \A d \in Commands : ~On(d, "new device")'
    BY <1>1, <1>3, <1>4 DEF AccountsInv, OneDevice, On
  <2>2. \A d \in Commands \ {c} :
          ~(Backend(d)' = "xal" /\ command'[d].pc \in {"sign in", "redeem", "chain", "session"})
    BY <1>4, <1>12 DEF AccountsInv, OneDevice, Backend
  <2> QED BY <2>1, <2>2
<1>14. AccountsSound'
  <2>1. ASSUME NEW d \in Commands, Owes(d) PROVE Owes(d)' /\ Backend(d)' = Backend(d)
    BY <1>1, <1>4, <2>1 DEF Owes, On, Backend
  <2> QED BY <1>1, <1>5, <1>12, <2>1 DEF AccountsInv, AccountsSound
<1> QED BY <1>6, <1>7, <1>8, <1>9, <1>10, <1>11, <1>13, <1>14 DEF AccountsInv

\* What the service does: it issues a token that nobody has, and revokes at most the one it
\* was shown.
LEMMA ServiceLemma ==
  ASSUME AccountsInv, NEW c \in Commands, On(c, "redeem"), ServiceRedeems(c)
  PROVE  /\ service' \in [policy : Policies, live : SUBSET Tokens, issued : 0 .. MaxTokens,
                          device : [Tokens -> Commands \cup {NoDevice}]]
         /\ service'.policy = service.policy /\ service.issued <= service'.issued
         /\ \A t \in Tokens : t <= service.issued => service'.device[t] = service.device[t]
         /\ \A t \in service.live : t \in service'.live \/ (service.policy = "rotates" /\ t = command[c].token)
         /\ \A t \in service'.live : t <= service'.issued
         /\ Reply(c) # NoToken =>
              /\ Reply(c) = service.issued + 1 /\ Reply(c) \in Tokens /\ service'.issued = Reply(c)
              /\ Reply(c) \in service'.live /\ service'.device[Reply(c)] = command[c].device
         /\ Reply(c) = NoToken =>
              /\ service' = service /\ service.policy # "rotates" /\ ~command[c].login
              /\ command[c].token \in service.live
<1> DEFINE S == [policy : Policies, live : SUBSET Tokens, issued : 0 .. MaxTokens,
                 device : [Tokens -> Commands \cup {NoDevice}]]
<1>0. /\ service \in S /\ command[c].device \in Commands \cup {NoDevice}
      /\ \A t \in service.live : t <= service.issued
      /\ service.issued \in Nat
  BY IssuedNat DEF AccountsInv, AccountsType, OnlyIssued
<1>1. CASE Reply(c) = NoToken
  <2>1. service.policy = "omits" /\ ~command[c].login
    BY <1>0, <1>1 DEF Reply, NoToken
  <2>2. service' = service /\ command[c].token \in service.live
    BY <1>1, <2>1 DEF ServiceRedeems, Redeemable
  <2> QED BY <1>0, <1>1, <2>1, <2>2
<1>2. CASE Reply(c) # NoToken
  <2> DEFINE n == service.issued + 1
             kept == IF service.policy = "rotates" THEN service.live \ {command[c].token} ELSE service.live
  <2>1. Reply(c) = n
    BY <1>2 DEF Reply
  <2>2. /\ service.issued < MaxTokens
        /\ service' = [service EXCEPT !.issued = n,
                                      !.device = [service.device EXCEPT ![n] = command[c].device],
                                      !.live = kept \cup {n}]
    BY <1>0, <1>2 DEF ServiceRedeems
  <2>3. n \in Tokens /\ n \in 0 .. MaxTokens /\ n > service.issued
    BY <1>0, <2>2 DEF Tokens
  <2>4. kept \subseteq service.live /\ \A t \in service.live : t \in kept \/ (service.policy = "rotates" /\ t = command[c].token)
    OBVIOUS
  <2> HIDE DEF kept, n
  <2>5. [service.device EXCEPT ![n] = command[c].device] \in [Tokens -> Commands \cup {NoDevice}]
    BY <1>0, <2>3
  <2>6. /\ service' \in S /\ service'.policy = service.policy /\ service'.issued = n
        /\ service'.device = [service.device EXCEPT ![n] = command[c].device]
        /\ service'.live = kept \cup {n}
    BY <1>0, <2>2, <2>3, <2>4, <2>5
  <2>7. \A t \in Tokens : t <= service.issued => t # n
    BY <1>0, <2>3 DEF Tokens
  <2>8. \A t \in Tokens : t <= service.issued => service'.device[t] = service.device[t]
    BY <1>0, <2>6, <2>7
  <2>9. service.issued <= n /\ n <= n /\ \A t \in Tokens : t <= service.issued => t <= n
    BY <1>0, <2>3 DEF Tokens
  <2>10. service'.device[n] = command[c].device
    BY <1>0, <2>3, <2>6
  <2>11. \A t \in service'.live : t <= service'.issued
    BY <1>0, <2>4, <2>6, <2>9
  <2>12. n = service.issued + 1
    BY DEF n
  <2> QED BY <1>2, <2>1, <2>3, <2>4, <2>6, <2>8, <2>9, <2>10, <2>11, <2>12
<1> QED BY <1>1, <1>2


\* A command that has asked the service: it has the new token or keeps the one it had, or it
\* is over and the account it used is lost.
LEMMA AfterService ==
  ASSUME AccountsInv, NEW c \in Commands, On(c, "redeem"), ServiceRedeems(c), NEW r \in CommandType,
         command' = [command EXCEPT ![c] = r], keyring' = keyring,
         past' \in [lost : SUBSET Backends, out : SUBSET Backends, twins : BOOLEAN],
         past'.out = past.out, past'.twins = past.twins, past.lost \subseteq past'.lost,
         \/ r = Idle /\ (~command[c].login => Backend(c) \in past'.lost)
         \/ /\ r.pc = "chain" /\ r.token = Selected(Reply(c), command[c].token)
            /\ r.login = command[c].login /\ r.backend = command[c].backend /\ r.device = command[c].device
  PROVE  AccountsInv'
<1> DEFINE old == command[c].token
           chain == /\ r.pc = "chain" /\ r.token # NoToken
                    /\ r.login = command[c].login /\ r.backend = command[c].backend
                    /\ r.device = command[c].device
           over == r.pc = "idle" /\ r.login /\ r.token = NoToken /\ r.backend = "entra"
           fresh == /\ r.token \in service'.live /\ r.token > service.issued
                    /\ service'.device[r.token] = command[c].device
           kept == /\ r.token = old /\ r.token \in service'.live /\ service' = service
                   /\ service.policy # "rotates"
<1>0. /\ command \in [Commands -> CommandType] /\ command[c].pc = "redeem"
      /\ keyring.account \in [Backends -> Tokens \cup {NoToken}]
      /\ service.issued \in Nat /\ service.live \subseteq Tokens
  BY IssuedNat DEF AccountsInv, AccountsType, CommandType, On
<1>1. /\ command' \in [Commands -> CommandType] /\ command'[c] = r
      /\ \A d \in Commands \ {c} : command'[d] = command[d]
  BY <1>0
<1>2. /\ service' \in [policy : Policies, live : SUBSET Tokens, issued : 0 .. MaxTokens,
                       device : [Tokens -> Commands \cup {NoDevice}]]
      /\ service'.policy = service.policy /\ service.issued <= service'.issued
      /\ \A t \in Tokens : t <= service.issued => service'.device[t] = service.device[t]
      /\ \A t \in service.live : t \in service'.live \/ (service.policy = "rotates" /\ t = old)
      /\ \A t \in service'.live : t <= service'.issued
  BY ServiceLemma
<1>3. (over /\ (~command[c].login => Backend(c) \in past'.lost)) \/ (chain /\ (fresh \/ kept))
  <2>1. ASSUME r = Idle PROVE over
    BY <2>1 DEF Idle
  <2>2. ASSUME r.token = Selected(Reply(c), old), Reply(c) # NoToken PROVE r.token # NoToken /\ fresh
    BY <1>0, <2>2, ServiceLemma DEF Selected
  <2>3. ASSUME r.token = Selected(Reply(c), old), Reply(c) = NoToken PROVE r.token # NoToken /\ kept
    <3>1. r.token = old /\ service' = service /\ service.policy # "rotates" /\ old \in service.live
      BY <2>3, ServiceLemma DEF Selected
    <3> QED BY <1>0, <3>1 DEF Tokens, NoToken
  <2> QED BY <2>1, <2>2, <2>3
<1>4. /\ \A b \in Backends : keyring.account[b] <= service.issued
      /\ \A d \in Commands : command[d].token <= service.issued
  BY DEF AccountsInv, OnlyIssued
<1>5. /\ \A b \in Backends : keyring.account[b] \in Nat
      /\ \A d \in Commands : command[d].token \in Nat
      /\ r.token \in Nat /\ service'.issued \in Nat
  BY <1>0, <1>2 DEF CommandType, Tokens, NoToken
\* The token of the command is nobody's, or it is the one it had.
<1>6. /\ fresh => /\ \A b \in Backends : keyring.account[b] # r.token
                  /\ \A d \in Commands : command[d].token # r.token
  BY <1>0, <1>4, <1>5
<1>t. OneBackend /\ TokenHeld /\ ChainFresh /\ OutUnused /\ OneDevice /\ DeviceStages /\ AccountsSound
  BY DEF AccountsInv
<1>7. AccountsType'
  BY <1>1, <1>2 DEF AccountsInv, AccountsType, CommandType
<1>8. OnlyIssued'
  <2>1. r.token <= service'.issued
    BY <1>0, <1>2, <1>3, <1>5 DEF NoToken
  <2>2. \A b \in Backends : keyring'.account[b] <= service'.issued
    BY <1>0, <1>2, <1>4, <1>5
  <2>3. ASSUME NEW d \in Commands PROVE command'[d].token <= service'.issued
    BY <1>0, <1>1, <1>2, <1>4, <1>5, <2>1
  <2> QED BY <1>2, <2>2, <2>3 DEF OnlyIssued
<1>9. OneBackend'
  <2>1. \A b \in Backends : r.token # NoToken /\ r.token = keyring.account[b] => r.backend = b
    <3>1. \A b \in Backends : old # NoToken /\ old = keyring.account[b] => command[c].backend = b
      BY <1>t DEF OneBackend, Backend
    <3> QED BY <1>3, <1>6, <3>1
  <2>2. \A d \in Commands \ {c} : r.token # NoToken /\ r.token = command[d].token => r.backend = command[d].backend
    <3>1. \A d \in Commands : old # NoToken /\ old = command[d].token => command[c].backend = command[d].backend
      BY <1>t DEF OneBackend, Backend
    <3> QED BY <1>3, <1>6, <3>1
  <2>3. \A a, b \in Backends : a # b /\ keyring'.account[a] # NoToken => keyring'.account[a] # keyring'.account[b]
    BY <1>t DEF OneBackend
  <2>4. ASSUME NEW d \in Commands, NEW b \in Backends,
               command'[d].token # NoToken, command'[d].token = keyring'.account[b]
        PROVE  command'[d].backend = b
    <3>1. CASE d = c
      BY <1>1, <2>1, <2>4, <3>1
    <3>2. CASE d # c
      BY <1>1, <1>t, <2>4, <3>2 DEF OneBackend, Backend
    <3> QED BY <3>1, <3>2
  <2>5. ASSUME NEW d \in Commands, NEW e \in Commands,
               command'[d].token # NoToken, command'[d].token = command'[e].token
        PROVE  command'[d].backend = command'[e].backend
    <3>1. CASE d = c \/ e = c
      BY <1>1, <2>2, <2>5, <3>1
    <3>2. CASE d # c /\ e # c
      BY <1>1, <1>t, <2>5, <3>2 DEF OneBackend, Backend
    <3> QED BY <3>1, <3>2
  <2> QED BY <2>3, <2>4, <2>5 DEF OneBackend, Backend
<1>10. TokenHeld'
  BY <1>1, <1>3, <1>t DEF TokenHeld
<1>11. DeviceStages'
  BY <1>1, <1>3, <1>t DEF DeviceStages, Backend
<1>12. ChainFresh'
  <2>1. ASSUME NEW d \in Commands, On(d, "chain")'
        PROVE  /\ command'[d].token \in service'.live
               /\ service.policy = "rotates" =>
                    /\ \A b \in Backends : keyring.account[b] # command'[d].token
                    /\ \A e \in Commands \ {d} : command'[e].token # command'[d].token
    <3>1. CASE d = c
      <4>1. chain /\ command'[d] = r
        BY <1>1, <1>3, <2>1, <3>1 DEF On
      <4> QED BY <1>1, <1>3, <1>6, <3>1, <4>1
    <3>2. CASE d # c
      <4>1. /\ On(d, "chain") /\ command'[d] = command[d] /\ command[d].token # NoToken
            /\ command[d].token \in service.live
            /\ service.policy = "rotates" =>
                 /\ \A b \in Backends : keyring.account[b] # command[d].token
                 /\ \A e \in Commands \ {d} : command[e].token # command[d].token
        BY <1>1, <1>t, <2>1, <3>2, ChainToken DEF On, ChainFresh
      <4>2. service.policy = "rotates" => r.token # command[d].token
        BY <1>3, <1>6, <4>1
      <4>3. command[d].token \in service'.live
        BY <1>2, <3>2, <4>1
      <4> QED BY <1>1, <4>1, <4>2, <4>3
    <3> QED BY <3>1, <3>2
  <2> QED BY <1>2, <2>1 DEF ChainFresh
<1>13. OutUnused'
  BY <1>0, <1>1, <1>3, <1>t DEF OutUnused, On, Backend
<1>14. OneDevice'
  <2>1. \A d \in Commands \ {c} : command[d].token # NoToken =>
          service'.device[command[d].token] = service.device[command[d].token]
    BY <1>0, <1>2, <1>4 DEF CommandType
  <2>2. ~past.twins /\ command[c].backend = "xal" =>
          /\ command[c].device = keyring.device /\ keyring.device # NoDevice
          /\ old # NoToken => service.device[old] = keyring.device
    BY <1>0, <1>t DEF OneDevice, Backend
  <2>3. ~past'.twins /\ r.backend = "xal" =>
          /\ r.device = keyring.device /\ keyring.device # NoDevice
          /\ r.token # NoToken => service'.device[r.token] = keyring.device
    BY <1>3, <2>2
  <2>4. r.pc # "new device"
    BY <1>3
  <2> QED BY <1>1, <1>t, <2>1, <2>3, <2>4, RecordKeepsDevice
<1>15. AccountsSound'
  <2> SUFFICES ASSUME NEW b \in Backends
               PROVE  /\ \/ keyring.account[b] \in service'.live \cup {NoToken} \/ b \in past'.lost
                         \/ \E d \in Commands : Owes(d)' /\ Backend(d)' = b
                      /\ b \in past.out => keyring.account[b] = NoToken
                      /\ b = "xal" /\ keyring.account[b] # NoToken /\ ~past.twins
                         => service'.device[keyring.account[b]] = keyring.device
    BY DEF AccountsSound
  <2>1. /\ \/ keyring.account[b] \in service.live \cup {NoToken} \/ b \in past.lost
           \/ \E d \in Commands : Owes(d) /\ Backend(d) = b
        /\ b \in past.out => keyring.account[b] = NoToken
        /\ b = "xal" /\ keyring.account[b] # NoToken /\ ~past.twins
           => service.device[keyring.account[b]] = keyring.device
    BY <1>t DEF AccountsSound
  <2>2. keyring.account[b] # NoToken => service'.device[keyring.account[b]] = service.device[keyring.account[b]]
    BY <1>0, <1>2, <1>4
  <2>3. ASSUME NEW d \in Commands, Owes(d), Backend(d) = b PROVE Owes(d)' /\ Backend(d)' = b
    BY <1>0, <1>1, <2>3 DEF Owes, On, Backend
  <2>4. ASSUME keyring.account[b] \in service.live, keyring.account[b] \notin service'.live
        PROVE  b \in past'.lost \/ (Owes(c)' /\ Backend(c)' = b)
    <3>1. old = keyring.account[b] /\ old # NoToken
      BY <1>0, <1>2, <2>4 DEF Tokens, NoToken
    <3>2. command[c].backend = b /\ ~command[c].login
      BY <1>0, <1>t, <3>1 DEF OneBackend, TokenHeld, Backend
    <3> QED BY <1>1, <1>3, <3>2 DEF Owes, On, Backend
  <2> QED BY <2>1, <2>2, <2>3, <2>4
<1> QED BY <1>7, <1>8, <1>9, <1>10, <1>11, <1>12, <1>13, <1>14, <1>15 DEF AccountsInv

\* The code or the token is redeemed, whether or not the answer arrives.
LEMMA RedeemInv == ASSUME AccountsInv, NEW c \in Commands, Redeem(c) \/ AnswerLost(c) PROVE AccountsInv'
<1>0. /\ command \in [Commands -> CommandType] /\ command[c] \in CommandType
      /\ past \in [lost : SUBSET Backends, out : SUBSET Backends, twins : BOOLEAN]
      /\ Backend(c) \in Backends
  BY DEF AccountsInv, AccountsType, CommandType, Backend
<1>1. On(c, "redeem") /\ ServiceRedeems(c) /\ keyring' = keyring
  BY DEF Redeem, AnswerLost
<1>2. CASE Redeem(c)
  <2> DEFINE token == Selected(Reply(c), command[c].token)
             r == [command[c] EXCEPT !.token = token, !.pc = "chain"]
  <2>1. command' = [command EXCEPT ![c] = r] /\ past' = past
    BY <1>0, <1>2 DEF Redeem
  <2>2. token \in Tokens \cup {NoToken}
    <3>1. Reply(c) \in Tokens \cup {NoToken}
      BY <1>1, ServiceLemma
    <3> QED BY <1>0, <3>1 DEF Selected, CommandType
  <2>3. token = Selected(Reply(c), command[c].token)
    OBVIOUS
  <2> HIDE DEF token
  <2>4. /\ r \in CommandType /\ r.pc = "chain" /\ r.token = token
        /\ r.login = command[c].login /\ r.backend = command[c].backend /\ r.device = command[c].device
    BY <1>0, <2>2 DEF CommandType, Stages
  <2> HIDE DEF r
  <2> QED BY <1>0, <1>1, <2>1, <2>3, <2>4, AfterService
<1>3. CASE AnswerLost(c)
  <2> DEFINE lost == IF command[c].login THEN past.lost ELSE past.lost \cup {Backend(c)}
  <2>1. command' = [command EXCEPT ![c] = Idle] /\ past' = [past EXCEPT !.lost = lost]
    BY <1>0, <1>3 DEF AnswerLost, Ends
  <2>2. lost \in SUBSET Backends /\ past.lost \subseteq lost /\ (~command[c].login => Backend(c) \in lost)
    BY <1>0
  <2> HIDE DEF lost
  <2>3. /\ past' \in [lost : SUBSET Backends, out : SUBSET Backends, twins : BOOLEAN]
        /\ past'.lost = lost /\ past'.out = past.out /\ past'.twins = past.twins
    BY <1>0, <2>1, <2>2
  <2>4. Idle \in CommandType
    BY DEF Idle, CommandType, Stages, Backends
  <2> QED BY <1>1, <2>1, <2>2, <2>3, <2>4, AfterService
<1> QED BY <1>2, <1>3


\* save_account: what a command redeemed becomes the stored token of its backend.
LEMMA SaveInv == ASSUME AccountsInv, NEW c \in Commands, Save(c) PROVE AccountsInv'
<1> DEFINE B == command[c].backend
           token == command[c].token
           r == IF command[c].login THEN Idle ELSE [command[c] EXCEPT !.pc = "session"]
           account == [keyring.account EXCEPT ![B] = token]
<1>0. /\ command \in [Commands -> CommandType] /\ command[c] \in CommandType
      /\ past \in [lost : SUBSET Backends, out : SUBSET Backends, twins : BOOLEAN]
      /\ keyring \in [account : [Backends -> Tokens \cup {NoToken}], device : Commands \cup {NoDevice}]
      /\ B \in Backends /\ token \in Tokens \cup {NoToken}
  BY DEF AccountsInv, AccountsType, CommandType
<1>t. OnlyIssued /\ OneBackend /\ TokenHeld /\ ChainFresh /\ OutUnused /\ OneDevice /\ DeviceStages /\ AccountsSound
  BY DEF AccountsInv
<1>1. /\ command[c].pc = "chain" /\ service' = service
      /\ command' = [command EXCEPT ![c] = r]
      /\ keyring' = [keyring EXCEPT !.account = account]
      /\ past' = [past EXCEPT !.lost = past.lost \ {B}]
  <2>1. CASE command[c].login
    BY <1>0, <2>1 DEF Save, On, Ends, Backend
  <2>2. CASE ~command[c].login
    BY <1>0, <2>2 DEF Save, On, Moves, Backend
  <2> QED BY <2>1, <2>2
<1>2. token # NoToken /\ token \in service.live
  BY <1>1, <1>t, ChainToken DEF On, ChainFresh
<1>3. /\ r \in CommandType
      /\ \/ r.pc = "idle" /\ r.login /\ r.token = NoToken /\ r.backend = "entra"
         \/ /\ r.pc = "session" /\ ~r.login /\ r.token = token /\ r.backend = B
            /\ r.device = command[c].device
  <2>1. CASE command[c].login
    BY <2>1 DEF Idle, CommandType, Stages, Backends
  <2>2. CASE ~command[c].login
    BY <1>0, <2>2 DEF CommandType, Stages
  <2> QED BY <2>1, <2>2
<1> HIDE DEF r
<1>4. /\ command' \in [Commands -> CommandType] /\ command'[c] = r
      /\ \A d \in Commands \ {c} : command'[d] = command[d]
  BY <1>0, <1>1, <1>3
<1>5. /\ account \in [Backends -> Tokens \cup {NoToken}] /\ account[B] = token
      /\ \A b \in Backends \ {B} : account[b] = keyring.account[b]
  BY <1>0
<1> HIDE DEF account
<1>6. /\ keyring' \in [account : [Backends -> Tokens \cup {NoToken}], device : Commands \cup {NoDevice}]
      /\ keyring'.account = account /\ keyring'.device = keyring.device
      /\ past' \in [lost : SUBSET Backends, out : SUBSET Backends, twins : BOOLEAN]
      /\ past'.lost = past.lost \ {B} /\ past'.out = past.out /\ past'.twins = past.twins
  BY <1>0, <1>1, <1>5
<1>7. AccountsType'
  BY <1>1, <1>4, <1>6 DEF AccountsInv, AccountsType, CommandType
<1>8. OnlyIssued'
  <2>1. r.token <= service.issued /\ token <= service.issued
    BY <1>3, <1>t, IssuedNat DEF OnlyIssued, NoToken
  <2>2. \A b \in Backends : account[b] <= service.issued
    BY <1>5, <1>t, <2>1 DEF OnlyIssued
  <2>3. \A d \in Commands : command'[d].token <= service.issued
    BY <1>4, <1>t, <2>1 DEF OnlyIssued
  <2> QED BY <1>1, <1>6, <1>t, <2>2, <2>3 DEF OnlyIssued
<1>9. OneBackend'
  <2>1. \A b \in Backends : token = keyring.account[b] => B = b
    BY <1>2, <1>t DEF OneBackend, Backend
  <2>2. \A d \in Commands : token = command[d].token => B = command[d].backend
    BY <1>2, <1>t DEF OneBackend, Backend
  <2>3. ASSUME NEW a \in Backends, NEW b \in Backends, a # b, account[a] # NoToken PROVE account[a] # account[b]
    <3>1. CASE a = B
      BY <1>5, <2>1, <2>3, <3>1
    <3>2. CASE b = B
      BY <1>5, <2>1, <2>3, <3>2
    <3>3. CASE a # B /\ b # B
      BY <1>5, <1>t, <2>3, <3>3 DEF OneBackend
    <3> QED BY <3>1, <3>2, <3>3
  <2>4. \A d \in Commands : command'[d].token # NoToken =>
          command'[d].token = command[d].token /\ command'[d].backend = command[d].backend
    BY <1>3, <1>4
  <2>5. ASSUME NEW d \in Commands, NEW b \in Backends, command'[d].token # NoToken, command'[d].token = account[b]
        PROVE  command'[d].backend = b
    <3>1. CASE b = B
      BY <1>5, <2>2, <2>4, <2>5, <3>1
    <3>2. CASE b # B
      BY <1>5, <1>t, <2>4, <2>5, <3>2 DEF OneBackend, Backend
    <3> QED BY <3>1, <3>2
  <2>6. ASSUME NEW d \in Commands, NEW e \in Commands,
               command'[d].token # NoToken, command'[d].token = command'[e].token
        PROVE  command'[d].backend = command'[e].backend
    BY <1>t, <2>4, <2>6 DEF OneBackend, Backend
  <2> QED BY <1>6, <2>3, <2>5, <2>6 DEF OneBackend, Backend
<1>10. TokenHeld'
  BY <1>2, <1>3, <1>4, <1>t DEF TokenHeld
<1>11. DeviceStages'
  BY <1>3, <1>4, <1>t DEF DeviceStages, Backend
<1>12. ChainFresh'
  <2>1. ASSUME NEW d \in Commands, On(d, "chain")'
        PROVE  /\ command'[d].token \in service.live
               /\ service.policy = "rotates" =>
                    /\ \A b \in Backends : account[b] # command'[d].token
                    /\ \A e \in Commands \ {d} : command'[e].token # command'[d].token
    <3>1. d # c /\ On(d, "chain") /\ command'[d] = command[d]
      BY <1>3, <1>4, <2>1 DEF On
    <3>2. /\ command[d].token # NoToken /\ command[d].token \in service.live
          /\ service.policy = "rotates" =>
               /\ \A b \in Backends : keyring.account[b] # command[d].token
               /\ \A e \in Commands \ {d} : command[e].token # command[d].token
      BY <1>t, <3>1, ChainToken DEF ChainFresh
    <3>3. \A e \in Commands : command'[e].token = NoToken \/ command'[e].token = command[e].token
      BY <1>3, <1>4
    <3>4. \A b \in Backends : account[b] = token \/ account[b] = keyring.account[b]
      BY <1>5
    <3> QED BY <3>1, <3>2, <3>3, <3>4
  <2> QED BY <1>1, <1>6, <2>1 DEF ChainFresh
<1>13. B \notin past.out /\ OutUnused'
  <2>1. B \notin past.out
    BY <1>1, <1>t DEF OutUnused, On, Backend
  <2> QED BY <1>3, <1>4, <1>6, <1>t, <2>1 DEF OutUnused, On, Backend
<1>14. ~past.twins /\ B = "xal" =>
         /\ command[c].device = keyring.device /\ keyring.device # NoDevice
         /\ service.device[token] = keyring.device
  BY <1>1, <1>2, <1>t DEF OneDevice, Backend
<1>15. OneDevice'
  <2>1. ~past.twins /\ account["xal"] # NoToken => keyring.account["xal"] # NoToken \/ keyring.device # NoDevice
    BY <1>5, <1>14 DEF Backends
  <2>2. ~past.twins /\ r.backend = "xal" =>
          /\ r.device = keyring.device /\ keyring.device # NoDevice
          /\ r.token # NoToken => service.device[r.token] = keyring.device
    BY <1>3, <1>14
  <2>3. r.pc # "new device"
    BY <1>3
  <2> QED BY <1>1, <1>4, <1>6, <1>t, <2>1, <2>2, <2>3, RecordKeepsDevice
<1>16. AccountsSound'
  <2> SUFFICES ASSUME NEW b \in Backends
               PROVE  /\ \/ account[b] \in service.live \cup {NoToken} \/ b \in past.lost \ {B}
                         \/ \E d \in Commands : Owes(d)' /\ Backend(d)' = b
                      /\ b \in past.out => account[b] = NoToken
                      /\ b = "xal" /\ account[b] # NoToken /\ ~past.twins
                         => service.device[account[b]] = keyring.device
    BY <1>1, <1>6 DEF AccountsSound
  <2>1. CASE b = B
    BY <1>2, <1>5, <1>13, <1>14, <2>1
  <2>2. CASE b # B
    <3>1. ASSUME NEW d \in Commands, Owes(d), Backend(d) = b PROVE Owes(d)' /\ Backend(d)' = b
      BY <1>4, <2>2, <3>1 DEF Owes, On, Backend
    <3> QED BY <1>5, <1>t, <2>2, <3>1 DEF AccountsSound
  <2> QED BY <2>1, <2>2
<1> QED BY <1>7, <1>8, <1>9, <1>10, <1>11, <1>12, <1>13, <1>15, <1>16 DEF AccountsInv

\* delete_account, whoever is using the account.
LEMMA LogoutInv == ASSUME AccountsInv, NEW b \in Backends, Logout(b) PROVE AccountsInv'
<1> DEFINE account == [keyring.account EXCEPT ![b] = NoToken]
           used == \E c \in Commands : ~On(c, "idle") /\ Backend(c) = b
           out == IF used THEN past.out ELSE past.out \cup {b}
<1>0. /\ past \in [lost : SUBSET Backends, out : SUBSET Backends, twins : BOOLEAN]
      /\ keyring \in [account : [Backends -> Tokens \cup {NoToken}], device : Commands \cup {NoDevice}]
      /\ service.issued \in Nat
  BY IssuedNat DEF AccountsInv, AccountsType
<1>t. OnlyIssued /\ OneBackend /\ TokenHeld /\ ChainFresh /\ OutUnused /\ OneDevice /\ DeviceStages /\ AccountsSound
  BY DEF AccountsInv
<1>1. /\ keyring' = [keyring EXCEPT !.account = account]
      /\ past' = [past EXCEPT !.out = out, !.lost = past.lost \ {b}]
      /\ command' = command /\ service' = service
  BY <1>0 DEF Logout
<1>2. /\ account \in [Backends -> Tokens \cup {NoToken}] /\ account[b] = NoToken
      /\ \A a \in Backends \ {b} : account[a] = keyring.account[a]
  BY <1>0
<1> HIDE DEF account
<1>3. out \in SUBSET Backends /\ (used => out = past.out) /\ out \subseteq past.out \cup {b}
  BY <1>0
<1> HIDE DEF out
<1>4. /\ keyring' \in [account : [Backends -> Tokens \cup {NoToken}], device : Commands \cup {NoDevice}]
      /\ keyring'.account = account /\ keyring'.device = keyring.device
      /\ past' \in [lost : SUBSET Backends, out : SUBSET Backends, twins : BOOLEAN]
      /\ past'.lost = past.lost \ {b} /\ past'.out = out /\ past'.twins = past.twins
  BY <1>0, <1>1, <1>2, <1>3
<1>5. AccountsType'
  BY <1>1, <1>4 DEF AccountsInv, AccountsType
<1>6. OnlyIssued'
  BY <1>0, <1>1, <1>2, <1>4, <1>t DEF OnlyIssued, NoToken
<1>7. OneBackend'
  <2>1. \A a \in Backends : account[a] # NoToken => a # b /\ account[a] = keyring.account[a]
    BY <1>2
  <2>2. ASSUME NEW a \in Backends, NEW d \in Backends, a # d, account[a] # NoToken PROVE account[a] # account[d]
    BY <1>t, <2>1, <2>2 DEF OneBackend
  <2>3. \A c \in Commands, a \in Backends : command[c].token # NoToken /\ command[c].token = account[a] => Backend(c) = a
    BY <1>t, <2>1 DEF OneBackend
  <2> QED BY <1>1, <1>4, <1>t, <2>2, <2>3 DEF OneBackend, Backend
<1>8. TokenHeld' /\ DeviceStages'
  BY <1>1, <1>t DEF TokenHeld, DeviceStages, Backend
<1>9. ChainFresh'
  <2>1. ASSUME NEW d \in Commands, On(d, "chain")
        PROVE  /\ command[d].token \in service.live
               /\ service.policy = "rotates" =>
                    /\ \A a \in Backends : account[a] # command[d].token
                    /\ \A e \in Commands \ {d} : command[e].token # command[d].token
    <3>1. command[d].token # NoToken
      BY <2>1, ChainToken
    <3>2. \A a \in Backends : account[a] = NoToken \/ account[a] = keyring.account[a]
      BY <1>2
    <3> QED BY <1>t, <2>1, <3>1, <3>2 DEF ChainFresh
  <2> QED BY <1>1, <1>4, <2>1 DEF ChainFresh, On
<1>10. OutUnused'
  <2>1. ASSUME NEW c \in Commands, ~On(c, "idle") PROVE Backend(c) \notin out
    BY <1>3, <1>t, <2>1 DEF OutUnused
  <2> QED BY <1>1, <1>4, <2>1 DEF OutUnused, On, Backend
<1>11. OneDevice'
  <2> SUFFICES ASSUME ~past.twins
               PROVE  /\ \A c \in Commands : On(c, "new device") =>
                           /\ keyring.device = NoDevice
                           /\ \A d \in Commands \ {c} : ~On(d, "new device")
                      /\ \A c \in Commands :
                           Backend(c) = "xal" /\ command[c].pc \in {"sign in", "redeem", "chain", "session"} =>
                             /\ command[c].device = keyring.device /\ keyring.device # NoDevice
                             /\ command[c].token # NoToken => service.device[command[c].token] = keyring.device
                      /\ account["xal"] # NoToken => keyring.device # NoDevice
    BY <1>1, <1>4 DEF OneDevice, On, Backend
  <2>1. account["xal"] # NoToken => keyring.account["xal"] # NoToken
    BY <1>2 DEF Backends
  <2> QED BY <1>t, <2>1 DEF OneDevice
<1>12. AccountsSound'
  <2> SUFFICES ASSUME NEW a \in Backends
               PROVE  /\ \/ account[a] \in service.live \cup {NoToken} \/ a \in past.lost \ {b}
                         \/ \E d \in Commands : Owes(d) /\ Backend(d) = a
                      /\ a \in out => account[a] = NoToken
                      /\ a = "xal" /\ account[a] # NoToken /\ ~past.twins
                         => service.device[account[a]] = keyring.device
    BY <1>1, <1>4 DEF AccountsSound, Owes, On, Backend
  <2>1. CASE a = b
    BY <1>2, <2>1
  <2>2. CASE a # b
    BY <1>2, <1>3, <1>t, <2>2 DEF AccountsSound
  <2> QED BY <2>1, <2>2
<1> QED BY <1>5, <1>6, <1>7, <1>8, <1>9, <1>10, <1>11, <1>12 DEF AccountsInv

LEMMA AccountsNextInv == AccountsInv /\ [AccountsNext]_accountVars => AccountsInv'
<1>1. ASSUME AccountsInv, AccountsNext PROVE AccountsInv'
  <2>1. ASSUME NEW c \in Commands, Stop(c) PROVE AccountsInv'
    <3>1. Ends(c) /\ ~On(c, "idle") /\ past' = Lost(c) /\ UNCHANGED <<keyring, service>>
      BY <2>1 DEF Stop
    <3> QED BY <1>1, <3>1, EndInv
  <2> QED BY <1>1, <2>1, StartInv, SaveDeviceInv, RedeemInv, SaveInv, LogoutInv DEF AccountsNext
<1>2. AccountsInv /\ UNCHANGED accountVars => AccountsInv'
  <2> SUFFICES ASSUME AccountsInv, UNCHANGED <<keyring, command, service, past>> PROVE AccountsInv'
    BY DEF accountVars
  <2>1. AccountsType' /\ OnlyIssued'
    BY DEF AccountsInv, AccountsType, OnlyIssued
  <2>2. OneBackend' /\ TokenHeld' /\ DeviceStages'
    BY DEF AccountsInv, OneBackend, TokenHeld, DeviceStages, Backend
  <2>3. ChainFresh' /\ OutUnused'
    BY DEF AccountsInv, ChainFresh, OutUnused, On, Backend
  <2>4. OneDevice'
    BY DEF AccountsInv, OneDevice, On, Backend
  <2>5. AccountsSound'
    BY DEF AccountsInv, AccountsSound, Owes, On, Backend
  <2> QED BY <2>1, <2>2, <2>3, <2>4, <2>5 DEF AccountsInv
<1> QED BY <1>1, <1>2

\* No account is lost without a command to blame, and none comes back: for any number of
\* commands, wherever each of them stops (run_auth, complete_online_login,
\* complete_authenticated_chat, the credential store).
THEOREM AccountsStaySound == AccountsInit /\ [][AccountsNext]_accountVars => []AccountsSound
<1>1. AccountsInv => AccountsSound
  BY DEF AccountsInv
<1> QED BY <1>1, AccountsNextInv, AccountsInitInv, PTL

-----------------------------------------------------------------------------
(* The three together.                                                     *)

LaunchInv ==
    /\ LoginInv /\ AccountsInv /\ CacheTypeOK /\ CacheSound
    /\ part = "content" => CacheInv

LEMMA LaunchInitInv == LaunchInit => LaunchInv
<1> SUFFICES ASSUME LaunchInit PROVE LaunchInv
  OBVIOUS
<1>1. LoginInv
  BY LoginInitInv DEF LaunchInit, LoginRests
<1>2. AccountsInv
  BY AccountsInitInv DEF LaunchInit, AccountsRest
<1>3. CacheInv => CacheTypeOK /\ CacheSound
  BY DEF CacheInv, CacheType, CacheTypeOK, Contents
<1>4. CASE CacheInit
  BY <1>1, <1>2, <1>3, <1>4, CacheInitInv DEF LaunchInv
<1>5. CASE part # "content" /\ CacheRests
  <2>1. disk = [f \in Files |-> Good] /\ parts = {}
        /\ program = [p \in Programs |-> [Off EXCEPT !.pc = "ready", !.got = Good]]
    BY <1>5 DEF CacheRests
  <2>2. \A p \in Programs : /\ program[p].pid = 0 /\ program[p].file = "manifest"
                            /\ program[p].pc = "ready" /\ program[p].got = Good
    BY <2>1 DEF Off
  <2>3. CacheTypeOK
    BY <2>1, <2>2 DEF CacheTypeOK, Files
  <2>4. CacheSound
    BY <2>1, <2>2 DEF CacheSound, Files, Good, Bad, Old
  <2> QED BY <1>1, <1>2, <1>5, <2>3, <2>4 DEF LaunchInv
<1> QED BY <1>4, <1>5 DEF LaunchInit

LEMMA LaunchNextInv == LaunchInv /\ [LaunchNext]_launchVars => LaunchInv'
<1> SUFFICES ASSUME LaunchInv, [LaunchNext]_launchVars PROVE LaunchInv'
  OBVIOUS
<1>1. part' = part
  BY DEF LaunchNext, launchVars
<1>2. [Next]_vars /\ [AccountsNext]_accountVars
  BY DEF LaunchNext, launchVars
<1>3. LoginInv' /\ AccountsInv'
  BY <1>2, LoginNextInv, AccountsNextInv DEF LaunchInv
<1>4. CASE part = "content"
  <2>1. [CacheNext]_cacheVars
    BY <1>4 DEF LaunchNext, launchVars
  <2>2. CacheInv'
    BY <1>4, <2>1, CacheNextInv DEF LaunchInv
  <2>3. CacheTypeOK' /\ CacheSound'
    BY <2>2 DEF CacheInv, CacheType, CacheTypeOK, Contents
  <2> QED BY <1>1, <1>3, <2>2, <2>3 DEF LaunchInv
<1>5. CASE part # "content"
  <2>1. UNCHANGED <<disk, parts, program, machine>>
    BY <1>5 DEF LaunchNext, launchVars, cacheVars
  <2>2. CacheTypeOK' /\ CacheSound'
    BY <2>1 DEF LaunchInv, CacheTypeOK, CacheSound
  <2> QED BY <1>1, <1>3, <1>5, <2>2 DEF LaunchInv
<1> QED BY <1>4, <1>5

\* A login, the content cache and the stored accounts, whichever of them a behaviour
\* follows: their types and everything that is claimed of them (connect_to_play,
\* establish_authenticated_play, VanillaClientResources::open, run_auth).
THEOREM LaunchSound ==
    LaunchSpec => [](/\ LaunchTypeOK /\ CacheSound /\ AccountsSound
                     /\ FramesIntact /\ ServerUnderstands /\ RegistriesLatest)
<1>1. LaunchInv => /\ LaunchTypeOK /\ CacheSound /\ AccountsSound
                   /\ FramesIntact /\ ServerUnderstands /\ RegistriesLatest
  <2> SUFFICES ASSUME LaunchInv PROVE /\ LaunchTypeOK /\ CacheSound /\ AccountsSound
                                      /\ FramesIntact /\ ServerUnderstands /\ RegistriesLatest
    OBVIOUS
  <2>1. LoginInv /\ AccountsInv /\ CacheTypeOK /\ CacheSound
    BY DEF LaunchInv
  <2>2. TypeOK
    <3>1. LoginType
      BY <2>1 DEF LoginInv
    <3> QED BY <3>1 DEF LoginType, TypeOK, Bytes
  <2>3. AccountsTypeOK
    BY <2>1 DEF AccountsInv, AccountsType, AccountsTypeOK
  <2> QED BY <2>1, <2>2, <2>3 DEF LaunchTypeOK, AccountsInv, LoginInv
<1> QED BY <1>1, LaunchInitInv, LaunchNextInv, PTL DEF LaunchSpec
=============================================================================
