------------------------------- MODULE Login -------------------------------
(***************************************************************************)
(* Reaching Play: the status query (cubic-network/src/status.rs), the      *)
(* offline login (development_login/mod.rs), the authenticated login       *)
(* (online_login.rs), the configuration phase they share and the first     *)
(* reads of the Play session, over the connection of FrameTransport.       *)
(* The server, its side of the cipher and the sockets are external.        *)
(***************************************************************************)
EXTENDS FrameTransport, FiniteSets

CONSTANTS
    Extras,                 \* packets the server sends beyond those every login needs
    MaxSent,                \* frames the server sends in one behaviour
    MaxOnWire,              \* bytes the socket holds before the server must wait
    MaxLoginPackets,        \* MAX_LOGIN_PACKETS
    MaxConfigurationPackets,\* MAX_CONFIGURATION_PACKETS
    MaxAcceptancePackets,   \* MAX_PLAY_ACCEPTANCE_PACKETS
    MaxReconfigurations     \* MAX_RECONFIGURATIONS_DURING_ACCEPTANCE

ASSUME LoginAssumption ==
    {MaxSent, MaxOnWire, MaxLoginPackets, MaxConfigurationPackets, MaxAcceptancePackets,
     MaxReconfigurations} \subseteq Nat

VARIABLES
    conn,       \* the client's MinecraftConnection
    client,     \* the login task
    wire,       \* bytes on their way to the client
    outbox,     \* packets on their way to the server
    sent,       \* every frame the server sent, in order
    server      \* the peer

vars == <<conn, client, wire, outbox, sent, server>>

None == "none"
Kinds == {"status", "offline", "online"}
Registries == {"dimension_type", "entity_variant"}

\* The packets of each phase, grouped by what the client does with them.
LoginReply == [plugin_request |-> "plugin_response", cookie_request |-> "cookie_response"]
ConfigurationReply ==
    [cookie_request |-> "cookie_response", keep_alive |-> "keep_alive",
     ping |-> "pong", known_packs |-> "known_packs"]
ConfigurationSkipped == {"custom_payload", "update_tags"}
AcceptanceReply ==
    [cookie_request |-> "cookie_response", keep_alive |-> "keep_alive", ping |-> "pong",
     player_position |-> "teleport_confirmation"]
AcceptanceIgnored == {"world_packet"}
\* disconnect, and what the login does not support.
Refused == {"disconnect", "resource_pack_push", "transfer", "code_of_conduct"}
Large == {"success", "login", "encryption_request"} \cup Registries

Running == client.outcome = "running"
\* How many packets the loop of each phase reads; status and session have no such loop.
Limit == CASE client.state = "Login" -> MaxLoginPackets
           [] client.state = "Configuration" -> MaxConfigurationPackets
           [] client.state = "Play" -> MaxAcceptancePackets
           [] OTHER -> client.count + 1

(***************************************************************************)
(* The client.                                                             *)
(***************************************************************************)
Init ==
    /\ conn = NewConnection
    /\ wire = <<>> /\ outbox = <<>> /\ sent = <<>>
    /\ \E kind \in Kinds :
        client = [kind |-> kind, state |-> "Handshake", count |-> 0, rounds |-> 0,
                  phase |-> [r \in Registries |-> 0], registries |-> [r \in Registries |-> 0],
                  loaded |-> FALSE, waiting |-> FALSE, outcome |-> "running", log |-> <<>>]
    /\ server = [phase |-> "Handshake", key |-> 0, zip |-> FALSE, inKey |-> FALSE,
                 inZip |-> FALSE, awaits |-> None, owed |-> 0, done |-> {},
                 confused |-> FALSE, faulty |-> FALSE]

Write(packets) ==
    outbox' = outbox \o [i \in DOMAIN packets |-> Outbound(conn, packets[i])]

End(reason) ==
    /\ client' = [client EXCEPT !.outcome = reason]
    /\ UNCHANGED <<conn, outbox>>

\* MinecraftConnection::connect: refused, or no answer within connect_timeout.
ConnectFails ==
    /\ Running /\ client.state = "Handshake"
    /\ End("connect_failed")
    /\ UNCHANGED <<wire, sent, server>>

Connected(kind, packets, state) ==
    /\ Running /\ client.state = "Handshake" /\ client.kind = kind
    /\ Write(packets)
    /\ client' = [client EXCEPT !.state = state]
    /\ UNCHANGED <<conn, wire, sent, server>>

\* query_inner, connect_to_play_inner and establish_authenticated_play_inner up to their
\* first read: the handshake names the next state, the request follows at once.
ConnectStatus == Connected("status", <<"handshake", "status_request">>, "Status")
ConnectOffline == Connected("offline", <<"handshake", "login_start">>, "Login")
ConnectOnline == Connected("online", <<"handshake", "login_start">>, "Login")

Reading == Running /\ client.state # "Handshake" /\ client.count < Limit

\* read_next_frame when no frame is complete: one socket read of any length, decrypted
\* and pushed; a full buffer is a framing error, a closed socket a premature disconnect.
ReadSome ==
    /\ Reading /\ NextFrame(conn, sent) = NeedMore
    /\ \/ \E n \in 1 .. ReadSize :
            /\ n <= Len(wire)
            /\ wire' = SubSeq(wire, n + 1, Len(wire))
            /\ IF FitsBuffer(conn, SubSeq(wire, 1, n))
               THEN conn' = Received(conn, SubSeq(wire, 1, n)) /\ UNCHANGED client
               ELSE client' = [client EXCEPT !.outcome = "framing"] /\ UNCHANGED conn
       \/ /\ wire = <<>> /\ server.phase = "Closed"
          /\ client' = [client EXCEPT !.outcome = "premature_disconnect"]
          /\ UNCHANGED <<conn, wire>>
    /\ UNCHANGED <<outbox, sent, server>>

\* The io_timeout of a bounded read and the overall timeout: tokio polls the read first,
\* so they fire only while the read is pending.
Timeout ==
    /\ Reading /\ client.state # "Session"
    /\ wire = <<>> /\ NextFrame(conn, sent) = NeedMore
    /\ client' = [client EXCEPT !.outcome = "timeout"]
    /\ UNCHANGED <<conn, wire, outbox, sent, server>>

\* next_frame or decode_frame_body reports an error.
RejectFrame ==
    /\ Reading
    /\ LET n == NextFrame(conn, sent) IN
        \/ n = Malformed
        \/ n \notin {NeedMore, Malformed} /\ ~BodyDecodes(conn, sent[n])
    /\ client' = [client EXCEPT !.outcome = "framing"]
    /\ UNCHANGED <<conn, wire, outbox, sent, server>>

\* The frame whose turn it is, decoded; FALSE while there is none.
Arrived(n) == Reading /\ NextFrame(conn, sent) = n /\ BodyDecodes(conn, sent[n])
\* What each handler starts with: the frame leaves the buffer and is counted.
Taken(n) == [client EXCEPT !.log = Append(@, <<n, client.state>>), !.count = @ + 1]
Answer(n, packets, next) ==
    /\ Write(packets)
    /\ conn' = Consumed(conn, sent[n])
    /\ client' = next
Fails(n, reason) == Answer(n, <<>>, [Taken(n) EXCEPT !.outcome = reason])

\* query_inner after its writes: the response, the ping, the matching pong.
HandleStatus(n) ==
    /\ Arrived(n) /\ client.state = "Status"
    /\ LET packet == sent[n].packet IN
        \/ /\ client.count = 0 /\ packet = "status_response"
           /\ Answer(n, <<"ping">>, Taken(n))
        \/ /\ client.count = 1 /\ packet = "pong"
           /\ Answer(n, <<>>, [Taken(n) EXCEPT !.outcome = "status"])
        \/ /\ packet # (IF client.count = 0 THEN "status_response" ELSE "pong")
           /\ Fails(n, "protocol")
    /\ UNCHANGED <<wire, sent, server>>

\* The packets both logins treat alike; success moves to Configuration once acknowledged.
LoginAnswers(n, packet) ==
    \/ packet \in DOMAIN LoginReply /\ Answer(n, <<LoginReply[packet]>>, Taken(n))
    \/ packet \in Refused /\ Fails(n, "refused")
    \/ /\ packet = "success"
       /\ Answer(n, <<"login_acknowledged", "client_information">>,
                 [Taken(n) EXCEPT !.state = "Configuration", !.count = 0])
    \/ packet = "wrong_success" /\ Fails(n, "profile_mismatch")

\* run_login: an offline server that asks for encryption or compression is not supported.
HandleOfflineLogin(n) ==
    /\ Arrived(n) /\ client.state = "Login" /\ client.kind = "offline"
    /\ \/ LoginAnswers(n, sent[n].packet)
       \/ /\ sent[n].packet \in {"encryption_request", "set_compression"}
          /\ Fails(n, "unsupported")
    /\ UNCHANGED <<wire, sent, server>>

\* The loop of establish_authenticated_play_inner: the encryption response still goes out
\* in clear, what follows it enciphered; joining the session server may fail.
HandleOnlineLogin(n) ==
    /\ Arrived(n) /\ client.state = "Login" /\ client.kind = "online"
    /\ LET packet == sent[n].packet IN
        \/ LoginAnswers(n, packet)
        \/ packet = "encryption_request" /\ Fails(n, "join_failed")
        \/ /\ packet = "encryption_request"
           /\ Write(<<"encryption_response">>)
           /\ conn' = EnableEncryption(Consumed(conn, sent[n]))
           /\ client' = Taken(n)
        \/ /\ packet = "set_compression"
           /\ conn' = EnableCompression(Consumed(conn, sent[n]))
           /\ client' = Taken(n) /\ UNCHANGED outbox
    /\ UNCHANGED <<wire, sent, server>>

\* Mutant: the last phase replaces what the earlier ones left.
MergedFresh(earlier, phase) == phase

\* run_configuration folds a finished phase into what earlier ones left:
\* a registry the phase did not carry keeps its earlier entries.
Merged(earlier, phase) ==
    [r \in Registries |-> IF phase[r] = 0 THEN earlier[r] ELSE phase[r]]

\* run_configuration_phase.
HandleConfiguration(n) ==
    /\ Arrived(n) /\ client.state = "Configuration"
    /\ LET packet == sent[n].packet IN
        \/ /\ packet \in DOMAIN ConfigurationReply
           /\ Answer(n, <<ConfigurationReply[packet]>>, Taken(n))
        \/ packet \in ConfigurationSkipped /\ Answer(n, <<>>, Taken(n))
        \/ packet \in Registries /\ Answer(n, <<>>, [Taken(n) EXCEPT !.phase[packet] = n])
        \/ packet \in Refused /\ Fails(n, "refused")
        \/ /\ packet = "finish"
           /\ Answer(n, <<"finish_acknowledged">>,
                     [Taken(n) EXCEPT !.state = "Play", !.count = 0, !.loaded = FALSE,
                                      !.registries = Merged(client.registries, client.phase),
                                      !.phase = [r \in Registries |-> 0]])
    /\ UNCHANGED <<wire, sent, server>>

\* The loop of run_configuration runs 0..=MAX_RECONFIGURATIONS_DURING_ACCEPTANCE times.
MayReconfigureOnceMore == client.rounds <= MaxReconfigurations  \* mutant
MayReconfigure == client.rounds < MaxReconfigurations

\* await_initial_play_login; leaving it for the session is run_configuration's result.
HandleAcceptance(n) ==
    /\ Arrived(n) /\ client.state = "Play"
    /\ LET packet == sent[n].packet IN
        \/ packet \in DOMAIN AcceptanceReply /\ Answer(n, <<AcceptanceReply[packet]>>, Taken(n))
        \/ /\ packet = "chunk_batch_finished"
           /\ Answer(n, IF client.loaded THEN <<"chunk_batch_received">>
                        ELSE <<"chunk_batch_received", "player_loaded">>,
                     [Taken(n) EXCEPT !.loaded = TRUE])
        \/ packet \in AcceptanceIgnored /\ Answer(n, <<>>, Taken(n))
        \/ packet \in Refused /\ Fails(n, "refused")
        \/ /\ packet = "start_configuration"
           /\ IF MayReconfigure
              THEN Answer(n, <<"configuration_acknowledged", "client_information">>,
                          [Taken(n) EXCEPT !.state = "Configuration", !.count = 0,
                                           !.rounds = @ + 1])
              ELSE Answer(n, <<"configuration_acknowledged", "client_information">>,
                          [Taken(n) EXCEPT !.outcome = "packet_limit"])
        \/ packet = "login" /\ Answer(n, <<>>, [Taken(n) EXCEPT !.state = "Session"])
    /\ UNCHANGED <<wire, sent, server>>

\* The for loops of the three phases run out.
LimitReached ==
    /\ Running /\ client.count >= Limit
    /\ client' = [client EXCEPT !.outcome = "packet_limit"]
    /\ UNCHANGED <<conn, wire, outbox, sent, server>>

\* run_play_session reads without a timeout inside select!: a tick or a command may
\* win while a frame is half read, and the read future is dropped at its await.
SessionServesOther ==
    /\ Reading /\ client.state = "Session" /\ client.waiting
    /\ NextFrame(conn, sent) = NeedMore
    /\ client' = [client EXCEPT !.waiting = FALSE]
    /\ UNCHANGED <<conn, wire, outbox, sent, server>>

SessionReadsAgain ==
    /\ Reading /\ client.state = "Session" /\ ~client.waiting
    /\ client' = [client EXCEPT !.waiting = TRUE]
    /\ UNCHANGED <<conn, wire, outbox, sent, server>>

HandleSession(n) ==
    /\ Arrived(n) /\ client.state = "Session"
    /\ Answer(n, <<>>, [Taken(n) EXCEPT !.count = 0])
    /\ UNCHANGED <<wire, sent, server>>

ClientStep ==
    \/ ConnectFails \/ ConnectStatus \/ ConnectOffline \/ ConnectOnline
    \/ ReadSome \/ RejectFrame \/ LimitReached
    \/ SessionServesOther \/ SessionReadsAgain
    \/ \E n \in {m \in DOMAIN sent : NextFrame(conn, sent) = m} :
        \/ HandleStatus(n) \/ HandleOfflineLogin(n) \/ HandleOnlineLogin(n)
        \/ HandleConfiguration(n) \/ HandleAcceptance(n) \/ HandleSession(n)

(***************************************************************************)
(* The server (external).  It waits for the acknowledgement of each phase  *)
(* change before it sends in the new phase, and turns compression on only  *)
(* when no answer is under way.                                            *)
(***************************************************************************)
Send(packet, format) ==
    /\ Running /\ Len(sent) < MaxSent /\ Len(wire) < MaxOnWire
    /\ LET size == IF packet \in Large THEN 2 ELSE 1
           frame == [packet |-> packet, phase |-> server.phase, size |-> size,
                     format |-> IF format = "good" THEN Format(server.zip, size) ELSE format]
       IN  /\ sent' = Append(sent, frame)
           /\ wire' = wire \o Enciphered(Len(sent) + 1, frame, server.key)
           /\ server' = [server EXCEPT
                !.key = IF @ = 0 THEN 0 ELSE @ + FrameBytes(frame),
                !.zip = @ \/ packet = "set_compression",
                !.inZip = @ \/ packet = "set_compression",
                !.done = @ \cup ({packet} \cap {"set_compression", "encryption_request", "status_response"}),
                !.faulty = @ \/ format # "good",
                !.owed = @ + IF packet \in DOMAIN LoginReply THEN 1 ELSE 0,
                !.phase = IF packet = "disconnect" THEN "Closed"
                          ELSE IF packet = "login" THEN "Session" ELSE @,
                !.awaits = CASE packet = "encryption_request" -> "encryption_response"
                             [] packet = "success" -> "login_acknowledged"
                             [] packet = "finish" -> "finish_acknowledged"
                             [] packet = "start_configuration" -> "configuration_acknowledged"
                             [] OTHER -> @]

\* What the protocol allows in each phase.
Allowed ==
    CASE server.phase = "Status" ->
            {"status_response"} \ server.done
      [] server.phase = "Ping" -> {"pong", "wrong_pong"}
      [] server.phase = "Login" ->
            {"success", "wrong_success", "disconnect"} \cup DOMAIN LoginReply
            \cup ({"encryption_request"} \ server.done)
            \cup (IF server.owed = 0 THEN {"set_compression"} \ server.done ELSE {})
      [] server.phase = "Configuration" ->
            DOMAIN ConfigurationReply \cup ConfigurationSkipped \cup Registries
            \cup Refused \cup {"finish"}
      [] server.phase = "Play" ->
            DOMAIN AcceptanceReply \cup AcceptanceIgnored \cup (Refused \ {"code_of_conduct"})
            \cup {"chunk_batch_finished", "start_configuration", "login"}
      [] server.phase = "Session" -> {"play_packet"}
      [] OTHER -> {}

Needed == {"status_response", "pong", "encryption_request", "set_compression", "success",
           "finish", "login", "play_packet"}

ServerSend ==
    /\ server.awaits = None
    /\ \E packet \in Allowed \cap (Needed \cup Extras) : Send(packet, "good")
    /\ UNCHANGED <<conn, client, outbox>>

\* A frame no correct server sends: a bad length, or a body its threshold forbids.
ServerErrs ==
    /\ server.awaits = None /\ server.phase \in {"Status", "Login", "Session"}
    /\ \E format \in {"bad_length", IF server.zip THEN "plain" ELSE "marked"} :
        Send("garbage", format)
    /\ UNCHANGED <<conn, client, outbox>>

ServerCloses ==
    /\ Running /\ outbox = <<>> /\ server.phase \notin {"Handshake", "Closed"}
    /\ server' = [server EXCEPT !.phase = "Closed", !.awaits = None]
    /\ UNCHANGED <<conn, client, wire, outbox, sent>>

ServerRead ==
    /\ Running /\ outbox # <<>> /\ server.phase # "Closed"
    /\ outbox' = Tail(outbox)
    /\ LET got == Head(outbox) IN
        server' = [server EXCEPT
            !.confused = @ \/ got.enc # server.inKey \/ got.zip # server.inZip,
            !.awaits = IF @ = got.packet THEN None ELSE @,
            !.inKey = @ \/ got.packet = "encryption_response",
            !.key = IF got.packet = "encryption_response" THEN 1 ELSE @,
            !.owed = IF got.packet \in {"plugin_response", "cookie_response"} /\ @ > 0
                     THEN @ - 1 ELSE @,
            !.phase = CASE got.packet = "status_request" -> "Status"
                        [] got.packet = "login_start" -> "Login"
                        [] got.packet = "ping" -> "Ping"
                        [] got.packet = "login_acknowledged" -> "Configuration"
                        [] got.packet = "configuration_acknowledged" -> "Configuration"
                        [] got.packet = "finish_acknowledged" -> "Play"
                        [] OTHER -> @]
    /\ UNCHANGED <<conn, client, wire, sent>>

Finished ==
    /\ ~Running
    /\ UNCHANGED vars

Next ==
    \/ ClientStep \/ Timeout
    \/ ServerSend \/ ServerErrs \/ ServerCloses \/ ServerRead
    \/ Finished

\* The runtime polls the task while the socket has bytes, and the server reads what arrives.
Fairness == WF_vars(ServerRead) /\ WF_vars(ClientStep) /\ SF_vars(ReadSome)
Spec == Init /\ [][Next]_vars /\ Fairness

(***************************************************************************)
(* Properties.                                                             *)
(***************************************************************************)
Outcomes == {"running", "connect_failed", "premature_disconnect", "framing", "timeout",
             "protocol", "refused", "unsupported", "join_failed", "profile_mismatch",
             "packet_limit", "status"}
States == {"Handshake", "Status", "Login", "Configuration", "Play", "Session"}

\* The shapes of the connection and of the login task.
TypeOK ==
    /\ conn.buffer \in Seq((0 .. MaxSent) \X (0 .. 4))
    /\ conn.decryptor \in Nat /\ conn.encryptor \in BOOLEAN /\ conn.threshold \in {0, Threshold}
    /\ client.kind \in Kinds /\ client.state \in States /\ client.outcome \in Outcomes
    /\ client.count \in Nat /\ client.rounds \in 0 .. MaxReconfigurations
    /\ client.registries \in [Registries -> 0 .. MaxSent]

\* The client handles the frames the server sent, each once, in order, whole, and in the
\* phase it was sent in: whatever lengths the socket reads return, wherever a read is
\* dropped by select! and however much of the next frame was buffered when a phase, the
\* cipher or the compression changed.  It reports a malformed frame only if the server
\* sent one: no legal traffic overflows the buffer, is cut wrongly or is inflated under
\* the wrong threshold.
FramesIntact ==
    /\ \A i \in DOMAIN client.log :
        /\ client.log[i][1] = i
        /\ client.log[i][2] =
            IF sent[i].phase = "Ping" THEN "Status" ELSE sent[i].phase
    /\ client.outcome = "framing" => server.faulty

\* Every packet the client writes is enciphered and compressed as the server expects when
\* it reads it, across enable_encryption and enable_compression.
ServerUnderstands == ~server.confused

\* The registries a session starts with are the last ones the server sent, also when a
\* second configuration phase carried only some of them.
RegistriesLatest ==
    client.state = "Session" =>
        \A r \in Registries :
            LET frames == {n \in DOMAIN sent : sent[n].packet = r}
            IN  client.registries[r] =
                    IF frames = {} THEN 0 ELSE CHOOSE n \in frames : \A m \in frames : m <= n

\* A server that waits for an acknowledgement gets it, or the client has given up:
\* the two sides never wait for each other.
ServerIsAnswered ==
    server.awaits # None ~> (server.awaits = None \/ ~Running)
=============================================================================
