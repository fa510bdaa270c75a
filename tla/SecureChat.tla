------------------------------ MODULE SecureChat ------------------------------
(***************************************************************************)
(* Signed player chat: the acknowledgement window and the signing chain of *)
(* cubic-network/src/secure_chat.rs, driven by the Play session            *)
(* (cubic-network/src/chat_session.rs), against the server's bookkeeping.  *)
(*                                                                         *)
(* The server is external: it numbers every player chat it sends, tracks   *)
(* the signed ones until they are acknowledged, and follows the client's   *)
(* chain of signed messages.  Both directions are FIFO.  A signature is    *)
(* the serial number of the signed message it belongs to.                  *)
(***************************************************************************)
EXTENDS Naturals, Sequences

CONSTANTS Capacity,        \* SecureChatRules::last_seen_capacity
          Threshold,       \* SecureChatRules::standalone_acknowledgement_threshold
          Securities,      \* ChatSecurity: Authenticated (TRUE), UnsignedDevelopment (FALSE)
          MaxMessages,     \* bound: player chat packets the server sends
          MaxChats,        \* bound: messages the user sends
          MaxSessions      \* bound: reconfigurations plus one

CONSTANT None

ASSUME ChatAssumption ==
  /\ Capacity \in Nat \ {0} /\ Threshold \in Nat
  /\ Securities \subseteq BOOLEAN
  /\ MaxMessages \in Nat /\ MaxChats \in Nat /\ MaxSessions \in Nat \ {0}
  /\ None \notin Nat

VARIABLES chat,    \* SecureChatSession, its certificate and the session's progress
          server,  \* external: the server's view of this player's chat
          down,    \* server to client
          up       \* client to server

vars == <<chat, server, down, up>>

\* LastSeenTracker::new, SecureChatSequence::new
FreshSequence(session) ==
  [session |-> session, outgoing |-> 0, incoming |-> 0,
   entries |-> [k \in 1..Capacity |-> None], last |-> None, offset |-> 0]

\* external: Capacity empty places that no message has taken yet.
FreshValidator == [k \in 1..Capacity |-> [signature |-> None, pending |-> FALSE]]

SessionUpdate(session) == [kind |-> "session", session |-> session]

Init ==
  /\ \E authenticated \in Securities :
       /\ chat = [authenticated |-> authenticated, sequence |-> FreshSequence(1),
                  expired |-> FALSE, phase |-> "play", chats |-> 0, lost |-> FALSE]
       /\ up = IF authenticated THEN <<SessionUpdate(1)>> ELSE <<>>
  /\ server = [phase |-> "play", session |-> None, index |-> 0, chain |-> 0, sent |-> 0,
               signed |-> 0, last |-> None, tracked |-> FreshValidator, sessions |-> 1,
               fault |-> FALSE, repeated |-> FALSE]
  /\ down = <<>>

Authenticated == chat.authenticated

-----------------------------------------------------------------------------
(* The client.                                                             *)

\* Mutant of Added: a message the interface dropped is not entered at all.
AddedIfDisplayed(s, signature, displayed) ==
  IF s.last = signature \/ ~displayed THEN s
  ELSE [s EXCEPT !.last = signature, !.entries = Append(Tail(@), signature), !.offset = @ + 1]

\* Mutant of Added: the oldest entry is not removed.
AddedGrowing(s, signature, displayed) ==
  IF s.last = signature THEN s
  ELSE [s EXCEPT !.last = signature, !.offset = @ + 1,
                 !.entries = Append(@, IF displayed THEN signature ELSE None)]

\* LastSeenTracker::add
Added(s, signature, displayed) ==
  IF s.last = signature THEN s
  ELSE [s EXCEPT !.last = signature, !.offset = @ + 1,
                 !.entries = Append(Tail(@), IF displayed THEN signature ELSE None)]

\* accept_incoming after its check of the global index.
Accepted(s, packet, displayed) ==
  LET counted == [s EXCEPT !.incoming = @ + 1]
  IN  IF packet.signature = None THEN counted ELSE Added(counted, packet.signature, displayed)

\* Mutant of Due: the window is acknowledged on its own only when it is twice full.
DueLate(s) == s.offset > 2 * Threshold + 1

\* standalone_acknowledgement
Due(s) == s.offset > Threshold

Ack(count) == [kind |-> "ack", count |-> count]

\* UnsignedDevelopment keeps no window: each signed message is acknowledged at once.
UnsignedAcks(packet) == IF packet.signature = None THEN <<>> ELSE <<Ack(1)>>

\* A player chat packet; displayed is whether the event queue took the message.
PlayerChat(displayed) ==
  /\ chat.phase = "play" /\ down # <<>> /\ Head(down).kind = "chat"
  /\ down' = Tail(down)
  /\ LET packet == Head(down)
         s      == chat.sequence
         after  == Accepted(s, packet, displayed)
     IN  IF ~Authenticated
         THEN up' = up \o UnsignedAcks(packet) /\ UNCHANGED chat
         ELSE IF packet.index # s.incoming
         THEN chat' = [chat EXCEPT !.phase = "failed"] /\ UNCHANGED up
         ELSE /\ chat' = [chat EXCEPT !.sequence =
                            IF Due(after) THEN [after EXCEPT !.offset = 0] ELSE after]
              /\ up' = IF Due(after) THEN Append(up, Ack(after.offset)) ELSE up
  /\ UNCHANGED server

\* The chat packet that send_chat writes.
Message(s) ==
  IF Authenticated
  THEN [kind |-> "chat", session |-> s.session, index |-> s.outgoing,
        offset |-> s.offset, window |-> s.entries]
  ELSE [kind |-> "chat", session |-> None, index |-> 0, offset |-> 0,
        window |-> [k \in 1..Capacity |-> None]]

\* prepare_outgoing: generate_update takes the offset, then the chain advances.
Prepared(s) == [s EXCEPT !.offset = 0, !.outgoing = @ + 1]

CanSend == chat.phase = "play" /\ chat.chats < MaxChats /\ (Authenticated => ~chat.expired)

SendChat ==
  /\ CanSend
  /\ up' = Append(up, Message(chat.sequence))
  /\ chat' = [chat EXCEPT !.chats = @ + 1,
                          !.sequence = IF Authenticated THEN Prepared(@) ELSE @]
  /\ UNCHANGED <<server, down>>

\* Signing fails after generate_update has taken the offset: only a warning follows.
SignFails ==
  /\ CanSend /\ Authenticated
  /\ chat' = [chat EXCEPT !.chats = @ + 1, !.sequence.offset = 0,
                          !.lost = @ \/ chat.sequence.offset > 0]
  /\ UNCHANGED <<server, down, up>>

\* The certificate's lifetime ends: later messages are refused before anything changes.
Expire ==
  /\ Authenticated /\ ~chat.expired
  /\ chat' = [chat EXCEPT !.expired = TRUE]
  /\ UNCHANGED <<server, down, up>>

\* Start Configuration: the acknowledgement is written, and no command is served ...
BeginConfiguration ==
  /\ chat.phase = "play" /\ down # <<>> /\ Head(down).kind = "configure"
  /\ down' = Tail(down)
  /\ up' = Append(up, [kind |-> "configured"])
  /\ chat' = [chat EXCEPT !.phase = "configuration"]
  /\ UNCHANGED server

\* Mutant of ResetSequence: the expected global index outlives the reconfiguration.
ResetKeepingIndex(s) == [FreshSequence(s.session + 1) EXCEPT !.incoming = s.incoming]

\* SecureChatSession::reset with a fresh random session id
ResetSequence(s) == FreshSequence(s.session + 1)

\* ... until Play is entered again, with a new chat session.
EnterPlay ==
  /\ chat.phase = "configuration" /\ down # <<>> /\ Head(down).kind = "login"
  /\ down' = Tail(down)
  /\ LET fresh == ResetSequence(chat.sequence) IN
     IF Authenticated
     THEN /\ chat' = [chat EXCEPT !.phase = "play", !.sequence = fresh]
          /\ up' = Append(up, SessionUpdate(fresh.session))
     ELSE chat' = [chat EXCEPT !.phase = "play"] /\ UNCHANGED up
  /\ UNCHANGED server

-----------------------------------------------------------------------------
(* The server.                                                             *)

\* It sends a player chat, unsigned (0), signed (1) or repeating the last one (2).
ServerChat(how) ==
  /\ server.phase = "play" /\ server.sent < MaxMessages
  /\ how = 2 => server.last # None
  /\ LET signature == CASE how = 0 -> None
                        [] how = 1 -> server.signed + 1
                        [] how = 2 -> server.last
         new == how = 1
     IN  /\ down' = Append(down, [kind |-> "chat", index |-> server.index, signature |-> signature])
         /\ server' = [server EXCEPT
              !.sent = @ + 1, !.index = @ + 1,
              !.signed = IF new THEN @ + 1 ELSE @,
              !.last = IF new THEN signature ELSE @,
              !.repeated = @ \/ how = 2,
              !.tracked = IF new THEN Append(@, [signature |-> signature, pending |-> TRUE]) ELSE @]
  /\ UNCHANGED <<chat, up>>

ServerReconfigures ==
  /\ server.phase = "play" /\ server.sessions < MaxSessions
  /\ down' = Append(down, [kind |-> "configure"])
  /\ server' = [server EXCEPT !.phase = "awaiting", !.sessions = @ + 1]
  /\ UNCHANGED <<chat, up>>

\* An acknowledged count must not pass the messages that were sent.
OffsetFits(count) == count <= Len(server.tracked) - Capacity

Advance(tracked, count) == SubSeq(tracked, count + 1, Len(tracked))

\* A place is claimed only for a message that is there, and a claim is not withdrawn.
PlaceFits(place, claim) ==
  IF claim = None THEN place.signature = None \/ place.pending
                  ELSE place.signature = claim

Claimed(place, claim) ==
  IF claim = None THEN [signature |-> None, pending |-> FALSE] ELSE [place EXCEPT !.pending = FALSE]

ServerReceives ==
  /\ up # <<>> /\ up' = Tail(up)
  /\ LET m == Head(up) IN
     CASE m.kind = "session" ->
            server' = [server EXCEPT !.session = m.session, !.chain = 0] /\ UNCHANGED down
       [] m.kind = "ack" ->
            /\ server' = IF OffsetFits(m.count)
                         THEN [server EXCEPT !.tracked = Advance(@, m.count)]
                         ELSE [server EXCEPT !.fault = TRUE]
            /\ UNCHANGED down
       [] m.kind = "chat" ->
            LET moved == Advance(server.tracked, m.offset)
                fits  == /\ OffsetFits(m.offset)
                         /\ m.session = server.session /\ m.index = server.chain
                         /\ \A k \in 1..Capacity : PlaceFits(moved[k], m.window[k])
            IN  /\ server' = IF fits
                             THEN [server EXCEPT
                                    !.chain = IF Authenticated THEN @ + 1 ELSE @,
                                    !.tracked = [k \in 1..Len(moved) |->
                                       IF k <= Capacity THEN Claimed(moved[k], m.window[k])
                                                        ELSE moved[k]]]
                             ELSE [server EXCEPT !.fault = TRUE]
                /\ UNCHANGED down
       [] m.kind = "configured" ->
            /\ server' = [server EXCEPT !.phase = "play", !.index = 0, !.chain = 0,
                                        !.session = None, !.last = None,
                                        !.tracked = FreshValidator]
            /\ down' = Append(down, [kind |-> "login"])
  /\ UNCHANGED chat

-----------------------------------------------------------------------------
Client == \/ \E displayed \in BOOLEAN : PlayerChat(displayed)
          \/ SendChat \/ SignFails \/ Expire \/ BeginConfiguration \/ EnterPlay

Server == ServerReconfigures \/ ServerReceives \/ \E how \in 0..2 : ServerChat(how)

Next == Client \/ Server

Spec == Init /\ [][Next]_vars

-----------------------------------------------------------------------------
(* Properties.                                                             *)

Signatures == 1..MaxMessages

\* Type invariant: the window keeps its capacity, and the counters their ranges.
TypeOK ==
  /\ chat \in [authenticated : Securities,
               sequence : [session : 1..MaxSessions, outgoing : 0..MaxChats,
                           incoming : 0..MaxMessages,
                           entries : [1..Capacity -> Signatures \cup {None}],
                           last : Signatures \cup {None}, offset : 0..MaxMessages],
               expired : BOOLEAN, phase : {"play", "configuration", "failed"},
               chats : 0..MaxChats, lost : BOOLEAN]
  /\ server.tracked \in Seq([signature : Signatures \cup {None}, pending : BOOLEAN])

\* The server never finds fault with an acknowledgement or a signed message: offsets
\* never pass what it sent, each window lines up with its own record, claims are never
\* withdrawn, and the chain has no gap, across dropped and repeated messages,
\* standalone acknowledgements, expiry and reconfiguration.  Two exceptions: a signing
\* error after the count was taken loses that count, and an unsigned session
\* acknowledges a repeated message again.
\* Nor does a server that numbers its messages in order ever make the client give up over
\* a global index, also with messages in flight around a reconfiguration.
ChatAccepted ==
  /\ server.fault => chat.lost \/ (~Authenticated /\ server.repeated)
  /\ chat.phase # "failed"

\* What the server still tracks beyond the window, once both queues are empty, is what
\* the client has yet to report: at most Threshold signed messages.
LagBounded ==
  (down = <<>> /\ up = <<>> /\ Authenticated /\ ~chat.lost) =>
    /\ Len(server.tracked) - Capacity = chat.sequence.offset
    /\ chat.sequence.offset <= Threshold
=============================================================================
