------------------------------ MODULE Accounts ------------------------------
(***************************************************************************)
(* The stored accounts and the commands that use them: signing in and out  *)
(* (run_auth), online-login and authenticated chat (cubic-app/src/main.rs),*)
(* over the two authentication backends and the credential store of        *)
(* cubic-auth.  Each command is a process of its own; the records of the   *)
(* credential store are read, written and deleted atomically.  The token   *)
(* service, the browser and the credential store are external.             *)
(***************************************************************************)
EXTENDS Naturals

CONSTANTS
    Commands,       \* processes that may run at the same time
    MaxTokens       \* refresh tokens issued in one behaviour

NoDevice == "no device"

ASSUME AccountsAssumption ==
    /\ MaxTokens \in Nat
    /\ NoDevice \notin Commands

VARIABLES
    keyring,    \* the credential store: an account for each backend, the XAL device
    command,    \* the processes
    service,    \* the issuer of refresh tokens: those alive, whose they are, its policy
    past        \* history, for the properties only

accountVars == <<keyring, command, service, past>>

Backends == {"entra", "xal"}
NoToken == 0
Tokens == 1 .. MaxTokens
\* Whether redeeming a token revokes it, leaves it and issues another, or issues none.
Policies == {"rotates", "adds", "omits"}

\* token is NoToken until a login has its own; it is the stored one in a command that uses
\* an account.
Idle == [pc |-> "idle", login |-> TRUE, backend |-> "entra", token |-> NoToken, device |-> NoDevice]

AccountsInit ==
    /\ keyring = [account |-> [b \in Backends |-> NoToken], device |-> NoDevice]
    /\ command = [c \in Commands |-> Idle]
    /\ \E policy \in Policies :
        service = [policy |-> policy, live |-> {}, issued |-> 0,
                   device |-> [t \in Tokens |-> NoDevice]]
    /\ past = [lost |-> {}, out |-> {}, twins |-> FALSE]

On(c, pc) == command[c].pc = pc
Backend(c) == command[c].backend
Moves(c, pc) == command' = [command EXCEPT ![c].pc = pc]
Ends(c) == command' = [command EXCEPT ![c] = Idle]
\* The command has redeemed the stored token and not stored what it got for it.
Owes(c) == On(c, "chain") /\ ~command[c].login
Lost(c) == IF Owes(c) THEN [past EXCEPT !.lost = @ \cup {Backend(c)}] ELSE past

\* AuthAction::Login starts run_interactive_entra_auth or run_interactive_xal_auth; the
\* others load_account and, for XAL, the device.
StartLogin(c, b) ==
    /\ On(c, "idle")
    /\ command' = [command EXCEPT ![c] =
        [Idle EXCEPT !.pc = IF b = "xal" THEN "device" ELSE "sign in", !.backend = b]]
    /\ past' = [past EXCEPT !.out = @ \ {b}]
    /\ UNCHANGED <<keyring, service>>
\* Without an account, or without the device, the command reports it and is over.
StartWithAccount(c, b) ==
    /\ On(c, "idle") /\ keyring.account[b] # NoToken
    /\ b = "xal" => keyring.device # NoDevice
    /\ command' = [command EXCEPT ![c] =
        [pc |-> "redeem", login |-> FALSE, backend |-> b, token |-> keyring.account[b],
         device |-> IF b = "xal" THEN keyring.device ELSE NoDevice]]
    /\ UNCHANGED <<keyring, service, past>>

\* Mutant: every XAL login brings a new device identity.
AlwaysNew(c) ==
    /\ On(c, "device")
    /\ command' = [command EXCEPT ![c].pc = "new device", ![c].device = c]
    /\ UNCHANGED <<keyring, service, past>>

\* run_interactive_xal_auth: load_xal_device, or else generate.
LoadDevice(c) ==
    /\ On(c, "device")
    /\ IF keyring.device = NoDevice
       THEN /\ command' = [command EXCEPT ![c].pc = "new device", ![c].device = c]
            /\ past' = [past EXCEPT !.twins = @ \/ \E other \in Commands : On(other, "new device")]
       ELSE /\ command' = [command EXCEPT ![c].pc = "sign in", ![c].device = keyring.device]
            /\ UNCHANGED past
    /\ UNCHANGED <<keyring, service>>
\* save_xal_device, which asks nobody whether another process has been faster.
SaveDevice(c) ==
    /\ On(c, "new device")
    /\ keyring' = [keyring EXCEPT !.device = command[c].device]
    /\ Moves(c, "sign in")
    /\ UNCHANGED <<service, past>>

\* The browser comes back with a code, to the one connection LoopbackAuthorization::wait
\* serves or to the sign-in window of XAL.
SignedIn(c) ==
    /\ On(c, "sign in")
    /\ Moves(c, "redeem")
    /\ UNCHANGED <<keyring, service, past>>

\* Mutant: the token that was redeemed is kept although another came for it.
PreviousFirst(rotated, previous) == IF previous # NoToken THEN previous ELSE rotated

\* select_refresh_token, and the same expression in minecraft_chain; a login without either fails.
Selected(rotated, previous) == IF rotated # NoToken THEN rotated ELSE previous

\* What the service answers to a code, which it takes once, or to a token that is alive.
Redeemable(c) == command[c].login \/ command[c].token \in service.live
Reply(c) ==
    IF ~command[c].login /\ service.policy = "omits" THEN NoToken ELSE service.issued + 1
ServiceRedeems(c) ==
    /\ Redeemable(c)
    /\ IF Reply(c) = NoToken THEN UNCHANGED service
       ELSE /\ service.issued < MaxTokens
            /\ service' = [service EXCEPT
                !.issued = @ + 1,
                !.device[service.issued + 1] = command[c].device,
                !.live = (IF service.policy = "rotates" THEN @ \ {command[c].token} ELSE @)
                         \cup {service.issued + 1}]

\* exchange_code, or refresh up to its first answer, with the previous token kept beside.
Redeem(c) ==
    /\ On(c, "redeem") /\ ServiceRedeems(c)
    /\ LET token == Selected(Reply(c), command[c].token)
       IN  command' = [command EXCEPT ![c].token = token, ![c].pc = "chain"]
    /\ UNCHANGED <<keyring, past>>
\* The service acts but its answer does not arrive within request_timeout.
AnswerLost(c) ==
    /\ On(c, "redeem") /\ ServiceRedeems(c)
    /\ past' = IF ~command[c].login
               THEN [past EXCEPT !.lost = @ \cup {Backend(c)}] ELSE past
    /\ Ends(c)
    /\ UNCHANGED keyring

\* The rest of minecraft_chain or finish_xal_chain (the Xbox and Minecraft services, the
\* entitlement, the profile) comes after the token was redeemed and before save_account of
\* complete_online_login, complete_authenticated_chat or the login itself.
Save(c) ==
    /\ On(c, "chain")
    /\ keyring' = [keyring EXCEPT !.account[Backend(c)] = command[c].token]
    /\ past' = [past EXCEPT !.lost = @ \ {Backend(c)}]
    /\ IF command[c].login THEN Ends(c) ELSE Moves(c, "session")
    /\ UNCHANGED service

\* Whatever stops a command where it is: a refused request, a closed window, a callback of
\* another state, a deadline, a credential store that is not available, a certificate that
\* is not granted, the end of the session, a crash.
Stop(c) ==
    /\ ~On(c, "idle")
    /\ past' = Lost(c)
    /\ Ends(c)
    /\ UNCHANGED <<keyring, service>>

\* AuthAction::Logout: delete_account; the device stays.
Logout(b) ==
    /\ keyring' = [keyring EXCEPT !.account[b] = NoToken]
    /\ past' = [past EXCEPT
        !.out = IF \E c \in Commands : ~On(c, "idle") /\ Backend(c) = b THEN @ ELSE @ \cup {b},
        !.lost = @ \ {b}]
    /\ UNCHANGED <<command, service>>

AccountsNext ==
    \/ \E c \in Commands :
        \/ \E b \in Backends :
            StartLogin(c, b) \/ StartWithAccount(c, b)
        \/ LoadDevice(c) \/ SaveDevice(c) \/ SignedIn(c) \/ Redeem(c) \/ AnswerLost(c) \/ Save(c) \/ Stop(c)
    \/ \E b \in Backends : Logout(b)

(***************************************************************************)
(* Properties.                                                             *)
(***************************************************************************)
AccountsTypeOK ==
    /\ keyring.account \in [Backends -> Tokens \cup {NoToken}]
    /\ keyring.device \in Commands \cup {NoDevice}
    /\ service.live \subseteq Tokens
    /\ \A c \in Commands : command[c].backend \in Backends /\ command[c].token \in Tokens \cup {NoToken}

\* However the commands of several processes overlap and wherever one stops: the stored
\* token can still be redeemed, unless a command that redeemed it stopped before it could
\* store the new one, or is about to; an account that was removed while no command was
\* using it stays removed until a login; and the XAL account goes with the stored device,
\* unless two first logins ran at once.
AccountsSound ==
    /\ \A b \in Backends :
        LET stored == keyring.account[b]
        IN  /\ stored \in service.live \cup {NoToken} \/ b \in past.lost
               \/ \E c \in Commands : Owes(c) /\ Backend(c) = b
            /\ b \in past.out => stored = NoToken
            /\ b = "xal" /\ stored # NoToken /\ ~past.twins
               => service.device[stored] = keyring.device
=============================================================================
