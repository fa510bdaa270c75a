------------------------------ MODULE MCLaunch ------------------------------
(***************************************************************************)
(* Model-checking instance of what comes before a session: filling the     *)
(* content cache, using a stored account, reaching Play.  A command line   *)
(* runs them one after the other and none reads what another keeps, so a   *)
(* behaviour follows one of them while the other two rest.                 *)
(***************************************************************************)
EXTENDS Login, ContentCache, Accounts

VARIABLE part

launchVars == <<part, vars, cacheVars, accountVars>>

\* A login that is over, a program that has its content, accounts nobody uses.
LoginRests == Init /\ client.kind = "status"
CacheRests ==
    /\ disk = [f \in Files |-> Good] /\ parts = {}
    /\ program = [p \in Programs |-> [Off EXCEPT !.pc = "ready", !.got = Good]]
    /\ machine = [published |-> FALSE, crashes |-> 0, spoils |-> 0, spoiled |-> {}]
AccountsRest == AccountsInit /\ service.policy = "rotates"

LaunchInit ==
    \/ part = "content" /\ CacheInit /\ LoginRests /\ AccountsRest
    \/ part = "accounts" /\ AccountsInit /\ LoginRests /\ CacheRests
    \/ part = "login" /\ Init /\ CacheRests /\ AccountsRest

LaunchNext ==
    \/ part = "content" /\ CacheNext /\ UNCHANGED <<part, vars, accountVars>>
    \/ part = "accounts" /\ AccountsNext /\ UNCHANGED <<part, vars, cacheVars>>
    \/ part = "login" /\ Next /\ UNCHANGED <<part, cacheVars, accountVars>>

LaunchSpec ==
    /\ LaunchInit /\ [][LaunchNext]_launchVars
    /\ WF_vars(part = "login" /\ ServerRead /\ UNCHANGED <<part, cacheVars, accountVars>>)
    /\ WF_vars(part = "login" /\ ClientStep /\ UNCHANGED <<part, cacheVars, accountVars>>)
    /\ SF_vars(part = "login" /\ ReadSome /\ UNCHANGED <<part, cacheVars, accountVars>>)

LaunchTypeOK == TypeOK /\ CacheTypeOK /\ AccountsTypeOK
=============================================================================
