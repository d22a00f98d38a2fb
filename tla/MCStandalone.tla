---------------------------- MODULE MCStandalone ----------------------------
(***************************************************************************)
(* Four components that share no variable: the program on a small chain,   *)
(* the TxLINE client, the wallet verifier with the faucet, and the roster, *)
(* asked by whatever client.  A behaviour is one of them running while the *)
(* others stay as they began, so the state space is the sum of theirs.     *)
(*                                                                         *)
(* The chain: two participants, one pool, two fixtures, scorelines of 0 and*)
(* 1 goals under one salt, and one commitment no scoreline opens.          *)
(***************************************************************************)
EXTENDS AcertanaProgram, TxlineClient, Faucet

CONSTANTS RosterPool, Code, Email, NoEmail, NoRow, Response

VARIABLES
    running,      \* the component this behaviour is about
    poolTable,    \* the roster's tables of pools and members
    memberTable,
    response,
    approved

roster == INSTANCE Roster WITH
    PoolId <- RosterPool, pools <- poolTable, members <- memberTable

(* What Roster assumes of its constants, of this roster. *)
ASSUME StandaloneConstants == roster!RosterConstants

rosterVars == <<poolTable, memberTable, response, approved>>

MCKeccak == [p \in Goals \X Goals \X Salt |-> <<"keccak", p>>]
MCDigest == {MCKeccak[p] : p \in Goals \X Goals \X Salt} \cup {<<"garbage">>}

\* Names at both sides of POOL_NAME_MAX_LEN.
MCNameLen == {32, 33}

\* A kickoff the program rejects, and two it accepts.
MCKickoffTs == {0, 1, 2}

MCInit ==
    /\ ChainInit /\ TxlineInit /\ FaucetInit /\ roster!RosterInit
    /\ running \in {"program", "client", "faucet", "roster"}
    /\ running # "faucet" => linked = [u \in User |-> {}]

MCNext ==
    \/ /\ running = "program" /\ ChainNext
       /\ UNCHANGED <<txlineVars, faucetVars, rosterVars, running>>
    \/ /\ running = "client" /\ TxlineNext
       /\ UNCHANGED <<chainVars, faucetVars, rosterVars, running>>
    \/ /\ running = "faucet" /\ FaucetNext
       /\ UNCHANGED <<chainVars, txlineVars, rosterVars, running>>
    \/ /\ running = "roster" /\ roster!RosterNext
       /\ UNCHANGED <<chainVars, txlineVars, faucetVars, running>>

(* TxlineFairness, in the behaviours in which the client runs. *)
MCFairness ==
    /\ WF_txlineVars(running = "client" /\ Loop)
    /\ WF_txlineVars(running = "client" /\ Renew)
    /\ SF_txlineVars(running = "client" /\ StreamIssued)
    /\ SF_txlineVars(running = "client" /\ Accepted)
    /\ SF_txlineVars(running = "client" /\ Refused)
    /\ SF_txlineVars(running = "client" /\ Deliver)

MCSpec ==
    /\ MCInit
    /\ [][MCNext]_<<chainVars, txlineVars, faucetVars, rosterVars, running>>
    /\ MCFairness

(* The type invariants of the four. *)
StandaloneTypeOK == ChainTypeOK /\ TxlineTypeOK /\ FaucetTypeOK /\ roster!RosterTypeOK

(* The handlers of the roster implement GatedPools (see Roster). *)
RefinesGatedPools == roster!RefinesGatedPools
=============================================================================
