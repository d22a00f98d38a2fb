------------------------------- MODULE Faucet -------------------------------
(***************************************************************************)
(* POST /faucet (server.ts, main.ts): a wallet that its user has proved to *)
(* own is topped up when its balance is low.  The balance is read before   *)
(* an await and the transfer executes after it, so requests for one wallet *)
(* may all find it empty; and a transfer the backend has given up on may   *)
(* still execute.                                                          *)
(***************************************************************************)
EXTENDS WalletVerifier, FiniteSets

CONSTANTS
    MinBalance,  \* FAUCET_MIN_LAMPORTS, in units of one fee
    TopUp,       \* FAUCET_TOPUP_LAMPORTS, in the same units
    MaxLate      \* bound on transfers that were given up on and may execute

ASSUME FaucetConstants ==
    /\ IsFiniteSet(Call)
    /\ MinBalance \in Nat \ {0}
    /\ TopUp \in Nat
    /\ MaxLate \in Nat

VARIABLES
    balance,  \* the lamports of each wallet
    topup,    \* topup[c]: what the faucet does for the request of call c
    late      \* late[a]: transfers to a that may still execute

faucetVars == <<verifierVars, balance, topup, late>>

FaucetInit ==
    /\ VerifierInit
    /\ balance = [a \in Address |-> 0]
    /\ topup = [c \in Call |-> "none"]
    /\ late = [a \in Address |-> 0]

-----------------------------------------------------------------------------

(* The route's verifyWallet said ok: getBalance is asked. *)
AskBalance(c) ==
    /\ call[c].step = "ok"
    /\ topup[c] = "none"
    /\ topup' = [topup EXCEPT ![c] = "looking"]
    /\ UNCHANGED <<verifierVars, balance, late>>

(* "No-ops when already funded"; the mutant tops up whatever it finds. *)
Low_Always(lamports) == lamports \in Nat
Low(lamports) == lamports < MinBalance

Done(c, step) ==
    /\ topup' = [topup EXCEPT ![c] = step]
    /\ call' = IF step = "none" THEN [call EXCEPT ![c] = Idle] ELSE call
    /\ UNCHANGED <<now, linkVars, cache>>

BalanceRead(c) ==
    /\ topup[c] = "looking"
    /\ Done(c, IF Low(balance[call[c].address]) THEN "sending" ELSE "none")
    /\ UNCHANGED <<balance, late>>

TransferConfirmed(c) ==
    /\ topup[c] = "sending"
    /\ balance' = [balance EXCEPT ![call[c].address] = @ + TopUp]
    /\ Done(c, "none")
    /\ UNCHANGED late

(* getBalance or the transfer fails; a transfer may have been sent. *)
TopUpThrows(c) ==
    /\ topup[c] \in {"looking", "sending"}
    /\ late' \in {late} \cup
           {[late EXCEPT ![a] = @ + 1] : a \in {call[c].address}}
    /\ late' # late => topup[c] = "sending" /\ late[call[c].address] < MaxLate
    /\ Done(c, "none")
    /\ UNCHANGED balance

LateTransfer(a) ==
    /\ late[a] > 0
    /\ late' = [late EXCEPT ![a] = @ - 1]
    /\ balance' = [balance EXCEPT ![a] = @ + TopUp]
    /\ UNCHANGED <<verifierVars, topup>>

(* The wallet pays a fee and the rent of an account. *)
Spend(a, fee) ==
    /\ fee \in 1..balance[a]
    /\ balance' = [balance EXCEPT ![a] = @ - fee]
    /\ UNCHANGED <<verifierVars, topup, late>>

(* A request is one call of verifyWallet and what follows it. *)
FaucetNext ==
    \/ /\ VerifierNext
       /\ \A c \in Call : topup[c] # "none" => call'[c] = call[c]
       /\ UNCHANGED <<balance, topup, late>>
    \/ \E c \in Call : AskBalance(c) \/ BalanceRead(c) \/ TransferConfirmed(c) \/ TopUpThrows(c)
    \/ \E a \in Address : LateTransfer(a) \/ \E fee \in 1..balance[a] : Spend(a, fee)

FaucetSpec == FaucetInit /\ [][FaucetNext]_faucetVars

-----------------------------------------------------------------------------

(* The faucet works for calls that were accepted, on one wallet each. *)
FaucetTypeOK ==
    /\ VerifierTypeOK
    /\ balance \in [Address -> Nat]
    /\ topup \in [Call -> {"none", "looking", "sending"}]
    /\ late \in [Address -> 0..MaxLate]
    /\ \A c \in Call : topup[c] # "none" => call[c].step = "ok"

(* The transfers to a wallet that are decided and not executed. *)
Coming(a) == late[a] + Cardinality({c \in Call : topup[c] = "sending" /\ call[c].address = a})

(***************************************************************************)
(* The balance check limits what a wallet gets (server.ts:409): requests   *)
(* that overlap and transfers that come late add at most one top-up each,  *)
(* and nothing accumulates from one request to the next.                   *)
(***************************************************************************)
TopUpsAreBounded ==
    \A a \in Address :
        balance[a] + TopUp * Coming(a) < MinBalance + TopUp * (Cardinality(Call) + MaxLate)
=============================================================================
