--------------------------- MODULE MCLeaderboard ---------------------------
(***************************************************************************)
(* One pool, three wallets (each may be the organizer), one match that     *)
(* ends 0-0 or 1-0, and picks worth 0, 3 and 5 points: two wallets can     *)
(* share a place above the third.  Once the third takes part the organizer *)
(* answers nobody, which bounds the state space: an open pool then has     *)
(* members and a gated one requests.  With two wallets there is no bound.  *)
(***************************************************************************)
EXTENDS Leaderboard

MCScoreline == {<<0, 0>>, <<1, 0>>}
MCPick == {<<1, 0>>, <<2, 1>>}
MCNilNil == <<0, 0>>
MCWalletOrder ==
    CHOOSE order \in [Wallet -> 1..Cardinality(Wallet)] :
        \A v, w \in Wallet : order[v] = order[w] => v = w

Third == CHOOSE w \in Wallet : \A v \in Wallet : WalletOrder[v] <= WalletOrder[w]

(* The list of members is asked for by nobody in particular. *)
Caller(r) == IF "caller" \in DOMAIN request[r] THEN request[r].caller ELSE "nobody"

ThirdTakesPart ==
    \/ \E p \in PoolId : HasRow(p, Third) \/ (Registered(p) /\ pools[p].organizer = Third)
    \/ \E e \in shown : e.wallet = Third
    \/ \E r \in Request : Caller(r) = Third

NobodyAnswers == approved = {} /\ \A r \in Response : ~response[r].active

MCNext == Next /\ (ThirdTakesPart' => NobodyAnswers')

MCSpec == Init /\ [][MCNext]_vars
=============================================================================
