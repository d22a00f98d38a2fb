----------------------------- MODULE GatedPools -----------------------------
(***************************************************************************)
(* What a pool promises the people in and around it, with no mention of    *)
(* rows, codes, e-mails, requests in progress or answers that come late.   *)
(* Whoever enters an open pool is inside at once; into a gated pool one    *)
(* has to ask and be accepted; who is inside stays inside; and whether a   *)
(* pool is open or gated is settled when it is created.                    *)
(*                                                                         *)
(* Roster implements this specification (RefinesGatedPools).               *)
(***************************************************************************)

CONSTANTS Pool, Person

VARIABLES
    rule,     \* rule[p]: "none" before p is created, then "open" or "gated"
    standing  \* standing[p][w]: w is "outside", "waiting" or "inside"

Init ==
    /\ rule = [p \in Pool |-> "none"]
    /\ standing = [p \in Pool |-> [w \in Person |-> "outside"]]

Create(p, r) ==
    /\ rule[p] = "none"
    /\ rule' = [rule EXCEPT ![p] = r]
    /\ UNCHANGED standing

Moves(p, w, from, to) ==
    /\ standing[p][w] = from
    /\ standing' = [standing EXCEPT ![p] = [standing[p] EXCEPT ![w] = to]]
    /\ UNCHANGED rule

Enter(p, w) == rule[p] = "open" /\ Moves(p, w, "outside", "inside")
Ask(p, w) == rule[p] = "gated" /\ Moves(p, w, "outside", "waiting")
Accept(p, w) == Moves(p, w, "waiting", "inside")
Decline(p, w) == Moves(p, w, "waiting", "outside")

Next ==
    \E p \in Pool :
        \/ \E r \in {"open", "gated"} : Create(p, r)
        \/ \E w \in Person : Enter(p, w) \/ Ask(p, w) \/ Accept(p, w) \/ Decline(p, w)

Spec == Init /\ [][Next]_<<rule, standing>>
=============================================================================
