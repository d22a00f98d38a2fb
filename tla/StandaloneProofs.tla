-------------------------- MODULE StandaloneProofs --------------------------
(***************************************************************************)
(* Proofs about the components that share no variable (MCStandalone).      *)
(* First the feed client: what it guarantees for any number of overlapping *)
(* GETs, any feed and any number of expired tokens and lapsed              *)
(* subscriptions.  Then the wallet verifier and the faucet, for any number *)
(* of users, wallets and overlapping requests, and any length of the       *)
(* cache's minute and of a call to Privy.  Last, the four side by side.    *)
(***************************************************************************)
EXTENDS MCStandalone, AcertanaProgramProofs, FiniteSetTheorems

-----------------------------------------------------------------------------
(* The feed client (TxlineClient).                                           *)

(* The loop asks for the message after the last one it was given, and holds *)
(* nothing newer than that one.                                            *)
StreamIsResumed ==
    /\ stream.step = "open" =>
          /\ stream.position >= 1
          /\ lastEventId > 0 => stream.position = lastEventId + 1
    /\ \A i \in 1..Len(consumed) : consumed[i] \in 1..lastEventId

(* While nothing expires or lapses, the second attempt has a good token. *)
CallIsSound(q) ==
    /\ q.step = "fetching" => q.tries \in {1, 2}
    /\ q.step \in {"renewing", "issued"} => q.tries \in {0, 1}
    /\ q.calm =>
          /\ subscribed
          /\ q.step = "issued" => q.token = "good"
          /\ q.step = "fetching" /\ q.tries = 2 => q.token = "good"
          /\ q.step # "unauthorized"

CallsAreSound == \A g \in Get : CallIsSound(get[g])

TxlineInv ==
    /\ TxlineTypeOK
    /\ StreamIsResumed
    /\ NoGapNoRepeat
    /\ CallsAreSound

-----------------------------------------------------------------------------

LEMMA InitTxlineInv == TxlineInit => TxlineInv
<1> SUFFICES ASSUME TxlineInit PROVE TxlineInv
  OBVIOUS
<1>1. TxlineTypeOK
  BY TxlineConstants DEF TxlineInit, TxlineTypeOK, GetState, StreamState, Token
<1>2. StreamIsResumed /\ NoGapNoRepeat
  BY DEF TxlineInit, StreamIsResumed, NoGapNoRepeat
<1>3. CallsAreSound
  BY DEF TxlineInit, CallsAreSound, CallIsSound
<1> QED
  BY <1>1, <1>2, <1>3 DEF TxlineInv

(* Steps that deliver nothing and leave the loop's position alone or drop   *)
(* the connection.                                                         *)
LEMMA StreamStays ==
    ASSUME TxlineInv, stream' \in StreamState, UNCHANGED <<lastEventId, consumed>>,
           stream'.step = "open" =>
               stream.step = "open" /\ stream'.position = stream.position,
           TxlineTypeOK', CallsAreSound'
    PROVE  TxlineInv'
BY DEF TxlineInv, StreamIsResumed, NoGapNoRepeat

(* What one step makes of one GET. *)
LEMMA GetMoves ==
    ASSUME TxlineInv, NEW g \in Get, NEW q \in GetState, get' = [get EXCEPT ![g] = q],
           jwt' \in Token, CallIsSound(q),
           UNCHANGED <<stream, lastEventId, backoff, consumed, feed, subscribed, faults>>
    PROVE  TxlineInv'
<1>1. get' \in [Get -> GetState]
  BY DEF TxlineInv, TxlineTypeOK
<1>2. TxlineTypeOK'
  BY <1>1 DEF TxlineInv, TxlineTypeOK
<1>3. \A r \in Get : get'[r] = q \/ get'[r] = get[r]
  BY DEF TxlineInv, TxlineTypeOK
<1>4. CallsAreSound'
  BY <1>3 DEF TxlineInv, CallsAreSound, CallIsSound
<1>5. StreamIsResumed' /\ NoGapNoRepeat'
  BY DEF TxlineInv, StreamIsResumed, NoGapNoRepeat
<1> QED
  BY <1>2, <1>4, <1>5 DEF TxlineInv

LEMMA GetStepIs ==
    ASSUME TxlineInv, NEW g \in Get, NEW step, NEW token, NEW tries, GetStep(g, step, token, tries),
           step \in {"idle", "renewing", "issued", "fetching", "ok", "unauthorized", "failed"},
           token \in Token, tries \in 0..2
    PROVE  \E q \in GetState :
              /\ get' = [get EXCEPT ![g] = q]
              /\ q.step = step /\ q.token = token /\ q.tries = tries /\ q.calm = get[g].calm
<1>1. get \in [Get -> GetState] /\ get[g] \in GetState
  BY DEF TxlineInv, TxlineTypeOK
<1> DEFINE q == [get[g] EXCEPT !.step = step, !.token = token, !.tries = tries]
<1>2. get' = [get EXCEPT ![g] = q]
  BY <1>1 DEF GetStep
<1>3. q \in GetState
  BY <1>1 DEF GetState
<1>4. q.step = step /\ q.token = token /\ q.tries = tries /\ q.calm = get[g].calm
  BY <1>1 DEF GetState
<1> HIDE DEF q
<1> QED
  BY <1>2, <1>3, <1>4

LEMMA StartGetInv ==
    ASSUME TxlineInv, NEW g \in Get, StartGet(g)
    PROVE  TxlineInv'
<1>1. jwt \in Token /\ subscribed \in BOOLEAN
  BY DEF TxlineInv, TxlineTypeOK
<1> DEFINE q == [step |-> IF jwt = "none" THEN "renewing" ELSE "fetching",
                 token |-> jwt, tries |-> IF jwt = "none" THEN 0 ELSE 1, calm |-> subscribed]
<1>2. q \in GetState
  BY <1>1 DEF GetState
<1>3. CallIsSound(q)
  BY <1>1 DEF CallIsSound
<1>4. get' = [get EXCEPT ![g] = q]
  BY DEF StartGet
<1>5. UNCHANGED <<jwt, stream, lastEventId, backoff, consumed, feed, subscribed, faults>>
  BY DEF StartGet
<1> HIDE DEF q
<1> QED
  BY <1>1, <1>2, <1>3, <1>4, <1>5, GetMoves

LEMMA GetIssuedInv ==
    ASSUME TxlineInv, NEW g \in Get, GetIssued(g)
    PROVE  TxlineInv'
<1>1. /\ get[g] \in GetState /\ get[g].step = "renewing" /\ CallIsSound(get[g])
      /\ jwt \in Token
  BY DEF GetIssued, TxlineInv, TxlineTypeOK, CallsAreSound
<1>2. PICK tries \in 0..2 : tries = get[g].tries
  BY <1>1 DEF GetState
<1>3. GetStep(g, "issued", "good", tries)
  BY <1>2 DEF GetIssued
<1>4. PICK q \in GetState :
          /\ get' = [get EXCEPT ![g] = q]
          /\ q.step = "issued" /\ q.token = "good" /\ q.tries = tries /\ q.calm = get[g].calm
  BY <1>3, GetStepIs DEF Token
<1>5. CallIsSound(q)
  BY <1>1, <1>2, <1>4 DEF CallIsSound
<1> QED
  BY <1>1, <1>4, <1>5, GetMoves DEF GetIssued

LEMMA GetRenewedInv ==
    ASSUME TxlineInv, NEW g \in Get, GetRenewed(g)
    PROVE  TxlineInv'
<1>1. get[g] \in GetState /\ get[g].step = "issued" /\ CallIsSound(get[g])
  BY DEF GetRenewed, TxlineInv, TxlineTypeOK, CallsAreSound
<1>2. PICK tries \in 0..1 : tries = get[g].tries
  BY <1>1 DEF GetState, CallIsSound
<1>3. PICK token \in Token : token = get[g].token
  BY <1>1 DEF GetState
<1>4. GetStep(g, "fetching", token, tries + 1) /\ jwt' = token
  BY <1>2, <1>3 DEF GetRenewed
<1>5. PICK q \in GetState :
          /\ get' = [get EXCEPT ![g] = q]
          /\ q.step = "fetching" /\ q.token = token /\ q.tries = tries + 1
          /\ q.calm = get[g].calm
  BY <1>4, GetStepIs
<1>6. CallIsSound(q)
  BY <1>1, <1>2, <1>3, <1>5 DEF CallIsSound
<1> QED
  BY <1>4, <1>5, <1>6, GetMoves DEF GetRenewed

(* A first 401 leads to a renewal; a second one can only come when the      *)
(* fresh token expired or the subscription lapsed.                         *)
LEMMA GetAnsweredInv ==
    ASSUME TxlineInv, NEW g \in Get, GetAnswered(g)
    PROVE  TxlineInv'
<1>1. /\ get[g] \in GetState /\ get[g].step = "fetching" /\ CallIsSound(get[g])
      /\ jwt \in Token
  BY DEF GetAnswered, TxlineInv, TxlineTypeOK, CallsAreSound
<1>2. PICK tries \in {1, 2} : tries = get[g].tries
  BY <1>1 DEF CallIsSound
<1>3. PICK token \in Token : token = get[g].token
  BY <1>1 DEF GetState
<1>4. PICK step : step = IF Accepts(token) THEN "ok" ELSE AfterRefusal(tries)
  OBVIOUS
<1>5. /\ step \in {"ok", "renewing", "unauthorized"}
      /\ step = "renewing" => tries = 1
      /\ step = "unauthorized" => tries = 2 /\ ~Accepts(token)
  BY <1>2, <1>4 DEF AfterRefusal
<1>6. GetStep(g, step, token, tries)
  BY <1>2, <1>3, <1>4 DEF GetAnswered
<1>7. PICK q \in GetState :
          /\ get' = [get EXCEPT ![g] = q]
          /\ q.step = step /\ q.token = token /\ q.tries = tries /\ q.calm = get[g].calm
  BY <1>5, <1>6, GetStepIs
<1>8. step = "unauthorized" => ~get[g].calm
  BY <1>1, <1>2, <1>3, <1>5 DEF CallIsSound, Accepts
<1>9. get[g].calm => subscribed
  BY <1>1 DEF CallIsSound
<1>10. CallIsSound(q)
  BY <1>2, <1>5, <1>7, <1>8, <1>9 DEF CallIsSound
<1> QED
  BY <1>1, <1>7, <1>10, GetMoves DEF GetAnswered

LEMMA GetFailsInv ==
    ASSUME TxlineInv, NEW g \in Get, GetFails(g)
    PROVE  TxlineInv'
<1>1. jwt \in Token /\ CallIsSound(get[g])
  BY DEF TxlineInv, TxlineTypeOK, CallsAreSound
<1>2. GetStep(g, "failed", "none", 0)
  BY DEF GetFails
<1>3. PICK q \in GetState :
          /\ get' = [get EXCEPT ![g] = q]
          /\ q.step = "failed" /\ q.token = "none" /\ q.tries = 0 /\ q.calm = get[g].calm
  BY <1>2, GetStepIs DEF Token
<1>4. CallIsSound(q)
  BY <1>1, <1>3 DEF CallIsSound
<1> QED
  BY <1>1, <1>3, <1>4, GetMoves DEF GetFails

-----------------------------------------------------------------------------

(* Waits stay between the first one and the cap. *)
LEMMA Doubling == \A wait \in 1..BackoffCap : Doubled(wait) \in 1..BackoffCap
BY TxlineConstants DEF Doubled

(* Every step of the loop that neither connects nor delivers. *)
LEMMA LoopInv ==
    ASSUME TxlineInv,
           \/ Connect \/ StreamIssued \/ StreamRenewed \/ Refused
           \/ StreamEnds \/ StreamFails \/ WaitOver
    PROVE  TxlineInv'
<1>1. /\ stream \in StreamState /\ jwt \in Token /\ backoff \in 1..BackoffCap
      /\ feed \in Nat /\ lastEventId \in 0..feed
  BY TxlineConstants DEF TxlineInv, TxlineTypeOK
<1>2. /\ UNCHANGED <<get, lastEventId, consumed, feed, subscribed, faults>>
      /\ stream' \in StreamState /\ stream'.step # "open" /\ stream'.position = 0
      /\ jwt' \in Token
  <2>1. CASE Connect
    BY <1>1, <2>1 DEF Connect, StreamStep, StreamState
  <2>2. CASE StreamIssued
    BY <1>1, <2>2 DEF StreamIssued, StreamStep, StreamState, Token
  <2>3. CASE StreamRenewed
    BY <1>1, <2>3 DEF StreamRenewed, StreamStep, StreamState
  <2>4. CASE Refused
    BY <1>1, <2>4 DEF Refused, AfterStreamRefusal, StreamStep, StreamState
  <2>5. CASE StreamEnds \/ StreamFails \/ WaitOver
    BY <1>1, <2>5 DEF StreamEnds, StreamFails, WaitOver, StreamStep, StreamState, Token
  <2> QED
    BY <2>1, <2>2, <2>3, <2>4, <2>5
<1>3. backoff' \in 1..BackoffCap
  BY <1>1, Doubling
     DEF Connect, StreamIssued, StreamRenewed, Refused, StreamEnds, StreamFails, WaitOver
<1>4. TxlineTypeOK'
  BY <1>1, <1>2, <1>3 DEF TxlineInv, TxlineTypeOK
<1>5. CallsAreSound'
  BY <1>2 DEF TxlineInv, CallsAreSound, CallIsSound
<1> QED
  BY <1>2, <1>4, <1>5, StreamStays

(* The connection resumes after the last message it was given. *)
LEMMA AcceptedInv ==
    ASSUME TxlineInv, Accepted
    PROVE  TxlineInv'
<1>1. /\ stream \in StreamState /\ feed \in Nat /\ lastEventId \in 0..feed
  BY TxlineConstants DEF TxlineInv, TxlineTypeOK
<1>2. /\ ResumeAt \in 1..(feed + 1)
      /\ lastEventId > 0 => ResumeAt = lastEventId + 1
  BY <1>1 DEF ResumeAt
<1>3. /\ stream' \in StreamState /\ stream'.position = ResumeAt
      /\ UNCHANGED <<jwt, get, lastEventId, consumed, feed, subscribed, faults>>
      /\ backoff' = 1
  BY <1>1, <1>2 DEF Accepted, StreamStep, StreamState
<1>4. TxlineTypeOK'
  BY <1>1, <1>2, <1>3, TxlineConstants DEF TxlineInv, TxlineTypeOK
<1>5. CallsAreSound'
  BY <1>3 DEF TxlineInv, CallsAreSound, CallIsSound
<1>6. StreamIsResumed' /\ NoGapNoRepeat'
  BY <1>1, <1>2, <1>3 DEF TxlineInv, StreamIsResumed, NoGapNoRepeat
<1> QED
  BY <1>4, <1>5, <1>6 DEF TxlineInv

LEMMA DeliverInv ==
    ASSUME TxlineInv, Deliver
    PROVE  TxlineInv'
<1>1. /\ stream \in StreamState /\ feed \in Nat /\ lastEventId \in 0..feed
      /\ consumed \in Seq(ScoreUpdate)
  BY TxlineConstants DEF TxlineInv, TxlineTypeOK
<1>2. PICK id \in 1..feed : id = stream.position
  BY <1>1 DEF Deliver, TxlineInv, StreamIsResumed, StreamState
<1>3. /\ lastEventId > 0 => id = lastEventId + 1
      /\ lastEventId' = id
      /\ consumed' = IF id \in ScoreUpdate THEN Append(consumed, id) ELSE consumed
      /\ UNCHANGED <<jwt, get, backoff, feed, subscribed, faults>>
  BY <1>2 DEF Deliver, TxlineInv, StreamIsResumed
<1>4. /\ stream' \in StreamState /\ stream'.position = id + 1
  BY <1>1, <1>2 DEF Deliver, StreamStep, StreamState
<1>5. consumed' \in Seq(ScoreUpdate)
  BY <1>1, <1>3
<1>6. TxlineTypeOK'
  BY <1>1, <1>2, <1>3, <1>4, <1>5 DEF TxlineInv, TxlineTypeOK
<1>7. CallsAreSound'
  BY <1>3 DEF TxlineInv, CallsAreSound, CallIsSound
<1>8. \A i \in 1..Len(consumed) : consumed[i] \in 1..lastEventId
  BY DEF TxlineInv, StreamIsResumed
<1>9. lastEventId < id
  BY <1>1, <1>3
<1>10. CASE id \notin ScoreUpdate
  <2>1. consumed' = consumed
    BY <1>3, <1>10
  <2>2. StreamIsResumed'
    BY <1>1, <1>2, <1>3, <1>4, <1>8, <1>9, <2>1 DEF StreamIsResumed
  <2>3. ASSUME NEW n \in ScoreUpdate, consumed # << >>, consumed[1] <= n, n <= id
        PROVE  \E i \in 1..Len(consumed) : consumed[i] = n
    <3>1. consumed[1] \in 1..lastEventId
      BY <1>1, <1>8, <2>3
    <3>2. id = lastEventId + 1 /\ n # id
      BY <1>1, <1>3, <1>10, <3>1
    <3>3. n <= lastEventId
      BY <1>1, <2>3, <3>2, TxlineConstants
    <3> QED
      BY <2>3, <3>3 DEF TxlineInv, NoGapNoRepeat
  <2>4. NoGapNoRepeat'
    BY <1>3, <2>1, <2>3 DEF TxlineInv, NoGapNoRepeat
  <2> QED
    BY <1>6, <1>7, <2>2, <2>4 DEF TxlineInv
<1>11. CASE id \in ScoreUpdate
  <2>1. /\ consumed' = Append(consumed, id)
        /\ Len(consumed') = Len(consumed) + 1 /\ consumed'[Len(consumed) + 1] = id
        /\ \A i \in 1..Len(consumed) : consumed'[i] = consumed[i]
        /\ Len(consumed) \in Nat
    BY <1>1, <1>3, <1>11
  <2>2. \A i \in 1..Len(consumed') : i \in 1..Len(consumed) \/ i = Len(consumed) + 1
    BY <2>1
  <2>3. \A i \in 1..Len(consumed') : consumed'[i] \in 1..id
    BY <1>1, <1>2, <1>8, <1>9, <2>1, <2>2
  <2>4. StreamIsResumed'
    BY <1>2, <1>3, <1>4, <2>3 DEF StreamIsResumed
  <2>5. \A i \in 1..Len(consumed') : i > 1 => consumed'[i - 1] < consumed'[i]
    <3>1. \A i \in 1..Len(consumed) : i > 1 => consumed[i - 1] < consumed[i]
      BY DEF TxlineInv, NoGapNoRepeat
    <3>2. ASSUME NEW i \in 1..Len(consumed'), i > 1 PROVE consumed'[i - 1] < consumed'[i]
      <4>1. CASE i \in 1..Len(consumed)
        BY <2>1, <3>1, <3>2, <4>1
      <4>2. CASE i = Len(consumed) + 1
        <5>1. Len(consumed) \in 1..Len(consumed)
          BY <2>1, <3>2, <4>2
        <5>2. consumed'[i - 1] \in 1..lastEventId
          BY <1>8, <2>1, <4>2, <5>1
        <5>3. consumed'[i] = id
          BY <2>1, <4>2
        <5>4. \A n \in 1..lastEventId : n < id
          BY <1>1, <1>2, <1>9
        <5> QED
          BY <5>2, <5>3, <5>4
      <4> QED
        BY <2>2, <4>1, <4>2
    <3> QED
      BY <3>2
  <2>6. ASSUME NEW n \in ScoreUpdate, consumed'[1] <= n, n <= id
        PROVE  \E i \in 1..Len(consumed') : consumed'[i] = n
    <3>1. CASE n = id
      <4>1. Len(consumed) + 1 \in 1..Len(consumed')
        BY <2>1
      <4> QED
        BY <2>1, <3>1, <4>1
    <3>2. CASE n # id
      <4>1. consumed # << >>
        <5>1. SUFFICES ASSUME consumed = << >> PROVE FALSE
          OBVIOUS
        <5>2. consumed'[1] = id
          BY <1>1, <2>1, <5>1
        <5> QED
          BY <1>2, <2>6, <3>2, <5>2, TxlineConstants
      <4>2. 1 \in 1..Len(consumed) /\ consumed'[1] = consumed[1] /\ consumed[1] \in 1..lastEventId
        BY <1>1, <1>8, <2>1, <4>1
      <4>3. id = lastEventId + 1
        BY <1>1, <1>3, <4>2
      <4>4. n <= lastEventId
        BY <1>1, <2>6, <3>2, <4>3, TxlineConstants
      <4>5. PICK i \in 1..Len(consumed) : consumed[i] = n
        BY <2>6, <4>1, <4>2, <4>4 DEF TxlineInv, NoGapNoRepeat
      <4>6. i \in 1..Len(consumed') /\ consumed'[i] = n
        BY <2>1, <4>5
      <4> QED
        BY <4>6
    <3> QED
      BY <3>1, <3>2
  <2>7. NoGapNoRepeat'
    BY <1>3, <2>5, <2>6 DEF NoGapNoRepeat
  <2> QED
    BY <1>6, <1>7, <2>4, <2>7 DEF TxlineInv
<1> QED
  BY <1>10, <1>11

-----------------------------------------------------------------------------

LEMMA PublishInv ==
    ASSUME TxlineInv, Publish
    PROVE  TxlineInv'
<1>1. TxlineTypeOK'
  BY TxlineConstants DEF TxlineInv, TxlineTypeOK, Publish, StreamState
<1>2. CallsAreSound'
  BY DEF TxlineInv, CallsAreSound, CallIsSound, Publish
<1> QED
  BY <1>1, <1>2, StreamStays DEF Publish, TxlineInv, TxlineTypeOK

(* An expired token or a lapsed subscription ends the calm of every call. *)
LEMMA FaultInv ==
    ASSUME TxlineInv, Expire \/ Lapse
    PROVE  TxlineInv'
<1>1. get \in [Get -> GetState] /\ stream \in StreamState /\ jwt \in Token
  BY DEF TxlineInv, TxlineTypeOK
<1>2. \A token \in Token : Aged(token) \in Token
  BY DEF Aged, Token
<1>3. ASSUME NEW g \in Get
      PROVE  /\ get'[g] \in GetState /\ ~get'[g].calm
             /\ get'[g].step = get[g].step /\ get'[g].tries = get[g].tries
  <2>1. get[g] \in GetState
    BY <1>1
  <2>2. CASE Expire
    <3>1. get'[g] = [get[g] EXCEPT !.token = Aged(get[g].token), !.calm = FALSE]
      BY <2>2 DEF Expire
    <3> QED
      BY <1>2, <2>1, <3>1 DEF GetState
  <2>3. CASE Lapse
    <3>1. get'[g] = [get[g] EXCEPT !.calm = FALSE]
      BY <2>3 DEF Lapse
    <3> QED
      BY <2>1, <3>1 DEF GetState
  <2> QED
    BY <2>2, <2>3
<1>4. get' \in [Get -> GetState]
  <2>1. get' = [g \in Get |-> get'[g]]
    BY Zenon DEF Expire, Lapse
  <2> QED
    BY <1>3, <2>1
<1>5. /\ stream' \in StreamState
      /\ stream'.step = stream.step /\ stream'.position = stream.position
  BY <1>1, <1>2 DEF Expire, Lapse, StreamState
<1>6. jwt' \in Token /\ subscribed' \in BOOLEAN
  BY <1>1, <1>2 DEF Expire, Lapse, TxlineInv, TxlineTypeOK
<1>7. UNCHANGED <<lastEventId, backoff, consumed, feed>> /\ faults' \in 0..MaxFaults
  <2>1. faults \in 0..MaxFaults /\ MaxFaults \in Nat
    BY TxlineConstants DEF TxlineInv, TxlineTypeOK
  <2>2. faults < MaxFaults /\ faults' = faults + 1
    BY DEF Expire, Lapse
  <2>3. faults' \in 0..MaxFaults
    BY <2>1, <2>2
  <2>4. UNCHANGED <<lastEventId, backoff, consumed, feed>>
    BY Zenon DEF Expire, Lapse
  <2> QED
    BY <2>3, <2>4
<1>8. TxlineTypeOK'
  BY <1>4, <1>5, <1>6, <1>7 DEF TxlineInv, TxlineTypeOK
<1>9. CallsAreSound'
  BY <1>3 DEF TxlineInv, CallsAreSound, CallIsSound
<1> QED
  BY <1>5, <1>7, <1>8, <1>9, StreamStays

LEMMA RenewInv ==
    ASSUME TxlineInv, Renew
    PROVE  TxlineInv'
<1>1. TxlineTypeOK'
  BY DEF TxlineInv, TxlineTypeOK, Renew
<1>2. CallsAreSound'
  BY DEF TxlineInv, CallsAreSound, CallIsSound, Renew
<1> QED
  BY <1>1, <1>2, StreamStays DEF Renew, TxlineInv, TxlineTypeOK

LEMMA TxlineNextInv == TxlineInv /\ [TxlineNext]_txlineVars => TxlineInv'
<1> SUFFICES ASSUME TxlineInv, [TxlineNext]_txlineVars PROVE TxlineInv'
  OBVIOUS
<1>1. ASSUME NEW g \in Get, GetNext(g) PROVE TxlineInv'
  BY <1>1, StartGetInv, GetIssuedInv, GetRenewedInv, GetAnsweredInv, GetFailsInv DEF GetNext
<1>2. CASE Loop \/ StreamIssued \/ Refused \/ StreamEnds \/ StreamFails
  BY <1>2, LoopInv DEF Loop
<1>3. CASE Accepted \/ Deliver
  BY <1>3, AcceptedInv, DeliverInv
<1>4. CASE Publish \/ Expire \/ Lapse \/ Renew
  BY <1>4, PublishInv, FaultInv, RenewInv
<1>5. CASE UNCHANGED txlineVars
  BY <1>5 DEF txlineVars, TxlineInv, TxlineTypeOK, StreamIsResumed, NoGapNoRepeat,
              CallsAreSound, CallIsSound
<1> QED
  BY <1>1, <1>2, <1>3, <1>4, <1>5 DEF TxlineNext

-----------------------------------------------------------------------------

(* Whatever expires, lapses and breaks, the loop asks for the message after *)
(* the last one it was given, and a call that ran undisturbed has a good    *)
(* token when it tries again.                                              *)
THEOREM TxlineInvariant == TxlineSpec => []TxlineInv
<1>1. TxlineInit => TxlineInv
  BY InitTxlineInv
<1>2. TxlineInv /\ [TxlineNext]_txlineVars => TxlineInv'
  BY TxlineNextInv
<1> QED
  BY <1>1, <1>2, PTL DEF TxlineSpec

(* The results store is given every score event from the first message on, *)
(* once and in order (scoreEvents resumes at Last-Event-ID).                *)
THEOREM StreamLosesNothing == TxlineSpec => []NoGapNoRepeat
<1>1. TxlineInv => NoGapNoRepeat
  BY DEF TxlineInv
<1> QED
  BY <1>1, TxlineInvariant, PTL

(* get() only comes back with a 401 when a token expired or the             *)
(* subscription lapsed while it ran: one renewal is enough otherwise.      *)
THEOREM OneRenewalIsEnough == TxlineSpec => []GetOutlivesItsToken
<1>1. TxlineInv => GetOutlivesItsToken
  BY DEF TxlineInv, CallsAreSound, CallIsSound, GetOutlivesItsToken
<1> QED
  BY <1>1, TxlineInvariant, PTL

-----------------------------------------------------------------------------
(* The wallet verifier and the faucet (WalletVerifier, Faucet).              *)

(* The last time the link of a to u was as wallets has it. *)
LastAs(u, a, wallets) == IF a \in wallets THEN lastIn[u][a] ELSE lastOut[u][a]

Instants == [User -> [Address -> Int]]

LinksAreKnown ==
    /\ now \in Nat
    /\ linked \in [User -> SUBSET Address]
    /\ lastIn \in Instants /\ lastOut \in Instants
    /\ \A u \in User, a \in Address :
          /\ lastIn[u][a] <= now /\ lastOut[u][a] <= now
          /\ LastAs(u, a, linked[u]) = now

(* What an entry says was true when Privy was asked for it. *)
EntriesAreRecent ==
    /\ cache \in [User -> [wallets : SUBSET Address, expiresAt : Int]]
    /\ \A u \in User, a \in Address :
          cache[u].expiresAt > now =>
              LastAs(u, a, cache[u].wallets) >= cache[u].expiresAt - CacheTtl - Latency

(* What Privy told a call was true since the call asked. *)
CallIsRecent(q) ==
    /\ q.step \in {"idle", "checking", "asking", "told", "ok", "refused"}
    /\ q.step # "idle" => q.user \in User \cup {NoUser} /\ q.address \in Address
    /\ q.step \in {"asking", "told"} =>
          /\ q.user \in User /\ q.since \in Nat
          /\ q.since <= now /\ now <= q.since + Latency
    /\ q.step = "told" =>
          /\ q.wallets \subseteq Address
          /\ \A a \in Address : LastAs(q.user, a, q.wallets) >= q.since

CallsAreRecent == DOMAIN call = Call /\ \A c \in Call : CallIsRecent(call[c])

VerifierInv == LinksAreKnown /\ EntriesAreRecent /\ CallsAreRecent

-----------------------------------------------------------------------------

LEMMA InitVerifierInv == VerifierInit => VerifierInv
<1> SUFFICES ASSUME VerifierInit PROVE VerifierInv
  OBVIOUS
<1>1. Never \in Int /\ Never <= 0
  BY VerifierConstants DEF Never
<1>2. LinksAreKnown
  BY <1>1 DEF VerifierInit, LinksAreKnown, Instants, LastAs
<1>3. EntriesAreRecent
  BY DEF VerifierInit, EntriesAreRecent, NoEntry
<1>4. CallsAreRecent
  BY DEF VerifierInit, CallsAreRecent, CallIsRecent, Idle
<1> QED
  BY <1>2, <1>3, <1>4 DEF VerifierInv

(* A step that changes one call and nothing else. *)
LEMMA OneCallMoves ==
    ASSUME VerifierInv, NEW c \in Call, NEW q, call' = [call EXCEPT ![c] = q],
           UNCHANGED <<now, linkVars, cache>>, CallIsRecent(q)
    PROVE  VerifierInv'
<1>1. UNCHANGED <<now, linked, lastIn, lastOut, cache>>
  BY DEF linkVars
<1>2. LinksAreKnown'
  BY <1>1 DEF VerifierInv, LinksAreKnown, LastAs
<1>3. EntriesAreRecent'
  BY <1>1 DEF VerifierInv, EntriesAreRecent, LastAs
<1>4. DOMAIN call' = Call /\ \A d \in Call : call'[d] = q \/ call'[d] = call[d]
  BY DEF VerifierInv, CallsAreRecent
<1>5. ASSUME NEW d \in Call PROVE CallIsRecent(call[d])
  BY DEF VerifierInv, CallsAreRecent
<1>6. CallsAreRecent'
  BY <1>1, <1>4, <1>5 DEF CallsAreRecent, CallIsRecent, LastAs
<1> QED
  BY <1>2, <1>3, <1>6 DEF VerifierInv

LEMMA VerdictCall ==
    ASSUME NEW user \in User, NEW address \in Address, NEW step \in {"ok", "refused"}
    PROVE  CallIsRecent([step |-> step, user |-> user, address |-> address])
BY DEF CallIsRecent

LEMMA VerifyInv ==
    ASSUME VerifierInv, NEW c \in Call, NEW u \in User \cup {NoUser}, NEW a \in Address,
           Verify(c, u, a)
    PROVE  VerifierInv'
<1> DEFINE q == [step |-> "checking", user |-> u, address |-> a]
<1>1. CallIsRecent(q)
  BY DEF CallIsRecent
<1>2. call' = [call EXCEPT ![c] = q] /\ UNCHANGED <<now, linkVars, cache>>
  BY DEF Verify
<1> HIDE DEF q
<1> QED
  BY <1>1, <1>2, OneCallMoves

LEMMA CacheHitInv ==
    ASSUME VerifierInv, NEW c \in Call, CacheHit(c)
    PROVE  VerifierInv'
<1>1. CallIsRecent(call[c]) /\ call[c].step = "checking" /\ call[c].user # NoUser
  BY DEF VerifierInv, CallsAreRecent, CacheHit
<1>2. PICK user \in User : user = call[c].user
  BY <1>1 DEF CallIsRecent
<1>3. PICK address \in Address : address = call[c].address
  BY <1>1 DEF CallIsRecent
<1>4. PICK step \in {"ok", "refused"} :
          step = IF address \in cache[user].wallets THEN "ok" ELSE "refused"
  OBVIOUS
<1> DEFINE q == [step |-> step, user |-> user, address |-> address]
<1>5. call' = [call EXCEPT ![c] = q] /\ UNCHANGED <<now, linkVars, cache>>
  BY <1>2, <1>3, <1>4 DEF CacheHit, Decide
<1>6. CallIsRecent(q)
  BY VerdictCall
<1> HIDE DEF q
<1> QED
  BY <1>5, <1>6, OneCallMoves

LEMMA CacheMissInv ==
    ASSUME VerifierInv, NEW c \in Call, CacheMiss(c)
    PROVE  VerifierInv'
<1>1. /\ CallIsRecent(call[c]) /\ call[c].step = "checking" /\ call[c].user # NoUser
      /\ now \in Nat
  BY DEF VerifierInv, CallsAreRecent, LinksAreKnown, CacheMiss
<1>2. PICK user \in User : user = call[c].user
  BY <1>1 DEF CallIsRecent
<1>3. PICK address \in Address : address = call[c].address
  BY <1>1 DEF CallIsRecent
<1>4. PICK since \in Nat : since = now
  BY <1>1
<1> DEFINE q == [step |-> "asking", user |-> user, address |-> address, since |-> since]
<1>5. call' = [call EXCEPT ![c] = q] /\ UNCHANGED <<now, linkVars, cache>>
  BY <1>2, <1>3, <1>4 DEF CacheMiss
<1>6. CallIsRecent(q)
  BY <1>4, VerifierConstants DEF CallIsRecent
<1> HIDE DEF q
<1> QED
  BY <1>5, <1>6, OneCallMoves

(* What Privy reads is true at that moment. *)
LEMMA PrivyAnswersInv ==
    ASSUME VerifierInv, NEW c \in Call, PrivyAnswers(c)
    PROVE  VerifierInv'
<1>1. CallIsRecent(call[c]) /\ call[c].step = "asking" /\ LinksAreKnown
  BY DEF VerifierInv, CallsAreRecent, PrivyAnswers
<1>2. PICK user \in User : user = call[c].user
  BY <1>1 DEF CallIsRecent
<1>3. PICK address \in Address : address = call[c].address
  BY <1>1 DEF CallIsRecent
<1>4. PICK since \in Nat : since = call[c].since
  BY <1>1 DEF CallIsRecent
<1>5. PICK wallets \in SUBSET Address : wallets = linked[user]
  BY <1>1 DEF LinksAreKnown
<1> DEFINE q == [step |-> "told", user |-> user, address |-> address, since |-> since,
                 wallets |-> wallets]
<1>6. call' = [call EXCEPT ![c] = q] /\ UNCHANGED <<now, linkVars, cache>>
  BY <1>2, <1>3, <1>4, <1>5 DEF PrivyAnswers
<1>7. since <= now /\ now <= since + Latency
  BY <1>1, <1>4 DEF CallIsRecent
<1>8. \A a \in Address : LastAs(user, a, wallets) >= since
  BY <1>1, <1>5, <1>7 DEF LinksAreKnown
<1>9. CallIsRecent(q)
  BY <1>7, <1>8 DEF CallIsRecent
<1> HIDE DEF q
<1> QED
  BY <1>6, <1>9, OneCallMoves

(* The entry counts from the arrival, its content from the question. *)
LEMMA AnswerArrivesInv ==
    ASSUME VerifierInv, NEW c \in Call, AnswerArrives(c)
    PROVE  VerifierInv'
<1>1. CallIsRecent(call[c]) /\ call[c].step = "told" /\ LinksAreKnown /\ EntriesAreRecent
  BY DEF VerifierInv, CallsAreRecent, AnswerArrives
<1>2. PICK user \in User : user = call[c].user
  BY <1>1 DEF CallIsRecent
<1>3. PICK address \in Address : address = call[c].address
  BY <1>1 DEF CallIsRecent
<1>4. PICK since \in Nat : since = call[c].since
  BY <1>1 DEF CallIsRecent
<1>5. PICK wallets \in SUBSET Address : wallets = call[c].wallets
  BY <1>1 DEF CallIsRecent
<1>6. PICK step \in {"ok", "refused"} : step = IF address \in wallets THEN "ok" ELSE "refused"
  OBVIOUS
<1> DEFINE q == [step |-> step, user |-> user, address |-> address]
           e == [wallets |-> wallets, expiresAt |-> now + CacheTtl]
<1>7. call' = [call EXCEPT ![c] = q]
  BY <1>2, <1>3, <1>5, <1>6 DEF AnswerArrives, Decide
<1>8. cache' = [cache EXCEPT ![user] = e] /\ UNCHANGED <<now, linked, lastIn, lastOut>>
  BY <1>2, <1>5 DEF AnswerArrives, EntryOf, linkVars
<1>9. since <= now /\ now <= since + Latency /\ now \in Nat
  BY <1>1, <1>4 DEF CallIsRecent, LinksAreKnown
<1>10. \A a \in Address : LastAs(user, a, wallets) >= since
  BY <1>1, <1>2, <1>4, <1>5 DEF CallIsRecent
<1>11. \A a \in Address : LastAs(user, a, wallets) \in Int
  BY <1>1 DEF LinksAreKnown, Instants, LastAs
<1>12. /\ e \in [wallets : SUBSET Address, expiresAt : Int]
       /\ \A a \in Address :
             LastAs(user, a, e.wallets) >= e.expiresAt - CacheTtl - Latency
  BY <1>9, <1>10, <1>11, VerifierConstants
<1>13. CallIsRecent(q)
  BY VerdictCall
<1> HIDE DEF q, e
<1>14. /\ cache' \in [User -> [wallets : SUBSET Address, expiresAt : Int]]
       /\ \A u \in User : cache'[u] = IF u = user THEN e ELSE cache[u]
  BY <1>1, <1>8, <1>12 DEF EntriesAreRecent
<1>15. EntriesAreRecent'
  BY <1>1, <1>8, <1>12, <1>14 DEF EntriesAreRecent, LastAs
<1>16. LinksAreKnown'
  BY <1>1, <1>8 DEF LinksAreKnown, LastAs
<1>17. DOMAIN call' = Call /\ \A d \in Call : call'[d] = q \/ call'[d] = call[d]
  BY <1>7 DEF VerifierInv, CallsAreRecent
<1>18. ASSUME NEW d \in Call PROVE CallIsRecent(call[d])
  BY DEF VerifierInv, CallsAreRecent
<1>19. CallsAreRecent'
  BY <1>8, <1>13, <1>17, <1>18 DEF CallsAreRecent, CallIsRecent, LastAs
<1> QED
  BY <1>15, <1>16, <1>19 DEF VerifierInv

LEMMA IdleCallInv ==
    ASSUME VerifierInv, NEW c \in Call, call' = [call EXCEPT ![c] = Idle],
           UNCHANGED <<now, linkVars, cache>>
    PROVE  VerifierInv'
<1>1. CallIsRecent(Idle)
  BY DEF CallIsRecent, Idle
<1> QED
  BY <1>1, OneCallMoves

(* Links and time move: what was last seen is only ever seen later. *)
LEMMA WorldMoves ==
    ASSUME VerifierInv, LinksAreKnown', now' >= now, UNCHANGED <<cache, call>>,
           \A u \in User, a \in Address :
               lastIn'[u][a] >= lastIn[u][a] /\ lastOut'[u][a] >= lastOut[u][a],
           \A c \in Call : call[c].step \in {"asking", "told"} => now' <= call[c].since + Latency
    PROVE  VerifierInv'
<1>1. /\ now \in Nat /\ lastIn \in Instants /\ lastOut \in Instants
      /\ now' \in Nat /\ lastIn' \in Instants /\ lastOut' \in Instants
  BY DEF VerifierInv, LinksAreKnown
<1>2. ASSUME NEW u \in User, NEW a \in Address, NEW wallets, NEW t \in Int,
             (IF a \in wallets THEN lastIn[u][a] ELSE lastOut[u][a]) >= t
      PROVE  (IF a \in wallets THEN lastIn'[u][a] ELSE lastOut'[u][a]) >= t
  <2>1. /\ lastIn[u][a] \in Int /\ lastOut[u][a] \in Int
        /\ lastIn'[u][a] \in Int /\ lastOut'[u][a] \in Int
    BY <1>1 DEF Instants
  <2> QED
    BY <1>2, <2>1
<1>3. EntriesAreRecent'
  <2>1. cache \in [User -> [wallets : SUBSET Address, expiresAt : Int]]
    BY DEF VerifierInv, EntriesAreRecent
  <2>2. ASSUME NEW u \in User, NEW a \in Address, cache[u].expiresAt > now'
        PROVE  (IF a \in cache[u].wallets THEN lastIn'[u][a] ELSE lastOut'[u][a])
                   >= cache[u].expiresAt - CacheTtl - Latency
    <3>1. cache[u].expiresAt \in Int
      BY <2>1
    <3>2. cache[u].expiresAt - CacheTtl - Latency \in Int
      BY <3>1, VerifierConstants
    <3>3. cache[u].expiresAt > now
      BY <1>1, <2>2, <3>1
    <3>4. (IF a \in cache[u].wallets THEN lastIn[u][a] ELSE lastOut[u][a])
              >= cache[u].expiresAt - CacheTtl - Latency
      BY <3>3 DEF VerifierInv, EntriesAreRecent, LastAs
    <3> QED
      BY <1>2, <3>2, <3>4
  <2> QED
    BY <2>1, <2>2 DEF EntriesAreRecent, LastAs
<1>4. CallsAreRecent'
  <2>1. ASSUME NEW c \in Call
        PROVE  CallIsRecent(call[c])
    BY DEF VerifierInv, CallsAreRecent
  <2>2. ASSUME NEW c \in Call, call[c].step = "told", NEW a \in Address
        PROVE  (IF a \in call[c].wallets THEN lastIn'[call[c].user][a]
                ELSE lastOut'[call[c].user][a]) >= call[c].since
    <3>1. call[c].user \in User /\ call[c].since \in Int
      BY <2>1, <2>2 DEF CallIsRecent
    <3>2. (IF a \in call[c].wallets THEN lastIn[call[c].user][a]
           ELSE lastOut[call[c].user][a]) >= call[c].since
      BY <2>1, <2>2 DEF CallIsRecent, LastAs
    <3> QED
      BY <1>2, <3>1, <3>2
  <2>3. ASSUME NEW c \in Call, call[c].step \in {"asking", "told"}
        PROVE  call[c].since <= now' /\ now' <= call[c].since + Latency
    BY <1>1, <2>1, <2>3 DEF CallIsRecent
  <2>4. DOMAIN call' = Call
    BY DEF VerifierInv, CallsAreRecent
  <2> QED
    BY <2>1, <2>2, <2>3, <2>4 DEF CallsAreRecent, CallIsRecent, LastAs
<1> QED
  BY <1>3, <1>4 DEF VerifierInv

LEMMA RelinkInv ==
    ASSUME VerifierInv, NEW u \in User, NEW a \in Address, Relink(u, a)
    PROVE  VerifierInv'
<1>1. LinksAreKnown
  BY DEF VerifierInv
<1>2. /\ now \in Nat /\ linked \in [User -> SUBSET Address]
      /\ lastIn \in Instants /\ lastOut \in Instants
      /\ \A v \in User, b \in Address : lastIn[v][b] <= now /\ lastOut[v][b] <= now
  BY <1>1 DEF LinksAreKnown
<1>3. UNCHANGED <<now, cache, call>>
  BY DEF Relink
<1>4. /\ linked' \in [User -> SUBSET Address]
      /\ \A v \in User, b \in Address :
            v # u \/ b # a => (b \in linked'[v] <=> b \in linked[v])
  BY <1>2 DEF Relink
<1>5. /\ lastIn' \in Instants
      /\ \A v \in User, b \in Address :
            lastIn'[v][b] = IF v = u /\ b = a THEN now ELSE lastIn[v][b]
  BY <1>2 DEF Relink, Instants
<1>6. /\ lastOut' \in Instants
      /\ \A v \in User, b \in Address :
            lastOut'[v][b] = IF v = u /\ b = a THEN now ELSE lastOut[v][b]
  BY <1>2 DEF Relink, Instants
<1>7. LinksAreKnown'
  BY <1>1, <1>2, <1>3, <1>4, <1>5, <1>6 DEF LinksAreKnown, LastAs
<1>8. \A v \in User, b \in Address :
          lastIn'[v][b] >= lastIn[v][b] /\ lastOut'[v][b] >= lastOut[v][b]
  <2>1. \A v \in User, b \in Address : lastIn[v][b] \in Int /\ lastOut[v][b] \in Int
    BY <1>2 DEF Instants
  <2> QED
    BY <1>2, <1>5, <1>6, <2>1
<1>9. \A c \in Call : call[c].step \in {"asking", "told"} => now' <= call[c].since + Latency
  BY <1>3 DEF VerifierInv, CallsAreRecent, CallIsRecent
<1>10. now' >= now
  BY <1>2, <1>3
<1> QED
  BY <1>3, <1>7, <1>8, <1>9, <1>10, WorldMoves

LEMMA TimeFliesInv ==
    ASSUME VerifierInv, TimeFlies
    PROVE  VerifierInv'
<1>1. LinksAreKnown
  BY DEF VerifierInv
<1>2. /\ now \in Nat /\ linked \in [User -> SUBSET Address]
      /\ lastIn \in Instants /\ lastOut \in Instants
      /\ \A v \in User, b \in Address : lastIn[v][b] <= now /\ lastOut[v][b] <= now
  BY <1>1 DEF LinksAreKnown
<1>3. now' = now + 1 /\ UNCHANGED <<linked, cache, call>>
  BY DEF TimeFlies
<1>4. \A v \in User, b \in Address : lastIn[v][b] \in Int /\ lastOut[v][b] \in Int
  BY <1>2 DEF Instants
<1>5. /\ lastIn' \in Instants
      /\ \A v \in User, b \in Address :
            lastIn'[v][b] = IF b \in linked[v] THEN now + 1 ELSE lastIn[v][b]
  BY <1>2, <1>4 DEF TimeFlies, Instants
<1>6. /\ lastOut' \in Instants
      /\ \A v \in User, b \in Address :
            lastOut'[v][b] = IF b \in linked[v] THEN lastOut[v][b] ELSE now + 1
  BY <1>2, <1>4 DEF TimeFlies, Instants
<1>7. LinksAreKnown'
  BY <1>2, <1>3, <1>4, <1>5, <1>6 DEF LinksAreKnown, LastAs
<1>8. \A v \in User, b \in Address :
          lastIn'[v][b] >= lastIn[v][b] /\ lastOut'[v][b] >= lastOut[v][b]
  BY <1>2, <1>4, <1>5, <1>6
<1>9. \A c \in Call : call[c].step \in {"asking", "told"} => now' <= call[c].since + Latency
  <2>1. ASSUME NEW c \in Call, call[c].step \in {"asking", "told"}
        PROVE  now' <= call[c].since + Latency
    <3>1. call[c].since \in Nat
      BY <2>1 DEF VerifierInv, CallsAreRecent, CallIsRecent
    <3>2. now < call[c].since + Latency
      BY <2>1 DEF TimeFlies
    <3> QED
      BY <1>2, <1>3, <3>1, <3>2, VerifierConstants
  <2> QED
    BY <2>1
<1>10. now' >= now
  BY <1>2, <1>3
<1> QED
  BY <1>3, <1>7, <1>8, <1>9, <1>10, WorldMoves

LEMMA VerifierNextInv ==
    ASSUME VerifierInv, VerifierNext
    PROVE  VerifierInv'
<1>1. ASSUME NEW c \in Call, VerifyNext(c) PROVE VerifierInv'
  <2>1. CASE VerifyThrows(c)
    BY <2>1, IdleCallInv DEF VerifyThrows
  <2>2. ASSUME NEW u \in User \cup {NoUser}, NEW a \in Address, Verify(c, u, a) PROVE VerifierInv'
    BY <2>2, VerifyInv
  <2> QED
    BY <1>1, <2>1, <2>2, CacheHitInv, CacheMissInv, PrivyAnswersInv, AnswerArrivesInv
       DEF VerifyNext
<1>2. ASSUME NEW u \in User, NEW a \in Address, Relink(u, a) PROVE VerifierInv'
  BY <1>2, RelinkInv
<1>3. CASE TimeFlies
  BY <1>3, TimeFliesInv
<1> QED
  BY <1>1, <1>2, <1>3 DEF VerifierNext

LEMMA VerifierStays == VerifierInv /\ UNCHANGED verifierVars => VerifierInv'
BY DEF VerifierInv, LinksAreKnown, EntriesAreRecent, CallsAreRecent, CallIsRecent, LastAs,
       verifierVars, linkVars

-----------------------------------------------------------------------------

(* What a verdict rests on. *)
Recent(c) ==
    LET last == IF call'[c].step = "ok" THEN lastIn ELSE lastOut IN
    last[call[c].user][call[c].address] > now - CacheTtl - Latency

(* A verdict is given by the entry that answers, or by Privy's answer. *)
LEMMA VerdictSteps ==
    ASSUME VerifierInv, NEW c \in Call, UnderWay(c), call'[c].step \in {"ok", "refused"},
           VerifierNext
    PROVE  CacheHit(c) \/ AnswerArrives(c)
<1>1. DOMAIN call = Call
  BY DEF VerifierInv, CallsAreRecent
<1>2. call'[c].step # call[c].step
  BY DEF UnderWay
<1>3. PICK d \in Call : VerifyNext(d)
  BY <1>2 DEF VerifierNext, Relink, TimeFlies
<1>4. CASE CacheHit(d) \/ AnswerArrives(d)
  <2>1. d # c => call'[c] = call[c]
    BY <1>1, <1>4 DEF CacheHit, AnswerArrives, Decide
  <2> QED
    BY <1>2, <1>4, <2>1
<1>5. CASE VerifyThrows(d)
  BY <1>1, <1>2, <1>5 DEF VerifyThrows, Idle
<1>6. CASE CacheMiss(d) \/ PrivyAnswers(d)
  BY <1>1, <1>2, <1>6 DEF CacheMiss, PrivyAnswers
<1>7. ASSUME NEW u \in User \cup {NoUser}, NEW a \in Address, Verify(d, u, a) PROVE FALSE
  BY <1>1, <1>2, <1>7 DEF Verify
<1> QED
  BY <1>3, <1>4, <1>5, <1>6, <1>7 DEF VerifyNext

LEMMA CacheHitIsRecent ==
    ASSUME VerifierInv, NEW c \in Call, CacheHit(c)
    PROVE  Recent(c)
<1>1. CallIsRecent(call[c]) /\ LinksAreKnown /\ EntriesAreRecent /\ DOMAIN call = Call
  BY DEF VerifierInv, CallsAreRecent
<1>2. PICK user \in User : user = call[c].user
  BY <1>1 DEF CallIsRecent, CacheHit
<1>3. PICK address \in Address : address = call[c].address
  BY <1>1 DEF CallIsRecent, CacheHit
<1>4. cache[user].expiresAt \in Int /\ cache[user].expiresAt > now
  BY <1>1, <1>2 DEF EntriesAreRecent, CacheHit, Fresh
<1>5. LastAs(user, address, cache[user].wallets) >= cache[user].expiresAt - CacheTtl - Latency
  BY <1>1, <1>4 DEF EntriesAreRecent
<1>6. LastAs(user, address, cache[user].wallets) \in Int /\ now \in Nat
  BY <1>1 DEF LinksAreKnown, Instants, LastAs
<1>7. LastAs(user, address, cache[user].wallets) > now - CacheTtl - Latency
  BY <1>4, <1>5, <1>6, VerifierConstants
<1>8. call'[c].step = IF address \in cache[user].wallets THEN "ok" ELSE "refused"
  BY <1>1, <1>2, <1>3 DEF CacheHit, Decide
<1> QED
  BY <1>2, <1>3, <1>7, <1>8 DEF Recent, LastAs

LEMMA AnswerIsRecent ==
    ASSUME VerifierInv, NEW c \in Call, AnswerArrives(c)
    PROVE  Recent(c)
<1>1. CallIsRecent(call[c]) /\ LinksAreKnown /\ DOMAIN call = Call /\ call[c].step = "told"
  BY DEF VerifierInv, CallsAreRecent, AnswerArrives
<1>2. PICK user \in User : user = call[c].user
  BY <1>1 DEF CallIsRecent
<1>3. PICK address \in Address : address = call[c].address
  BY <1>1 DEF CallIsRecent
<1>4. PICK wallets \in SUBSET Address : wallets = call[c].wallets
  BY <1>1 DEF CallIsRecent
<1>5. PICK since \in Nat : since = call[c].since
  BY <1>1 DEF CallIsRecent
<1>6. LastAs(user, address, wallets) >= since /\ now <= since + Latency
  BY <1>1, <1>2, <1>4, <1>5 DEF CallIsRecent
<1>7. LastAs(user, address, wallets) \in Int /\ now \in Nat
  BY <1>1 DEF LinksAreKnown, Instants, LastAs
<1>8. LastAs(user, address, wallets) > now - CacheTtl - Latency
  BY <1>6, <1>7, VerifierConstants
<1>9. call'[c].step = IF address \in wallets THEN "ok" ELSE "refused"
  BY <1>1, <1>2, <1>3, <1>4 DEF AnswerArrives, Decide
<1> QED
  BY <1>2, <1>3, <1>8, <1>9 DEF Recent, LastAs

LEMMA VerdictsAreRecent ==
    ASSUME VerifierInv, VerifierNext, NEW c \in Call, UnderWay(c), Verdict(c)'
    PROVE  Recent(c)
BY VerdictSteps, CacheHitIsRecent, AnswerIsRecent DEF Verdict

-----------------------------------------------------------------------------

(* The verifier inside the faucet: the faucet only ends calls. *)
LEMMA FaucetStepInv ==
    ASSUME VerifierInv, [FaucetNext]_faucetVars
    PROVE  VerifierInv'
<1>1. ASSUME NEW c \in Call, NEW step, Done(c, step) PROVE VerifierInv'
  <2>1. CASE step = "none"
    BY <1>1, <2>1, IdleCallInv DEF Done
  <2>2. CASE step # "none"
    BY <1>1, <2>2, VerifierStays DEF Done, verifierVars
  <2> QED
    BY <2>1, <2>2
<1>2. ASSUME NEW c \in Call,
             AskBalance(c) \/ BalanceRead(c) \/ TransferConfirmed(c) \/ TopUpThrows(c)
      PROVE  VerifierInv'
  <2>1. CASE AskBalance(c)
    BY <2>1, VerifierStays DEF AskBalance
  <2>2. CASE BalanceRead(c)
    BY <1>1, <2>2 DEF BalanceRead
  <2>3. CASE TransferConfirmed(c) \/ TopUpThrows(c)
    BY <1>1, <2>3 DEF TransferConfirmed, TopUpThrows
  <2> QED
    BY <1>2, <2>1, <2>2, <2>3
<1>3. ASSUME NEW a \in Address, LateTransfer(a) \/ \E fee \in 1..balance[a] : Spend(a, fee)
      PROVE  VerifierInv'
  BY <1>3, VerifierStays DEF LateTransfer, Spend
<1>4. CASE VerifierNext
  BY <1>4, VerifierNextInv
<1>5. CASE UNCHANGED faucetVars
  BY <1>5, VerifierStays DEF faucetVars
<1> QED
  BY <1>2, <1>3, <1>4, <1>5 DEF FaucetNext

(* The requests whose transfer is decided and not executed. *)
Deciding(a) == {c \in Call : topup[c] = "sending" /\ call[c].address = a}

Accounts ==
    /\ balance \in [Address -> Nat]
    /\ topup \in [Call -> {"none", "looking", "sending"}]
    /\ late \in [Address -> 0..MaxLate]
    /\ \A c \in Call : topup[c] # "none" => call[c].step = "ok"

FaucetInv == VerifierInv /\ Accounts /\ TopUpsAreBounded

LEMMA DecidingCount ==
    ASSUME NEW S \in SUBSET Call
    PROVE  /\ IsFiniteSet(S) /\ Cardinality(S) \in Nat /\ Cardinality(Call) \in Nat
           /\ Cardinality(S) <= Cardinality(Call)
BY FaucetConstants, FS_Subset, FS_CardinalityType

LEMMA TimesMonotone ==
    ASSUME NEW m \in Nat, NEW n \in Nat, m <= n
    PROVE  TopUp * m <= TopUp * n
<1>1. TopUp \in Nat /\ TopUp * m \in Nat /\ TopUp * (n - m) \in Nat
  BY FaucetConstants
<1>2. TopUp * n = TopUp * m + TopUp * (n - m)
  BY <1>1
<1> QED
  BY <1>1, <1>2

LEMMA ComingCount ==
    ASSUME NEW S \in SUBSET Call, NEW l \in 0..MaxLate
    PROVE  /\ l + Cardinality(S) \in Nat
           /\ l + Cardinality(S) <= Cardinality(Call) + MaxLate
           /\ Cardinality(Call) + MaxLate \in Nat
BY DecidingCount, FaucetConstants

(* A wallet below the minimum may be promised what all requests together    *)
(* can decide, and no more.                                                *)
LEMMA LowIsBounded ==
    ASSUME NEW b \in Nat, b < MinBalance, NEW m \in Nat, m <= Cardinality(Call) + MaxLate
    PROVE  b + TopUp * m < MinBalance + TopUp * (Cardinality(Call) + MaxLate)
<1>1. PICK n \in Nat : n = Cardinality(Call) + MaxLate
  BY DecidingCount, FaucetConstants
<1>2. TopUp * m <= TopUp * n
  BY <1>1, TimesMonotone
<1>3. TopUp * m \in Nat /\ TopUp * n \in Nat /\ MinBalance \in Nat
  BY FaucetConstants
<1>4. b + TopUp * m < MinBalance + TopUp * n
  BY <1>2, <1>3
<1> QED
  BY <1>1, <1>4

LEMMA InitFaucetInv == FaucetInit => FaucetInv
<1> SUFFICES ASSUME FaucetInit PROVE FaucetInv
  OBVIOUS
<1>1. VerifierInv
  BY InitVerifierInv DEF FaucetInit
<1>2. Accounts
  BY FaucetConstants DEF FaucetInit, Accounts
<1>3. ASSUME NEW a \in Address
      PROVE  balance[a] + TopUp * Coming(a) < MinBalance + TopUp * (Cardinality(Call) + MaxLate)
  <2>1. balance[a] \in Nat /\ balance[a] < MinBalance /\ late[a] \in 0..MaxLate
    BY <1>2, FaucetConstants DEF FaucetInit, Accounts
  <2>2. Coming(a) = late[a] + Cardinality(Deciding(a)) /\ Deciding(a) \in SUBSET Call
    BY DEF Coming, Deciding
  <2> QED
    BY <2>1, <2>2, ComingCount, LowIsBounded
<1> QED
  BY <1>1, <1>2, <1>3 DEF FaucetInv, TopUpsAreBounded

(* It is enough that every wallet keeps its promises, or is low. *)
LEMMA PromisesKept ==
    ASSUME FaucetInv, VerifierInv', Accounts',
           \A a \in Address :
               \/ balance'[a] < MinBalance
               \/ balance'[a] + TopUp * Coming(a)' <= balance[a] + TopUp * Coming(a)
    PROVE  FaucetInv'
<1>1. ASSUME NEW a \in Address
      PROVE  balance'[a] + TopUp * Coming(a)' < MinBalance + TopUp * (Cardinality(Call) + MaxLate)
  <2>1. /\ balance'[a] \in Nat /\ late'[a] \in 0..MaxLate
        /\ balance[a] \in Nat /\ late[a] \in 0..MaxLate
    BY DEF FaucetInv, Accounts
  <2>2. /\ Coming(a)' = late'[a] + Cardinality(Deciding(a)') /\ Deciding(a)' \in SUBSET Call
        /\ Coming(a) = late[a] + Cardinality(Deciding(a)) /\ Deciding(a) \in SUBSET Call
    BY DEF Coming, Deciding
  <2>3. /\ Coming(a)' \in Nat /\ Coming(a)' <= Cardinality(Call) + MaxLate
        /\ Coming(a) \in Nat
    BY <2>1, <2>2, ComingCount
  <2>4. CASE balance'[a] < MinBalance
    BY <2>1, <2>3, <2>4, LowIsBounded
  <2>5. CASE balance'[a] + TopUp * Coming(a)' <= balance[a] + TopUp * Coming(a)
    <3>1. balance[a] + TopUp * Coming(a) < MinBalance + TopUp * (Cardinality(Call) + MaxLate)
      BY DEF FaucetInv, TopUpsAreBounded
    <3>2. PICK x \in Nat : x = balance'[a] + TopUp * Coming(a)'
      BY <2>1, <2>3, FaucetConstants
    <3>3. PICK y \in Nat : y = balance[a] + TopUp * Coming(a)
      BY <2>1, <2>3, FaucetConstants
    <3>4. PICK z \in Nat : z = MinBalance + TopUp * (Cardinality(Call) + MaxLate)
      BY DecidingCount, FaucetConstants
    <3> QED
      BY <2>5, <3>1, <3>2, <3>3, <3>4
  <2> QED
    BY <1>1, <2>4, <2>5
<1> QED
  BY <1>1 DEF FaucetInv, TopUpsAreBounded

(* Nothing is decided or given up, and no wallet gets anything. *)
LEMMA NothingPromised ==
    ASSUME FaucetInv, VerifierInv', Accounts',
           \A a \in Address : /\ late'[a] = late[a] /\ balance'[a] <= balance[a]
                              /\ Deciding(a)' = Deciding(a)
    PROVE  FaucetInv'
<1>1. ASSUME NEW a \in Address
      PROVE  balance'[a] + TopUp * Coming(a)' <= balance[a] + TopUp * Coming(a)
  <2>1. /\ balance'[a] \in Nat /\ balance[a] \in Nat /\ late[a] \in 0..MaxLate
    BY DEF FaucetInv, Accounts
  <2>2. /\ Coming(a)' = late'[a] + Cardinality(Deciding(a)')
        /\ Coming(a) = late[a] + Cardinality(Deciding(a)) /\ Deciding(a) \in SUBSET Call
    BY DEF Coming, Deciding
  <2>3. PICK m \in Nat : m = Coming(a) /\ m = Coming(a)'
    BY <2>1, <2>2, ComingCount
  <2>4. TopUp * m \in Nat
    BY FaucetConstants
  <2> QED
    BY <2>1, <2>3, <2>4
<1> QED
  BY <1>1, PromisesKept

LEMMA DecidingStays ==
    ASSUME FaucetInv, NEW c \in Call, topup[c] # "sending",
           topup' \in [Call -> {"none", "looking", "sending"}], topup'[c] # "sending",
           \A d \in Call \ {c} : topup'[d] = topup[d] /\ call'[d] = call[d]
    PROVE  \A a \in Address : Deciding(a)' = Deciding(a)
BY DEF Deciding

(* A verifier step leaves the calls of the faucet alone. *)
LEMMA FaucetVerifierInv ==
    ASSUME FaucetInv, VerifierNext, \A c \in Call : topup[c] # "none" => call'[c] = call[c],
           UNCHANGED <<balance, topup, late>>
    PROVE  FaucetInv'
<1>1. VerifierInv'
  BY VerifierNextInv DEF FaucetInv
<1>2. Accounts'
  BY DEF FaucetInv, Accounts
<1>3. \A a \in Address : Deciding(a)' = Deciding(a)
  BY DEF Deciding
<1>4. \A a \in Address : late'[a] = late[a] /\ balance'[a] <= balance[a]
  BY DEF FaucetInv, Accounts
<1> QED
  BY <1>1, <1>2, <1>3, <1>4, NothingPromised

LEMMA AskBalanceInv ==
    ASSUME FaucetInv, NEW c \in Call, AskBalance(c)
    PROVE  FaucetInv'
<1>1. VerifierInv' /\ UNCHANGED call
  BY VerifierStays DEF FaucetInv, AskBalance, verifierVars
<1>2. Accounts'
  BY <1>1 DEF FaucetInv, Accounts, AskBalance
<1>3. \A a \in Address : Deciding(a)' = Deciding(a)
  BY <1>1, <1>2, DecidingStays DEF AskBalance, Accounts, FaucetInv
<1>4. \A a \in Address : late'[a] = late[a] /\ balance'[a] <= balance[a]
  BY DEF FaucetInv, Accounts, AskBalance
<1> QED
  BY <1>1, <1>2, <1>3, <1>4, NothingPromised

(* What the end of a request leaves of the types. *)
LEMMA DoneTypes ==
    ASSUME FaucetInv, NEW c \in Call, NEW step \in {"none", "sending"}, Done(c, step),
           topup[c] # "none",
           balance' \in [Address -> Nat], late' \in [Address -> 0..MaxLate]
    PROVE  /\ VerifierInv' /\ Accounts'
           /\ topup' = [topup EXCEPT ![c] = step]
           /\ \A d \in Call \ {c} : topup'[d] = topup[d] /\ call'[d] = call[d]
<1>1. DOMAIN call = Call
  BY DEF FaucetInv, VerifierInv, CallsAreRecent
<1>2. topup' = [topup EXCEPT ![c] = step]
  BY DEF Done
<1>3. /\ topup' \in [Call -> {"none", "looking", "sending"}]
      /\ topup'[c] = step
      /\ \A d \in Call \ {c} : topup'[d] = topup[d] /\ call'[d] = call[d]
  BY <1>1 DEF Done, FaucetInv, Accounts
<1>4. step = "sending" => call'[c] = call[c]
  BY DEF Done
<1>5. Accounts'
  BY <1>3, <1>4 DEF FaucetInv, Accounts
<1>6. CASE step = "none"
  <2>1. VerifierInv'
    BY <1>6, IdleCallInv DEF Done, FaucetInv
  <2> QED
    BY <1>2, <1>3, <1>5, <2>1
<1>7. CASE step = "sending"
  <2>1. VerifierInv'
    BY <1>7, VerifierStays DEF Done, FaucetInv, verifierVars
  <2> QED
    BY <1>2, <1>3, <1>5, <2>1
<1> QED
  BY <1>6, <1>7

(* Only a wallet that is low is promised more. *)
LEMMA BalanceReadInv ==
    ASSUME FaucetInv, NEW c \in Call, BalanceRead(c)
    PROVE  FaucetInv'
<1>1. PICK step \in {"none", "sending"} :
          /\ step = IF Low(balance[call[c].address]) THEN "sending" ELSE "none"
          /\ Done(c, step)
  BY DEF BalanceRead
<1>2. topup[c] = "looking" /\ UNCHANGED <<balance, late>>
  BY DEF BalanceRead
<1>3. balance' \in [Address -> Nat] /\ late' \in [Address -> 0..MaxLate]
  BY <1>2 DEF FaucetInv, Accounts
<1>4. /\ VerifierInv' /\ Accounts'
      /\ topup' = [topup EXCEPT ![c] = step]
      /\ \A d \in Call \ {c} : topup'[d] = topup[d] /\ call'[d] = call[d]
  BY <1>1, <1>2, <1>3, DoneTypes
<1>5. topup'[c] = step
  BY <1>4 DEF FaucetInv, Accounts
<1>6. CASE step = "none"
  <2>1. \A a \in Address : Deciding(a)' = Deciding(a)
    BY <1>2, <1>4, <1>5, <1>6, DecidingStays DEF Accounts
  <2>2. \A a \in Address : late'[a] = late[a] /\ balance'[a] <= balance[a]
    BY <1>2 DEF FaucetInv, Accounts
  <2> QED
    BY <1>4, <2>1, <2>2, NothingPromised
<1>7. CASE step = "sending"
  <2>1. Low(balance[call[c].address]) /\ call' = call
    BY <1>1, <1>7 DEF Done
  <2>2. ASSUME NEW a \in Address
        PROVE  \/ balance'[a] < MinBalance
               \/ balance'[a] + TopUp * Coming(a)' <= balance[a] + TopUp * Coming(a)
    <3>1. CASE call[c].address = a
      BY <1>2, <2>1, <3>1 DEF Low
    <3>2. CASE call[c].address # a
      <4>1. Deciding(a)' = Deciding(a)
        BY <1>4, <2>1, <3>2 DEF Deciding
      <4>2. Coming(a)' = Coming(a)
        BY <1>2, <4>1 DEF Coming, Deciding
      <4>3. balance'[a] + TopUp * Coming(a)' = balance[a] + TopUp * Coming(a)
        BY <1>2, <4>2
      <4>4. balance[a] \in Nat /\ late[a] \in 0..MaxLate
        BY DEF FaucetInv, Accounts
      <4>5. Coming(a) \in Nat
        <5>1. Coming(a) = late[a] + Cardinality(Deciding(a)) /\ Deciding(a) \in SUBSET Call
          BY DEF Coming, Deciding
        <5> QED
          BY <4>4, <5>1, ComingCount
      <4>6. balance[a] + TopUp * Coming(a) \in Nat
        BY <4>4, <4>5, FaucetConstants
      <4> QED
        BY <4>3, <4>6
    <3> QED
      BY <3>1, <3>2
  <2> QED
    BY <1>4, <2>2, PromisesKept
<1> QED
  BY <1>6, <1>7

(* A transfer that was decided executes, fails, or is given up on: what the *)
(* wallet gets or may still get is what was promised.                      *)
LEMMA DecisionEnds ==
    ASSUME FaucetInv, NEW c \in Call, topup[c] = "sending", Done(c, "none"),
           balance' \in [Address -> Nat], late' \in [Address -> 0..MaxLate],
           NEW b \in Address, b = call[c].address,
           \/ balance'[b] = balance[b] + TopUp /\ late'[b] = late[b]
           \/ balance'[b] = balance[b] /\ late'[b] = late[b]
           \/ balance'[b] = balance[b] /\ late'[b] = late[b] + 1,
           \A a \in Address \ {b} : balance'[a] = balance[a] /\ late'[a] = late[a]
    PROVE  FaucetInv'
<1>1. /\ VerifierInv' /\ Accounts'
      /\ topup' = [topup EXCEPT ![c] = "none"]
      /\ \A d \in Call \ {c} : topup'[d] = topup[d] /\ call'[d] = call[d]
  BY DoneTypes
<1>2. topup'[c] = "none"
  BY <1>1 DEF FaucetInv, Accounts
<1>3. ASSUME NEW a \in Address
      PROVE  balance'[a] + TopUp * Coming(a)' <= balance[a] + TopUp * Coming(a)
  <2>1. /\ balance'[a] \in Nat /\ late'[a] \in 0..MaxLate
        /\ balance[a] \in Nat /\ late[a] \in 0..MaxLate
    BY <1>1 DEF FaucetInv, Accounts
  <2>2. /\ Coming(a)' = late'[a] + Cardinality(Deciding(a)')
        /\ Coming(a) = late[a] + Cardinality(Deciding(a)) /\ Deciding(a) \in SUBSET Call
    BY DEF Coming, Deciding
  <2>3. CASE a = b
    <3>1. Deciding(a)' = Deciding(a) \ {c} /\ c \in Deciding(a)
      BY <1>1, <1>2, <2>3 DEF Deciding
    <3>2. PICK n \in Nat : n = Cardinality(Deciding(a))
      BY <2>2, DecidingCount
    <3>3. Cardinality(Deciding(a)') = n - 1
      BY <2>2, <3>1, <3>2, DecidingCount, FS_RemoveElement
    <3>4. PICK m \in Nat : m = late[a] + n
      BY <2>1, <3>2
    <3>5. \/ balance'[a] = balance[a] + TopUp /\ Coming(a)' = m - 1
          \/ balance'[a] = balance[a] /\ Coming(a)' = m - 1
          \/ balance'[a] = balance[a] /\ Coming(a)' = m
      BY <2>1, <2>2, <2>3, <3>2, <3>3, <3>4
    <3>6. /\ TopUp \in Nat /\ TopUp * m \in Nat
          /\ TopUp * (m - 1) = TopUp * m - TopUp
      BY FaucetConstants
    <3>7. Coming(a) = m
      BY <2>2, <3>2, <3>4
    <3> QED
      BY <2>1, <3>5, <3>6, <3>7
  <2>4. CASE a # b
    <3>1. Deciding(a)' = Deciding(a)
      BY <1>1, <1>2, <2>4 DEF Deciding
    <3>2. Coming(a)' = Coming(a) /\ balance'[a] = balance[a]
      BY <2>2, <2>4, <3>1
    <3>3. PICK m \in Nat : m = Coming(a)
      BY <2>1, <2>2, ComingCount
    <3>4. balance[a] + TopUp * m \in Nat
      BY <2>1, FaucetConstants
    <3> QED
      BY <3>2, <3>3, <3>4
  <2> QED
    BY <2>3, <2>4
<1> QED
  BY <1>1, <1>3, PromisesKept

LEMMA AskedAddress ==
    ASSUME FaucetInv, NEW c \in Call, topup[c] # "none"
    PROVE  call[c].address \in Address
BY DEF FaucetInv, Accounts, VerifierInv, CallsAreRecent, CallIsRecent

LEMMA TransferConfirmedInv ==
    ASSUME FaucetInv, NEW c \in Call, TransferConfirmed(c)
    PROVE  FaucetInv'
<1>1. topup[c] = "sending" /\ Done(c, "none") /\ UNCHANGED late
  BY DEF TransferConfirmed
<1>2. PICK b \in Address : b = call[c].address
  BY <1>1, AskedAddress
<1>3. balance \in [Address -> Nat] /\ TopUp \in Nat /\ late \in [Address -> 0..MaxLate]
  BY FaucetConstants DEF FaucetInv, Accounts
<1>4. balance' = [balance EXCEPT ![b] = @ + TopUp]
  BY <1>2 DEF TransferConfirmed
<1>5. /\ balance' \in [Address -> Nat] /\ late' \in [Address -> 0..MaxLate]
      /\ balance'[b] = balance[b] + TopUp /\ late'[b] = late[b]
      /\ \A a \in Address \ {b} : balance'[a] = balance[a] /\ late'[a] = late[a]
  BY <1>1, <1>3, <1>4
<1> QED
  BY <1>1, <1>2, <1>5, DecisionEnds

LEMMA TopUpThrowsInv ==
    ASSUME FaucetInv, NEW c \in Call, TopUpThrows(c)
    PROVE  FaucetInv'
<1>1. /\ topup[c] \in {"looking", "sending"} /\ Done(c, "none") /\ UNCHANGED balance
      /\ late' # late => topup[c] = "sending" /\ late[call[c].address] < MaxLate
  BY DEF TopUpThrows
<1>2. PICK b \in Address : b = call[c].address
  BY <1>1, AskedAddress
<1>3. /\ balance \in [Address -> Nat] /\ late \in [Address -> 0..MaxLate] /\ MaxLate \in Nat
  BY FaucetConstants DEF FaucetInv, Accounts
<1>4. late' = late \/ late' = [late EXCEPT ![b] = @ + 1]
  BY <1>2 DEF TopUpThrows
<1>5. balance' \in [Address -> Nat] /\ late' \in [Address -> 0..MaxLate]
  <2>1. CASE late' = late
    BY <1>1, <1>3, <2>1
  <2>2. CASE late' # late
    <3>1. late[b] < MaxLate /\ late' = [late EXCEPT ![b] = @ + 1]
      BY <1>1, <1>2, <1>4, <2>2
    <3> QED
      BY <1>1, <1>3, <3>1
  <2> QED
    BY <2>1, <2>2
<1>6. CASE topup[c] = "sending"
  <2>1. /\ balance'[b] = balance[b] /\ (late'[b] = late[b] \/ late'[b] = late[b] + 1)
        /\ \A a \in Address \ {b} : balance'[a] = balance[a] /\ late'[a] = late[a]
    BY <1>1, <1>3, <1>4
  <2> QED
    BY <1>1, <1>2, <1>5, <1>6, <2>1, DecisionEnds
<1>7. CASE topup[c] = "looking"
  <2>1. UNCHANGED <<balance, late>>
    BY <1>1, <1>7
  <2>2. /\ VerifierInv' /\ Accounts'
        /\ topup' = [topup EXCEPT ![c] = "none"]
        /\ \A d \in Call \ {c} : topup'[d] = topup[d] /\ call'[d] = call[d]
    BY <1>1, <1>5, <1>7, DoneTypes
  <2>3. topup'[c] = "none"
    BY <2>2 DEF FaucetInv, Accounts
  <2>4. \A a \in Address : Deciding(a)' = Deciding(a)
    BY <1>7, <2>2, <2>3, DecidingStays DEF Accounts
  <2>5. \A a \in Address : late'[a] = late[a] /\ balance'[a] <= balance[a]
    BY <1>3, <2>1
  <2> QED
    BY <2>2, <2>4, <2>5, NothingPromised
<1> QED
  BY <1>1, <1>6, <1>7

LEMMA LateTransferInv ==
    ASSUME FaucetInv, NEW b \in Address, LateTransfer(b)
    PROVE  FaucetInv'
<1>1. /\ late[b] > 0
      /\ late' = [late EXCEPT ![b] = @ - 1]
      /\ balance' = [balance EXCEPT ![b] = @ + TopUp]
      /\ UNCHANGED <<verifierVars, topup>>
  BY DEF LateTransfer
<1>2. /\ balance \in [Address -> Nat] /\ late \in [Address -> 0..MaxLate]
      /\ MaxLate \in Nat /\ TopUp \in Nat
  BY FaucetConstants DEF FaucetInv, Accounts
<1>3. /\ balance' \in [Address -> Nat] /\ late' \in [Address -> 0..MaxLate]
      /\ balance'[b] = balance[b] + TopUp /\ late'[b] = late[b] - 1
      /\ \A a \in Address \ {b} : balance'[a] = balance[a] /\ late'[a] = late[a]
  BY <1>1, <1>2
<1>4. VerifierInv' /\ UNCHANGED call
  BY <1>1, VerifierStays DEF FaucetInv, verifierVars
<1>5. Accounts'
  BY <1>1, <1>3, <1>4 DEF FaucetInv, Accounts
<1>6. ASSUME NEW a \in Address
      PROVE  balance'[a] + TopUp * Coming(a)' <= balance[a] + TopUp * Coming(a)
  <2>1. /\ balance[a] \in Nat /\ late[a] \in 0..MaxLate
    BY <1>2
  <2>2. /\ Coming(a)' = late'[a] + Cardinality(Deciding(a)')
        /\ Coming(a) = late[a] + Cardinality(Deciding(a)) /\ Deciding(a) \in SUBSET Call
    BY DEF Coming, Deciding
  <2>3. Deciding(a)' = Deciding(a)
    BY <1>1, <1>4 DEF Deciding
  <2>4. PICK n \in Nat : n = Cardinality(Deciding(a))
    BY <2>2, DecidingCount
  <2>5. PICK m \in Nat : m = late[a] + n
    BY <2>1, <2>4
  <2>6. \/ balance'[a] = balance[a] + TopUp /\ Coming(a)' = m - 1
        \/ balance'[a] = balance[a] /\ Coming(a)' = m
    BY <1>3, <2>1, <2>2, <2>3, <2>4, <2>5
  <2>7. /\ TopUp * m \in Nat /\ TopUp * (m - 1) = TopUp * m - TopUp
        /\ Coming(a) = m
    BY <1>2, <2>2, <2>4, <2>5
  <2> QED
    BY <1>2, <2>1, <2>6, <2>7
<1> QED
  BY <1>4, <1>5, <1>6, PromisesKept

LEMMA SpendInv ==
    ASSUME FaucetInv, NEW b \in Address, NEW fee \in 1..balance[b], Spend(b, fee)
    PROVE  FaucetInv'
<1>1. /\ balance' = [balance EXCEPT ![b] = @ - fee]
      /\ UNCHANGED <<verifierVars, topup, late>>
  BY DEF Spend
<1>2. balance \in [Address -> Nat]
  BY DEF FaucetInv, Accounts
<1>3. /\ balance' \in [Address -> Nat]
      /\ \A a \in Address : balance'[a] <= balance[a]
  BY <1>1, <1>2
<1>4. VerifierInv' /\ UNCHANGED call
  BY <1>1, VerifierStays DEF FaucetInv, verifierVars
<1>5. Accounts'
  BY <1>1, <1>3, <1>4 DEF FaucetInv, Accounts
<1>6. \A a \in Address : Deciding(a)' = Deciding(a)
  BY <1>1, <1>4 DEF Deciding
<1> QED
  BY <1>1, <1>3, <1>4, <1>5, <1>6, NothingPromised

LEMMA FaucetNextInv == FaucetInv /\ [FaucetNext]_faucetVars => FaucetInv'
<1> SUFFICES ASSUME FaucetInv, [FaucetNext]_faucetVars PROVE FaucetInv'
  OBVIOUS
<1>1. ASSUME NEW c \in Call,
             AskBalance(c) \/ BalanceRead(c) \/ TransferConfirmed(c) \/ TopUpThrows(c)
      PROVE  FaucetInv'
  BY <1>1, AskBalanceInv, BalanceReadInv, TransferConfirmedInv, TopUpThrowsInv
<1>2. ASSUME NEW a \in Address, LateTransfer(a) PROVE FaucetInv'
  BY <1>2, LateTransferInv
<1>3. ASSUME NEW a \in Address, NEW fee \in 1..balance[a], Spend(a, fee) PROVE FaucetInv'
  BY <1>3, SpendInv
<1>4. ASSUME VerifierNext, \A c \in Call : topup[c] # "none" => call'[c] = call[c],
             UNCHANGED <<balance, topup, late>>
      PROVE  FaucetInv'
  BY <1>4, FaucetVerifierInv
<1>5. CASE UNCHANGED faucetVars
  <2>1. UNCHANGED <<verifierVars, call, balance, topup, late>>
    BY <1>5 DEF faucetVars, verifierVars
  <2>2. VerifierInv'
    BY <2>1, VerifierStays DEF FaucetInv
  <2> QED
    BY <2>1, <2>2 DEF FaucetInv, Accounts, TopUpsAreBounded, Coming
<1> QED
  BY <1>1, <1>2, <1>3, <1>4, <1>5 DEF FaucetNext

(* The faucet gives no verdicts. *)
LEMMA FaucetVerdicts ==
    ASSUME FaucetInv, [FaucetNext]_faucetVars, NEW c \in Call, UnderWay(c), Verdict(c)'
    PROVE  Recent(c)
<1>1. DOMAIN call = Call /\ VerifierInv
  BY DEF FaucetInv, VerifierInv, CallsAreRecent
<1>2. call'[c].step # call[c].step
  BY DEF UnderWay, Verdict
<1>3. ASSUME NEW d \in Call, NEW step, Done(d, step) PROVE FALSE
  BY <1>1, <1>3 DEF Done, Idle, UnderWay, Verdict
<1>4. CASE VerifierNext
  BY <1>1, <1>4, VerdictsAreRecent
<1>5. CASE UNCHANGED call
  BY <1>2, <1>5
<1>6. CASE ~VerifierNext /\ ~UNCHANGED call
  BY <1>3, <1>6 DEF FaucetNext, AskBalance, BalanceRead, TransferConfirmed, TopUpThrows,
                    LateTransfer, Spend, verifierVars, faucetVars
<1> QED
  BY <1>4, <1>5, <1>6

-----------------------------------------------------------------------------

(* What a call was told, what the cache holds and what is promised to a     *)
(* wallet stay within their bounds, however requests overlap.              *)
THEOREM FaucetInvariant == FaucetSpec => []FaucetInv
<1>1. FaucetInit => FaucetInv
  BY InitFaucetInv
<1>2. FaucetInv /\ [FaucetNext]_faucetVars => FaucetInv'
  BY FaucetNextInv
<1> QED
  BY <1>1, <1>2, PTL DEF FaucetSpec

(* An entry never outlives its minute. *)
EntriesExpire ==
    /\ now \in 0..MaxNow
    /\ cache \in [User -> CacheEntry]
    /\ \A u \in User : cache[u].expiresAt <= now + CacheTtl

LEMMA EntryExpires ==
    ASSUME VerifierInv, EntriesExpire, NEW c \in Call, AnswerArrives(c)
    PROVE  EntriesExpire'
<1>1. CallIsRecent(call[c]) /\ call[c].step = "told"
  BY DEF VerifierInv, CallsAreRecent, AnswerArrives
<1>2. PICK user \in User : user = call[c].user
  BY <1>1 DEF CallIsRecent
<1>3. PICK wallets \in SUBSET Address : wallets = call[c].wallets
  BY <1>1 DEF CallIsRecent
<1> DEFINE e == [wallets |-> wallets, expiresAt |-> now + CacheTtl]
<1>4. cache' = [cache EXCEPT ![user] = e] /\ now' = now
  BY <1>2, <1>3 DEF AnswerArrives, EntryOf
<1>5. e \in CacheEntry /\ e.expiresAt = now + CacheTtl
  BY VerifierConstants DEF CacheEntry, EntriesExpire
<1> HIDE DEF e
<1>6. /\ cache' \in [User -> CacheEntry]
      /\ \A u \in User : cache'[u] = IF u = user THEN e ELSE cache[u]
  BY <1>4, <1>5 DEF EntriesExpire
<1>7. \A u \in User : cache'[u].expiresAt <= now + CacheTtl
  BY <1>5, <1>6, VerifierConstants DEF EntriesExpire
<1> QED
  BY <1>4, <1>6, <1>7 DEF EntriesExpire

LEMMA EntriesExpireNext ==
    ASSUME VerifierInv, EntriesExpire, [FaucetNext]_faucetVars
    PROVE  EntriesExpire'
<1>1. CASE UNCHANGED <<now, cache>>
  BY <1>1 DEF EntriesExpire
<1>2. ASSUME NEW c \in Call, AnswerArrives(c) PROVE EntriesExpire'
  BY <1>2, EntryExpires
<1>3. CASE TimeFlies
  <2>1. now' = now + 1 /\ now' \in 0..MaxNow /\ cache' = cache
    BY <1>3, VerifierConstants DEF TimeFlies, EntriesExpire
  <2>2. \A u \in User : cache[u].expiresAt \in Int
    BY DEF EntriesExpire, CacheEntry
  <2> QED
    BY <2>1, <2>2, VerifierConstants DEF EntriesExpire
<1>4. ASSUME NEW c \in Call, VerifyNext(c), ~AnswerArrives(c) PROVE UNCHANGED <<now, cache>>
  BY <1>4 DEF VerifyNext, Verify, CacheHit, CacheMiss, PrivyAnswers, VerifyThrows
<1>5. ASSUME NEW u \in User, NEW a \in Address, Relink(u, a) PROVE UNCHANGED <<now, cache>>
  BY <1>5 DEF Relink
<1>6. CASE VerifierNext
  BY <1>1, <1>2, <1>3, <1>4, <1>5, <1>6 DEF VerifierNext
<1>7. ASSUME NEW c \in Call,
             AskBalance(c) \/ BalanceRead(c) \/ TransferConfirmed(c) \/ TopUpThrows(c)
      PROVE  UNCHANGED <<now, cache>>
  BY <1>7 DEF AskBalance, BalanceRead, TransferConfirmed, TopUpThrows, Done, verifierVars
<1>8. ASSUME NEW a \in Address, LateTransfer(a) \/ \E fee \in 1..balance[a] : Spend(a, fee)
      PROVE  UNCHANGED <<now, cache>>
  BY <1>8 DEF LateTransfer, Spend, verifierVars
<1>9. CASE UNCHANGED faucetVars
  BY <1>1, <1>9 DEF faucetVars, verifierVars
<1> QED
  BY <1>1, <1>6, <1>7, <1>8, <1>9 DEF FaucetNext

(* The cache, the calls and the accounts of the faucet hold what auth.ts and *)
(* server.ts put there: no entry outlives its minute.                       *)
THEOREM FaucetTypeCorrect == FaucetSpec => []FaucetTypeOK
<1>1. FaucetInit => EntriesExpire
  BY VerifierConstants DEF FaucetInit, VerifierInit, EntriesExpire, CacheEntry, NoEntry
<1>2. FaucetInv /\ EntriesExpire /\ [FaucetNext]_faucetVars => EntriesExpire'
  BY EntriesExpireNext DEF FaucetInv
<1>3. FaucetInv /\ EntriesExpire => FaucetTypeOK
  BY DEF FaucetInv, VerifierInv, LinksAreKnown, CallsAreRecent, CallIsRecent, EntriesExpire,
         Accounts, FaucetTypeOK, VerifierTypeOK
<1> QED
  BY <1>1, <1>2, <1>3, FaucetInvariant, PTL DEF FaucetSpec

(* A verdict of verifyWallet (auth.ts:29-54) rests on what was true at most *)
(* the cache's minute and one call to Privy ago.                           *)
THEOREM VerdictsRestOnRecentLinks == FaucetSpec => VerdictIsRecent
<1>1. FaucetInv /\ [FaucetNext]_faucetVars
         => [\A c \in Call : UnderWay(c) /\ Verdict(c)' =>
               LET last == IF call'[c].step = "ok" THEN lastIn ELSE lastOut IN
               last[call[c].user][call[c].address] > now - CacheTtl - Latency]_verifierVars
  BY FaucetVerdicts DEF Recent
<1> QED
  BY <1>1, FaucetInvariant, PTL DEF FaucetSpec, VerdictIsRecent

(* However requests overlap and transfers come late, a wallet is promised   *)
(* at most one top-up for each of them beyond the minimum                   *)
(* (server.ts:409, main.ts:108).                                           *)
THEOREM FaucetIsBounded == FaucetSpec => []TopUpsAreBounded
<1>1. FaucetInv => TopUpsAreBounded
  BY DEF FaucetInv
<1> QED
  BY <1>1, FaucetInvariant, PTL

-----------------------------------------------------------------------------
(* The four side by side (MCStandalone).                                     *)

people == INSTANCE RosterProofs WITH
    PoolId <- RosterPool, pools <- poolTable, members <- memberTable

standaloneVars == <<chainVars, txlineVars, faucetVars, rosterVars, running>>

(* The roster of MCStandalone is the one RosterProofs is about. *)
LEMMA OneRosterInit == roster!RosterInit => people!RosterInit
BY DEF roster!RosterInit, people!RosterInit, roster!NoResponse, people!NoResponse

LEMMA OneRosterNext == roster!RosterNext => people!RosterNext
BY Zenon DEF roster!RosterNext, people!RosterNext, roster!RegisterPool, people!RegisterPool,
       roster!Registered, people!Registered, roster!Free, people!Free,
       roster!Join, people!Join, roster!JoinStatus, people!JoinStatus,
       roster!Rejoined, people!Rejoined, roster!HasRow, people!HasRow,
       roster!StartResponse, people!StartResponse, roster!RefuseResponse, people!RefuseResponse,
       roster!FinishResponse, people!FinishResponse, roster!NoResponse, people!NoResponse,
       roster!Pending, people!Pending

LEMMA OneRosterType == people!RosterTypeOK => roster!RosterTypeOK
BY Zenon DEF roster!RosterTypeOK, people!RosterTypeOK, roster!Registered, people!Registered,
       roster!HasRow, people!HasRow, roster!PoolRow, people!PoolRow,
       roster!MemberRow, people!MemberRow, roster!NoResponse, people!NoResponse

(* A step of the four is a step of one and no step of the others.            *)
LEMMA OneRuns ==
    ASSUME [MCNext]_standaloneVars
    PROVE  /\ [ChainNext]_chainVars
           /\ [TxlineNext]_txlineVars
           /\ [FaucetNext]_faucetVars
           /\ [people!RosterNext]_rosterVars
BY OneRosterNext DEF MCNext, standaloneVars

(***************************************************************************)
(* A behaviour of the four is one of each, so whatever is proved of a      *)
(* component holds here: nothing the standalone run checks depends on the  *)
(* others standing still.                                                  *)
(***************************************************************************)
THEOREM StandaloneIsEach == MCSpec => ChainSpec /\ TxlineSpec /\ FaucetSpec
<1>1. MCInit => ChainInit /\ TxlineInit /\ FaucetInit
  BY DEF MCInit
<1>2. [MCNext]_standaloneVars =>
          [ChainNext]_chainVars /\ [TxlineNext]_txlineVars /\ [FaucetNext]_faucetVars
  BY OneRuns
<1> QED
  BY <1>1, <1>2, PTL DEF MCSpec, standaloneVars, ChainSpec, TxlineSpec, FaucetSpec

LEMMA StandaloneRoster == MCSpec => []people!RosterInv
<1>1. MCInit => people!RosterInv
  BY OneRosterInit, people!InitInvariant, StandaloneConstants DEF MCInit, people!RosterConstants
<1>2. people!RosterInv /\ [MCNext]_standaloneVars => people!RosterInv'
  <2>1. people!RosterInv /\ [people!RosterNext]_(people!rosterVars) => people!RosterInv'
    BY people!NextStep, StandaloneConstants
  <2> QED
    BY <2>1, OneRuns DEF rosterVars, people!rosterVars
<1> QED
  BY <1>1, <1>2, PTL DEF MCSpec, standaloneVars

(***************************************************************************)
(* The tables, accounts, caches and calls of all four hold what they       *)
(* should (StandaloneTypeOK).                                              *)
(***************************************************************************)
THEOREM StandaloneTypesCorrect == MCSpec => []StandaloneTypeOK
<1>1. ChainInv /\ TxlineInv /\ FaucetTypeOK /\ people!RosterInv => StandaloneTypeOK
  BY OneRosterType DEF ChainInv, TxlineInv, people!RosterInv, StandaloneTypeOK
<1> QED
  BY <1>1, StandaloneIsEach, StandaloneRoster, ChainInvariant, TxlineInvariant, FaucetTypeCorrect,
     PTL

(* What people see of the roster. *)
Rules == [p \in RosterPool |-> roster!RuleOf(p)]
Standings == [p \in RosterPool |-> [w \in Wallet |-> roster!StandingOf(p, w)]]

LEMMA OneView ==
    /\ Rules = people!Rules /\ Standings = people!Positions
    /\ Rules' = people!Rules' /\ Standings' = people!Positions'
BY Zenon DEF Rules, Standings, people!Rules, people!Positions, roster!RuleOf, people!RuleOf,
       roster!StandingOf, people!StandingOf, roster!Registered, people!Registered,
       roster!HasRow, people!HasRow, roster!Member, people!Member

LEMMA OneGatesInit == people!Gates!Init => roster!Gates!Init
BY OneView DEF people!Gates!Init, roster!Gates!Init, Rules, Standings,
       people!Rules, people!Positions

LEMMA OneGatesNext == people!Gates!Next => roster!Gates!Next
<1>1. Rules = people!Rules /\ Standings = people!Positions
  BY OneView
<1>2. Rules' = people!Rules' /\ Standings' = people!Positions'
  BY OneView
<1>3. ASSUME NEW p \in RosterPool, NEW r \in {"open", "gated"}, people!Gates!Create(p, r)
      PROVE  roster!Gates!Create(p, r)
  BY <1>1, <1>2, <1>3 DEF people!Gates!Create, roster!Gates!Create,
         Rules, Standings, people!Rules, people!Positions
<1>4. ASSUME NEW p \in RosterPool, NEW w \in Wallet, NEW from, NEW to,
             people!Gates!Moves(p, w, from, to)
      PROVE  roster!Gates!Moves(p, w, from, to)
  BY <1>1, <1>2, <1>4 DEF people!Gates!Moves, roster!Gates!Moves,
         Rules, Standings, people!Rules, people!Positions
<1>5. ASSUME NEW p \in RosterPool, NEW w \in Wallet
      PROVE  /\ people!Gates!Enter(p, w) => roster!Gates!Enter(p, w)
             /\ people!Gates!Ask(p, w) => roster!Gates!Ask(p, w)
             /\ people!Gates!Accept(p, w) => roster!Gates!Accept(p, w)
             /\ people!Gates!Decline(p, w) => roster!Gates!Decline(p, w)
  BY <1>1, <1>4 DEF people!Gates!Enter, roster!Gates!Enter, people!Gates!Ask, roster!Gates!Ask,
         people!Gates!Accept, roster!Gates!Accept, people!Gates!Decline, roster!Gates!Decline,
         Rules, people!Rules
<1> QED
  BY <1>3, <1>5 DEF people!Gates!Next, roster!Gates!Next

(***************************************************************************)
(* The roster of the standalone run implements GatedPools, whichever of    *)
(* the four runs (RefinesGatedPools).                                      *)
(***************************************************************************)
THEOREM StandaloneKeepsGates == MCSpec => RefinesGatedPools
<1>1. MCInit => roster!Gates!Init
  BY OneRosterInit, people!InitRefines, StandaloneConstants, OneGatesInit DEF MCInit
<1>2. people!RosterInv /\ [MCNext]_standaloneVars => [roster!Gates!Next]_<<Rules, Standings>>
  <2> SUFFICES ASSUME people!RosterInv, [MCNext]_standaloneVars
               PROVE  [roster!Gates!Next]_<<Rules, Standings>>
    OBVIOUS
  <2>1. [people!RosterNext]_(people!rosterVars)
    BY OneRuns DEF rosterVars, people!rosterVars
  <2>2. people!Gates!Next \/ (people!Rules' = people!Rules /\ people!Positions' = people!Positions)
    BY <2>1, people!NextRefines, StandaloneConstants
  <2> QED
    BY <2>2, OneGatesNext, OneView, Zenon
<1> QED
  BY <1>1, <1>2, StandaloneRoster, PTL
     DEF MCSpec, standaloneVars, RefinesGatedPools, roster!RefinesGatedPools, roster!Gates!Spec,
         Rules, Standings
=============================================================================
