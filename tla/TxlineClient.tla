---------------------------- MODULE TxlineClient ----------------------------
(***************************************************************************)
(* The client of the TxLINE feed (txline/client.ts): GETs, which the       *)
(* fixture sync and the backfill make, and the loop that follows the score *)
(* stream.  All of them share one JWT; whoever is refused with 401 renews  *)
(* it, so renewals overlap and a token may be old before it is used.  The  *)
(* loop resumes at Last-Event-ID, which this module takes the service at   *)
(* its word for (ScoreIngest does not).                                    *)
(***************************************************************************)
EXTENDS Naturals, Sequences

CONSTANTS
    Get,         \* get() calls that may be in progress at once
    ScoreUpdate, \* the ids of the messages that map to a score event
    MaxFeed,     \* bound on the messages TxLINE publishes
    BackoffCap,  \* the longest wait, in units of the first one (60 in the code)
    MaxFaults    \* bound on expiries and on lapses of the subscription

ASSUME TxlineConstants ==
    /\ ScoreUpdate \subseteq Nat
    /\ MaxFeed \in Nat
    /\ BackoffCap \in Nat \ {0}
    /\ MaxFaults \in Nat

VARIABLES
    jwt,         \* the client's token
    get,         \* get[g]: a get() call
    stream,      \* the scoreEvents loop
    lastEventId, \* the id of the last message, 0 for undefined
    backoff,     \* backoffMs, in units of the first wait
    consumed,    \* the score events consume was given
    feed,        \* number of messages published
    subscribed,  \* whether TxLINE accepts the API token
    faults

txlineVars ==
    <<jwt, get, stream, lastEventId, backoff, consumed, feed, subscribed, faults>>

(* What a token is worth by now; "none" is the empty jwt. *)
Token == {"none", "good", "expired"}

(* calm: neither an expiry nor a lapse since the call began. *)
GetState ==
    [step : {"idle", "renewing", "issued", "fetching", "ok", "unauthorized", "failed"},
     token : Token, tries : 0..2, calm : BOOLEAN]
StreamState ==
    [step : {"loop", "renewing", "issued", "connecting", "open", "waiting"},
     token : Token, position : Nat]

Accepts(token) == token = "good" /\ subscribed

TxlineInit ==
    /\ jwt = "none"
    /\ get = [g \in Get |-> [step |-> "idle", token |-> "none", tries |-> 0, calm |-> FALSE]]
    /\ stream = [step |-> "loop", token |-> "none", position |-> 0]
    /\ lastEventId = 0
    /\ backoff = 1
    /\ consumed = << >>
    /\ feed = 0
    /\ subscribed = TRUE
    /\ faults = 0

-----------------------------------------------------------------------------
(* get(): renewJwt when there is no token, one renewal and one retry on 401.*)

GetStep(g, step, token, tries) ==
    get' = [get EXCEPT ![g] = [@ EXCEPT !.step = step, !.token = token, !.tries = tries]]

NotUnder(g) == get[g].step \in {"idle", "ok", "unauthorized", "failed"}

StartGet(g) ==
    /\ NotUnder(g)
    /\ get' = [get EXCEPT ![g] =
           [step |-> IF jwt = "none" THEN "renewing" ELSE "fetching",
            token |-> jwt, tries |-> IF jwt = "none" THEN 0 ELSE 1, calm |-> subscribed]]
    /\ UNCHANGED <<jwt, stream, lastEventId, backoff, consumed, feed, subscribed, faults>>

(* POST /auth/guest/start is answered with a token, or fails. *)
GetIssued(g) ==
    /\ get[g].step = "renewing"
    /\ GetStep(g, "issued", "good", get[g].tries)
    /\ UNCHANGED <<jwt, stream, lastEventId, backoff, consumed, feed, subscribed, faults>>

(* The answer arrives: this.jwt is overwritten, whatever it holds by now,   *)
(* and the request goes out with it.                                        *)
GetRenewed(g) ==
    /\ get[g].step = "issued"
    /\ jwt' = get[g].token
    /\ GetStep(g, "fetching", jwt', get[g].tries + 1)
    /\ UNCHANGED <<stream, lastEventId, backoff, consumed, feed, subscribed, faults>>

(* What follows a 401; the mutant gives up at the first. *)
AfterRefusal_GivesUp(tries) == "unauthorized"
AfterRefusal(tries) == IF tries = 1 THEN "renewing" ELSE "unauthorized"

GetAnswered(g) ==
    /\ get[g].step = "fetching"
    /\ GetStep(g, IF Accepts(get[g].token) THEN "ok" ELSE AfterRefusal(get[g].tries),
               get[g].token, get[g].tries)
    /\ UNCHANGED <<jwt, stream, lastEventId, backoff, consumed, feed, subscribed, faults>>

(* Anything but a 401 goes wrong, in the renewal or in the request. *)
GetFails(g) ==
    /\ get[g].step \in {"renewing", "fetching"}
    /\ GetStep(g, "failed", "none", 0)
    /\ UNCHANGED <<jwt, stream, lastEventId, backoff, consumed, feed, subscribed, faults>>

-----------------------------------------------------------------------------
(* scoreEvents. *)

StreamStep(step, token, position) ==
    stream' = [step |-> step, token |-> token, position |-> position]

Connect ==
    /\ stream.step = "loop"
    /\ StreamStep(IF jwt = "none" THEN "renewing" ELSE "connecting", jwt, 0)
    /\ UNCHANGED <<jwt, get, lastEventId, backoff, consumed, feed, subscribed, faults>>

StreamIssued ==
    /\ stream.step = "renewing"
    /\ StreamStep("issued", "good", 0)
    /\ UNCHANGED <<jwt, get, lastEventId, backoff, consumed, feed, subscribed, faults>>

StreamRenewed ==
    /\ stream.step = "issued"
    /\ jwt' = stream.token
    /\ StreamStep("connecting", jwt', 0)
    /\ UNCHANGED <<get, lastEventId, backoff, consumed, feed, subscribed, faults>>

(* The message after Last-Event-ID, or the next one without the header; the *)
(* mutant never sends it.                                                   *)
ResumeAt_Live == feed + 1
ResumeAt == IF lastEventId = 0 THEN feed + 1 ELSE lastEventId + 1

Accepted ==
    /\ stream.step = "connecting"
    /\ Accepts(stream.token)
    /\ StreamStep("open", stream.token, ResumeAt)
    /\ backoff' = 1
    /\ UNCHANGED <<jwt, get, lastEventId, consumed, feed, subscribed, faults>>

(* 401: renew and try at once; the mutant waits and tries the same token. *)
AfterStreamRefusal_Waits == "waiting"
AfterStreamRefusal == "renewing"

Refused ==
    /\ stream.step = "connecting"
    /\ ~Accepts(stream.token)
    /\ StreamStep(AfterStreamRefusal, stream.token, 0)
    /\ UNCHANGED <<jwt, get, lastEventId, backoff, consumed, feed, subscribed, faults>>

(* The id is kept whatever the message holds; only score events are yielded.*)
Deliver ==
    LET id == stream.position IN
    /\ stream.step = "open"
    /\ id <= feed
    /\ lastEventId' = id
    /\ consumed' = IF id \in ScoreUpdate THEN Append(consumed, id) ELSE consumed
    /\ StreamStep("open", stream.token, id + 1)
    /\ UNCHANGED <<jwt, get, backoff, feed, subscribed, faults>>

(* The service closes the connection: reconnect immediately. *)
StreamEnds ==
    /\ stream.step = "open"
    /\ StreamStep("loop", "none", 0)
    /\ UNCHANGED <<jwt, get, lastEventId, backoff, consumed, feed, subscribed, faults>>

(* The renewal, the request or the connection fails: wait. *)
StreamFails ==
    /\ stream.step \in {"renewing", "connecting", "open"}
    /\ StreamStep("waiting", "none", 0)
    /\ UNCHANGED <<jwt, get, lastEventId, backoff, consumed, feed, subscribed, faults>>

Doubled(wait) == IF 2 * wait < BackoffCap THEN 2 * wait ELSE BackoffCap

WaitOver ==
    /\ stream.step = "waiting"
    /\ backoff' = Doubled(backoff)
    /\ StreamStep("loop", "none", 0)
    /\ UNCHANGED <<jwt, get, lastEventId, consumed, feed, subscribed, faults>>

-----------------------------------------------------------------------------
(* TxLINE. *)

Publish ==
    /\ feed < MaxFeed
    /\ feed' = feed + 1
    /\ UNCHANGED <<jwt, get, stream, lastEventId, backoff, consumed, subscribed, faults>>

Aged(token) == IF token = "good" THEN "expired" ELSE token

(* Every token issued so far expires, the ones on their way included; a     *)
(* connection that is open stays open.                                      *)
Expire ==
    /\ faults < MaxFaults
    /\ faults' = faults + 1
    /\ jwt' = Aged(jwt)
    /\ get' = [g \in Get |-> [get[g] EXCEPT !.token = Aged(@), !.calm = FALSE]]
    /\ stream' = [stream EXCEPT !.token = Aged(@)]
    /\ UNCHANGED <<lastEventId, backoff, consumed, feed, subscribed>>

(* The API token stops being accepted, for a while. *)
Lapse ==
    /\ faults < MaxFaults
    /\ faults' = faults + 1
    /\ subscribed' = FALSE
    /\ get' = [g \in Get |-> [get[g] EXCEPT !.calm = FALSE]]
    /\ UNCHANGED <<jwt, stream, lastEventId, backoff, consumed, feed>>

Renew ==
    /\ ~subscribed
    /\ subscribed' = TRUE
    /\ UNCHANGED <<jwt, get, stream, lastEventId, backoff, consumed, feed, faults>>

GetNext(g) ==
    StartGet(g) \/ GetIssued(g) \/ GetRenewed(g) \/ GetAnswered(g) \/ GetFails(g)

Loop == Connect \/ StreamRenewed \/ WaitOver

TxlineNext ==
    \/ \E g \in Get : GetNext(g)
    \/ Loop \/ StreamIssued \/ Accepted \/ Refused \/ Deliver \/ StreamEnds \/ StreamFails
    \/ Publish \/ Expire \/ Lapse \/ Renew

TxlineSpec == TxlineInit /\ [][TxlineNext]_txlineVars

(***************************************************************************)
(* The loop runs on.  The service is not down for ever: a renewal and a    *)
(* connection that are tried again and again are answered at some point, a *)
(* connection that is open again and again delivers, and a lapsed          *)
(* subscription is renewed.                                                *)
(***************************************************************************)
TxlineFairness ==
    /\ WF_txlineVars(Loop)
    /\ WF_txlineVars(Renew)
    /\ SF_txlineVars(StreamIssued)
    /\ SF_txlineVars(Accepted)
    /\ SF_txlineVars(Refused)
    /\ SF_txlineVars(Deliver)

-----------------------------------------------------------------------------

(* The tokens are what the service may have made of them, and a connection  *)
(* never sends what TxLINE has not published.                               *)
TxlineTypeOK ==
    /\ jwt \in Token
    /\ get \in [Get -> GetState]
    /\ stream \in StreamState
    /\ stream.position <= feed + 1
    /\ lastEventId \in 0..feed
    /\ backoff \in 1..BackoffCap
    /\ consumed \in Seq(ScoreUpdate)
    /\ feed \in 0..MaxFeed
    /\ subscribed \in BOOLEAN
    /\ faults \in 0..MaxFaults

(***************************************************************************)
(* Reconnecting loses and repeats nothing: once the stream has delivered a *)
(* message, the results store is given every score event from then on,     *)
(* once and in order, across 401s, expired tokens and broken connections.  *)
(***************************************************************************)
NoGapNoRepeat ==
    /\ \A i \in 1..Len(consumed) : i > 1 => consumed[i - 1] < consumed[i]
    /\ \A n \in ScoreUpdate :
          consumed # << >> /\ consumed[1] <= n /\ n <= lastEventId
          => \E i \in 1..Len(consumed) : consumed[i] = n

(***************************************************************************)
(* A GET outlives the token it began with: it only comes back with a 401   *)
(* when a token expired, or the subscription lapsed, while it ran.         *)
(***************************************************************************)
GetOutlivesItsToken == \A g \in Get : get[g].step = "unauthorized" => ~get[g].calm

(***************************************************************************)
(* The stream comes back from whatever interrupted it: once it has         *)
(* delivered a message it catches up with TxLINE again and again, so every *)
(* message published is delivered in the end.                              *)
(***************************************************************************)
StreamCatchesUp == []<>(lastEventId > 0 => lastEventId = feed)
=============================================================================
