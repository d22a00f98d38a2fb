--------------------------- MODULE WalletVerifier ---------------------------
(***************************************************************************)
(* verifyWallet (backend/src/auth.ts): whether the caller's Privy token    *)
(* belongs to a user who has the wallet linked.  What Privy says about a   *)
(* user is kept for a minute, counted from the arrival of the answer.      *)
(* Calls overlap: two may ask Privy about one user, and the answer that    *)
(* arrives last stays, also when it is the older one.                      *)
(***************************************************************************)
EXTENDS Integers

CONSTANTS
    User,       \* Privy users
    Address,    \* wallets
    Call,       \* verifyWallet calls that may be in progress at once
    NoUser,     \* the user of a token that Privy does not vouch for
    CacheTtl,   \* CACHE_TTL_MS
    Latency,    \* the longest a getUser call takes before it is answered or fails
    MaxNow      \* bound on time

ASSUME VerifierConstants ==
    /\ NoUser \notin User
    /\ CacheTtl \in Nat \ {0}
    /\ Latency \in Nat
    /\ MaxNow \in Nat

VARIABLES
    now,
    linked,   \* linked[u]: the wallets Privy has linked to u
    lastIn,   \* history: lastIn[u][a] is the last time a was linked to u,
    lastOut,  \* and lastOut[u][a] the last time it was not
    cache,    \* the userId -> entry map
    call      \* call[c]: a verifyWallet call, or its verdict

linkVars == <<linked, lastIn, lastOut>>
verifierVars == <<now, linkVars, cache, call>>

(* A time no verdict may rest on. *)
Never == -(CacheTtl + Latency)

NoEntry == [wallets |-> {}, expiresAt |-> -1]
CacheEntry == [wallets : SUBSET Address, expiresAt : -1..(MaxNow + CacheTtl)]

Idle == [step |-> "idle"]

VerifierInit ==
    /\ now = 0
    /\ linked \in [User -> SUBSET Address]
    /\ lastIn = [u \in User |-> [a \in Address |-> IF a \in linked[u] THEN 0 ELSE Never]]
    /\ lastOut = [u \in User |-> [a \in Address |-> IF a \in linked[u] THEN Never ELSE 0]]
    /\ cache = [u \in User |-> NoEntry]
    /\ call = [c \in Call |-> Idle]

-----------------------------------------------------------------------------

UnderWay(c) == call[c].step \in {"checking", "asking", "told"}
Verdict(c) == call[c].step \in {"ok", "refused"}

(* A route calls verifyWallet, which waits for verifyAuthToken. *)
Verify(c, u, a) ==
    /\ ~UnderWay(c)
    /\ call' = [call EXCEPT ![c] = [step |-> "checking", user |-> u, address |-> a]]
    /\ UNCHANGED <<now, linkVars, cache>>

Decide(c, wallets) ==
    call' = [call EXCEPT ![c] =
        [step |-> IF call[c].address \in wallets THEN "ok" ELSE "refused",
         user |-> call[c].user, address |-> call[c].address]]

(* expiresAt > Date.now(); the mutant never looks at the time. *)
Fresh_AnyEntry(u) == cache[u] # NoEntry
Fresh(u) == cache[u].expiresAt > now

(* The token is a user's: an entry that is fresh answers at once. *)
CacheHit(c) ==
    /\ call[c].step = "checking"
    /\ call[c].user # NoUser
    /\ Fresh(call[c].user)
    /\ Decide(c, cache[call[c].user].wallets)
    /\ UNCHANGED <<now, linkVars, cache>>

CacheMiss(c) ==
    /\ call[c].step = "checking"
    /\ call[c].user # NoUser
    /\ ~Fresh(call[c].user)
    /\ call' = [call EXCEPT ![c] = [step |-> "asking", user |-> call[c].user,
                                    address |-> call[c].address, since |-> now]]
    /\ UNCHANGED <<now, linkVars, cache>>

(* Privy reads the user's accounts; the answer is on its way. *)
PrivyAnswers(c) ==
    /\ call[c].step = "asking"
    /\ call' = [call EXCEPT ![c] = [step |-> "told", user |-> call[c].user,
                    address |-> call[c].address, since |-> call[c].since,
                    wallets |-> linked[call[c].user]]]
    /\ UNCHANGED <<now, linkVars, cache>>

EntryOf(wallets) == [wallets |-> wallets, expiresAt |-> now + CacheTtl]

AnswerArrives(c) ==
    /\ call[c].step = "told"
    /\ cache' = [cache EXCEPT ![call[c].user] = EntryOf(call[c].wallets)]
    /\ Decide(c, call[c].wallets)
    /\ UNCHANGED <<now, linkVars>>

(* A token nobody vouches for, or Privy fails: { ok: false }, nothing kept. *)
VerifyThrows(c) ==
    /\ UnderWay(c)
    /\ call' = [call EXCEPT ![c] = Idle]
    /\ UNCHANGED <<now, linkVars, cache>>

-----------------------------------------------------------------------------

(* A wallet is linked to a user or taken away. *)
Relink(u, a) ==
    /\ linked' = [linked EXCEPT ![u] = IF a \in @ THEN @ \ {a} ELSE @ \cup {a}]
    /\ lastIn' = [lastIn EXCEPT ![u] = [@ EXCEPT ![a] = now]]
    /\ lastOut' = [lastOut EXCEPT ![u] = [@ EXCEPT ![a] = now]]
    /\ UNCHANGED <<now, cache, call>>

(* No getUser call takes longer than Latency. *)
TimeFlies ==
    /\ now < MaxNow
    /\ \A c \in Call : call[c].step \in {"asking", "told"} => now < call[c].since + Latency
    /\ now' = now + 1
    /\ lastIn' = [u \in User |-> [a \in Address |->
                     IF a \in linked[u] THEN now + 1 ELSE lastIn[u][a]]]
    /\ lastOut' = [u \in User |-> [a \in Address |->
                     IF a \in linked[u] THEN lastOut[u][a] ELSE now + 1]]
    /\ UNCHANGED <<linked, cache, call>>

VerifyNext(c) ==
    \/ \E u \in User \cup {NoUser}, a \in Address : Verify(c, u, a)
    \/ CacheHit(c) \/ CacheMiss(c)
    \/ PrivyAnswers(c) \/ AnswerArrives(c) \/ VerifyThrows(c)

VerifierNext ==
    \/ \E c \in Call : VerifyNext(c)
    \/ \E u \in User, a \in Address : Relink(u, a)
    \/ TimeFlies

VerifierSpec == VerifierInit /\ [][VerifierNext]_verifierVars

-----------------------------------------------------------------------------

(* Entries and calls are what the code makes them, and an entry never       *)
(* outlives its minute.                                                     *)
VerifierTypeOK ==
    /\ now \in 0..MaxNow
    /\ linked \in [User -> SUBSET Address]
    /\ cache \in [User -> CacheEntry]
    /\ \A u \in User : cache[u].expiresAt <= now + CacheTtl
    /\ \A c \in Call :
          /\ call[c].step \in {"idle", "checking", "asking", "told", "ok", "refused"}
          /\ call[c].step \in {"asking", "told"} => now <= call[c].since + Latency

(***************************************************************************)
(* A verdict is never older than the minute of the cache and one call to   *)
(* Privy: whatever calls overlap and however their answers arrive, at the  *)
(* moment a wallet is accepted (refused) it was linked (not linked) to     *)
(* this user within that time.                                             *)
(***************************************************************************)
VerdictIsRecent ==
    [][\A c \in Call : UnderWay(c) /\ Verdict(c)' =>
          LET last == IF call'[c].step = "ok" THEN lastIn ELSE lastOut IN
          last[call[c].user][call[c].address] > now - CacheTtl - Latency]_verifierVars
=============================================================================
