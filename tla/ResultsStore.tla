---------------------------- MODULE ResultsStore ----------------------------
(***************************************************************************)
(* backend/src/results.ts: the known result of each fixture, in memory and *)
(* written through to the results table, from which a restart reloads it.  *)
(* A scoreline is one value: feed and API set both counts or neither.      *)
(***************************************************************************)
CONSTANTS
    FixtureId,
    Scoreline,  \* the scorelines of the feed
    NilNil,     \* 0-0
    NoScore,    \* an event that carries no goals
    NoResult    \* a fixture without a known result

ASSUME ResultsConstants ==
    /\ NilNil \in Scoreline
    /\ NoScore \notin Scoreline

VARIABLES
    results,  \* the Map in memory
    table     \* the results table

Result == [score : Scoreline, final : BOOLEAN]
Event == [score : Scoreline \cup {NoScore}, final : BOOLEAN]

ASSUME NoResultAssumption == NoResult \notin Result

Final(f) == results[f] # NoResult /\ results[f].final

StoreInit ==
    /\ results = [f \in FixtureId |-> NoResult]
    /\ table = [f \in FixtureId |-> NoResult]

(* A late provisional event never downgrades; the mutant lets it.           *)
Downgrades_Never(f, e) == FALSE
Downgrades(f, e) == Final(f) /\ ~e.final

(* A status without any score says nothing; the mutant reads a 0-0 into it. *)
SaysNothing_Never(f, e) == FALSE
SaysNothing(f, e) == e.score = NoScore /\ results[f] = NoResult /\ ~e.final

(* The event's counts, else the known ones, else 0-0.  The mutants prefer *)
(* the known counts, and forget the last default.                         *)
Merged_KeepsKnown(f, e) ==
    [score |-> IF results[f] # NoResult THEN results[f].score
               ELSE IF e.score # NoScore THEN e.score ELSE NilNil,
     final |-> e.final]
Merged_NoDefault(f, e) ==
    [score |-> IF e.score = NoScore /\ results[f] # NoResult THEN results[f].score ELSE e.score,
     final |-> e.final]
Merged(f, e) ==
    [score |-> IF e.score # NoScore THEN e.score
               ELSE IF results[f] # NoResult THEN results[f].score ELSE NilNil,
     final |-> e.final]

(* Write-through; the mutant persists final results only. *)
Persist_FinalOnly(f, r) == IF r.final THEN [table EXCEPT ![f] = r] ELSE table
Persist(f, r) == [table EXCEPT ![f] = r]

(* apply: a result equal to the known one is not written again. *)
Apply(f, e) ==
    IF Downgrades(f, e) \/ SaysNothing(f, e) \/ Merged(f, e) = results[f]
    THEN UNCHANGED <<results, table>>
    ELSE /\ results' = [results EXCEPT ![f] = Merged(f, e)]
         /\ table' = Persist(f, Merged(f, e))

(* The constructor of a new process. *)
Reload ==
    /\ results' = table
    /\ UNCHANGED table

-----------------------------------------------------------------------------

StoreTypeOK ==
    /\ results \in [FixtureId -> Result \cup {NoResult}]
    /\ table \in [FixtureId -> Result \cup {NoResult}]

(* A restart finds in the table all the process knew. *)
Persisted == table = results

(***************************************************************************)
(* A final result stays final: no late event, no snapshot that was asked   *)
(* for earlier and no restart makes it provisional or unknown again.       *)
(***************************************************************************)
FinalsKept == \A f \in FixtureId : Final(f) => Final(f)'
FinalStaysFinal == [][FinalsKept]_<<results, table>>
=============================================================================
