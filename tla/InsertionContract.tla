-------------------------- MODULE InsertionContract -------------------------
(***************************************************************************)
(* ADR 0003 as an automaton per utterance: what "transactional insertion"  *)
(* promises about one text, whatever threads, locks and bounds implement   *)
(* it.  A text is pasted at most once, only while it is being attempted;   *)
(* it ends proven, or kept for recovery until it is dismissed or expires;  *)
(* and nothing that was settled starts over unless its memory has expired. *)
(***************************************************************************)
EXTENDS Integers

CONSTANT Ids

VARIABLES
    phase,      \* phase[id]
    pastes      \* pastes[id]: paste attempts since the id was staged

contractVars == <<phase, pastes>>

Moves ==
    {<<"unknown", "staged">>,
     <<"staged", "pasting">>,
     <<"staged", "kept">>, <<"staged", "closed">>,      \* refused
     <<"pasting", "proven">>,
     <<"pasting", "kept">>, <<"pasting", "closed">>,    \* unproven
     <<"kept", "closed">>,                              \* dismissed, expired
     <<"proven", "unknown">>, <<"closed", "unknown">>}  \* memory expired

ContractInit ==
    /\ phase = [id \in Ids |-> "unknown"]
    /\ pastes = [id \in Ids |-> 0]

\* Some ids advance along a move; staging starts the count of pastes.
Advance ==
    /\ \A id \in Ids :
        /\ phase'[id] # phase[id] => <<phase[id], phase'[id]>> \in Moves
        /\ pastes'[id] = IF phase[id] = "unknown" /\ phase'[id] = "staged"
                         THEN 0 ELSE pastes[id]

\* The one paste of an attempt.
PasteOnce(id) ==
    /\ phase[id] = "pasting"
    /\ pastes[id] = 0
    /\ pastes' = [pastes EXCEPT ![id] = 1]
    /\ UNCHANGED phase

ContractNext == Advance \/ \E id \in Ids : PasteOnce(id)

ContractSpec == ContractInit /\ [][ContractNext]_contractVars

=============================================================================
