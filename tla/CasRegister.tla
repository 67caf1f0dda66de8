---------------------------- MODULE CasRegister ----------------------------
(***************************************************************************)
(* What the registry file promises the clients of one Store: a register    *)
(* with compare-and-set.  A call that reports "saved" replaced the value   *)
(* it named by the value it carried, once, at one instant between its      *)
(* request and its answer; a call that reports anything else replaced      *)
(* nothing, unless the process died before it could answer.                *)
(*                                                                         *)
(* A power loss may bring back a value the register had since it was last  *)
(* settled, never a mixture and never a value it did not have.             *)
(***************************************************************************)
CONSTANTS
    Clients,
    Values,    \* what the register can hold
    Wishes,    \* what a client may ask to store
    Blank,     \* what it may hold before a first value is established
    None       \* no request

VARIABLES
    value,     \* the register; a member of Blank before anything is stored
    settled,   \* the values a power loss may leave
    stage,     \* stage[c]: "idle", "asked", or "done" once c's value is in
    ask,       \* ask[c]: the value wanted and the value expected, None while idle
    answer     \* answer[c]: "none" while c waits, "saved" or "kept"

vars == <<value, settled, stage, ask, answer>>

Init ==
    /\ value \in Values \cup Blank
    /\ settled = {value}
    /\ stage = [c \in Clients |-> "idle"]
    /\ ask = [c \in Clients |-> None]
    /\ answer = [c \in Clients |-> "none"]

\* A first value is established in a register that holds none.
Establish ==
    /\ value \in Blank
    /\ value' \in Values \cup Blank
    /\ settled' = settled \cup {value'}
    /\ UNCHANGED <<stage, ask, answer>>

Ask(c, r) ==
    /\ stage[c] = "idle"
    /\ stage' = [stage EXCEPT ![c] = "asked"]
    /\ ask' = [ask EXCEPT ![c] = r]
    /\ answer' = [answer EXCEPT ![c] = "none"]
    /\ UNCHANGED <<value, settled>>

Commit(c) ==
    /\ stage[c] = "asked"
    /\ value = ask[c].exp
    /\ ask[c].want \in Values
    /\ value' = ask[c].want
    /\ settled' = settled \cup {value'}
    /\ stage' = [stage EXCEPT ![c] = "done"]
    /\ UNCHANGED <<ask, answer>>

Settle ==
    /\ settled' = {value}
    /\ UNCHANGED <<value, stage, ask, answer>>

Answer(c) ==
    /\ stage[c] \in {"asked", "done"}
    /\ stage' = [stage EXCEPT ![c] = "idle"]
    /\ ask' = [ask EXCEPT ![c] = None]
    /\ answer' = [answer EXCEPT ![c] = IF stage[c] = "done" THEN "saved" ELSE "kept"]
    /\ UNCHANGED <<value, settled>>

\* The calls in gone die with their process and never answer.
Drop(gone) ==
    /\ stage' = [c \in Clients |-> IF c \in gone THEN "idle" ELSE stage[c]]
    /\ ask' = [c \in Clients |-> IF c \in gone THEN None ELSE ask[c]]
    /\ UNCHANGED answer

Crash(gone) == Drop(gone) /\ UNCHANGED <<value, settled>>

PowerLoss(gone) ==
    /\ Drop(gone)
    /\ \A c \in Clients \ gone : stage[c] = "idle"
    /\ value' \in settled
    /\ settled' = {value'}

Next ==
    \/ Establish
    \/ Settle
    \/ \E c \in Clients, r \in [want: Wishes, exp: Values] : Ask(c, r)
    \/ \E c \in Clients : Commit(c) \/ Answer(c)
    \/ \E gone \in SUBSET Clients : Crash(gone) \/ PowerLoss(gone)

Spec == Init /\ [][Next]_vars
=============================================================================
