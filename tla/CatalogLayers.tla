---------------------------- MODULE CatalogLayers ----------------------------
(***************************************************************************)
(* What the catalogue promises its operator, who edits it while sources    *)
(* are refreshed: every change takes place at one instant, on the          *)
(* catalogue of that instant.                                              *)
(*                                                                         *)
(* Corrections and links an operator chose are the operator's: no refresh  *)
(* touches them, however long it ran.  A refresh may link what nobody      *)
(* linked, once; a source that fails leaves the facts it told before.      *)
(***************************************************************************)
CONSTANTS Accesses, References, Targets, Sources, Values, None

VARIABLES
    known,      \* references there are
    corrected,  \* corrected[t]: the operator's value for t
    link,       \* link[a]: the reference access a is described by
    chosen,     \* accesses whose link the operator chose
    told,       \* told[s]: the facts of source s
    failed      \* failed[s]: its last attempt failed

vars == <<known, corrected, link, chosen, told, failed>>

Init ==
    /\ known = {}
    /\ corrected = [t \in Targets |-> None]
    /\ link = [a \in Accesses |-> None]
    /\ chosen = {}
    /\ failed = [s \in Sources |-> FALSE]

Correct(t, v) ==
    /\ corrected' = [corrected EXCEPT ![t] = v]
    /\ UNCHANGED <<known, link, chosen, told, failed>>

Choose(a, r) ==
    /\ r \in known \cup {None}
    /\ link' = [link EXCEPT ![a] = r]
    /\ chosen' = chosen \cup {a}
    /\ UNCHANGED <<known, corrected, told, failed>>

\* The operator writes a reference of their own.
Add(r, t, v) ==
    /\ r \in References \ known
    /\ known' = known \cup {r}
    /\ corrected' = [corrected EXCEPT ![t] = v]
    /\ UNCHANGED <<link, chosen, told, failed>>

MayLink(a, links) == links /\ link[a] = None /\ a \notin chosen

\* The sources in good answer, those in bad do not; links: one that names references answers.
Refresh(good, bad, links) ==
    /\ failed' = [s \in Sources |-> IF s \in good THEN FALSE
                                    ELSE IF s \in bad THEN TRUE ELSE failed[s]]
    /\ UNCHANGED <<corrected, chosen>>
    /\ known \subseteq known' /\ known' \subseteq References
    /\ link' \in [Accesses -> References \cup {None}]
    /\ \A a \in Accesses : \/ link'[a] = link[a]
                           \/ MayLink(a, links) /\ link'[a] \in known'
    /\ \A s \in Sources \ good : told'[s] = told[s]

Next ==
    \/ \E t \in Targets, v \in Values \cup {None} : Correct(t, v)
    \/ \E a \in Accesses, r \in References \cup {None} : Choose(a, r)
    \/ \E r \in References, t \in Targets, v \in Values : Add(r, t, v)
    \/ \E good, bad \in SUBSET Sources :
            good \cap bad = {} /\ Refresh(good, bad, "models.dev" \in good)

Spec == Init /\ [][Next]_vars
=============================================================================
