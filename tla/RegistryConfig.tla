--------------------------- MODULE RegistryConfig ---------------------------
(***************************************************************************)
(* What a registry file means: Compile in internal/registry/config.go.     *)
(*                                                                         *)
(* A configuration has a table of accesses (a model offered by a           *)
(* provider), groups of accesses and one policy per virtual key.  Compile  *)
(* either refuses the file or gives each key a view: the routes the guard  *)
(* accepts, and the aliases it withholds because nobody chose an access.   *)
(*                                                                         *)
(* The identity of an access (alias, provider, passthrough) is fixed here; *)
(* edits switch accesses on and off and move them between groups and keys. *)
(***************************************************************************)
EXTENDS Naturals, FiniteSets

CONSTANTS
    Models,       \* registry IDs of the accesses
    Aliases, Providers,
    Alias,        \* Alias[m]: the common name of access m
    Provider,     \* Provider[m]: who serves it
    Passthrough,  \* accesses whose upstream a Bifrost routing rule resolves
    Groups,       \* group IDs
    Keys,         \* virtual key IDs
    None

Namings == {"model", "provider/model", "both"}
Selectors == [added: SUBSET Models, excluded: SUBSET Models]

\* live: Enabled and (Verified or Configured).  A filter without sources is no filter.
\* ceiling: NativeModelIDs, what an adopted key had when it was adopted.
GroupRecords == [ids: SUBSET Models, sources: SUBSET Providers, exclude: SUBSET Models]
Policies ==
    [on: BOOLEAN, naming: Namings, groups: SUBSET Groups, added: SUBSET Models,
     excluded: SUBSET Models, sources: SUBSET Providers,
     select: [Aliases -> Selectors \cup {None}], prefer: [Aliases -> Models \cup {None}],
     adopted: BOOLEAN, ceiling: SUBSET Models]
Configs ==
    [live: SUBSET Models, groups: [Groups -> GroupRecords],
     policies: [Keys -> Policies \cup {None}]]

ASSUME ConfigAssumption ==
    /\ Alias \in [Models -> Aliases]
    /\ Provider \in [Models -> Providers]
    /\ Passthrough \subseteq Models
    /\ None \notin Selectors
    /\ None \notin Policies
    /\ None \notin Models

\* Compile refuses two accesses with one native name.
ASSUME NativeNamesAssumption ==
    \A m, n \in Models : Alias[m] = Alias[n] /\ Provider[m] = Provider[n] => m = n

-----------------------------------------------------------------------------
(* From selectors to accesses.                                             *)

Offering(a) == {m \in Models : Alias[m] = a}

Members(c, g) ==
    LET grp == c.groups[g]
    IN  (grp.ids \cup {m \in Models : Provider[m] \in grp.sources}) \ grp.exclude

Selected(c, p) == ((UNION {Members(c, g) : g \in p.groups}) \cup p.added) \ p.excluded

Eligible(c, p) ==
    {m \in Selected(c, p) : /\ m \in c.live
                            /\ p.sources = {} \/ Provider[m] \in p.sources
                            /\ p.adopted => m \in p.ceiling}

\* byAlias: what the key could be served a for.
Offers(c, p, a) == Eligible(c, p) \cap Offering(a)

Several(S) == \E m, n \in S : m # n

\* Fail closed for this alias only.
Withheld(c, p) == {a \in Aliases : p.select[a] = None /\ Several(Offers(c, p, a))}

\* Mutant of Chosen: a selection keeps the added accesses only.
AddedOnly(c, p, a) ==
    IF p.select[a] = None
    THEN IF a \in Withheld(c, p) THEN {} ELSE Offers(c, p, a)
    ELSE p.select[a].added \ p.select[a].excluded

Chosen(c, p, a) ==
    IF p.select[a] = None
    THEN IF a \in Withheld(c, p) THEN {} ELSE Offers(c, p, a)
    ELSE (Offers(c, p, a) \cup p.select[a].added) \ p.select[a].excluded

\* An alias with no eligible access is not looked at, whatever its selection says.
Exposed(c, p) == UNION {Chosen(c, p, a) : a \in {b \in Aliases : Offers(c, p, b) # {}}}

-----------------------------------------------------------------------------
(* What Compile refuses.                                                   *)

GroupOk(grp) == grp.ids # {} \/ grp.sources # {}

\* Mutant of SelectionOk: a selection may retain nothing.
EmptyAllowed(c, p, a) ==
    LET sel == p.select[a]
    IN  sel # None =>
          /\ sel.added \cup sel.excluded \subseteq Offering(a)
          /\ Offers(c, p, a) # {} => sel.added \subseteq Offers(c, p, a)

SelectionOk(c, p, a) ==
    LET sel == p.select[a]
    IN  sel # None =>
          /\ sel.added \cup sel.excluded \subseteq Offering(a)
          /\ Offers(c, p, a) # {} =>
               sel.added \subseteq Offers(c, p, a) /\ Chosen(c, p, a) # {}

\* A preference for a withheld alias is skipped: it does not choose the access.
PreferOk(c, p, a) ==
    \/ p.prefer[a] = None
    \/ a \in Withheld(c, p)
    \/ p.prefer[a] \in Exposed(c, p) \cap Offering(a)

PolicyOk(c, p) ==
    /\ p.adopted <=> (p.ceiling # {})
    /\ \A a \in Aliases : SelectionOk(c, p, a) /\ PreferOk(c, p, a)

Managed(c) == {k \in Keys : c.policies[k] # None}

Compiles(c) ==
    /\ \A g \in Groups : GroupOk(c.groups[g])
    /\ \A k \in Managed(c) : PolicyOk(c, c.policies[k])

\* Mutant of Ambiguities: switched-off policies are not looked at.
AmbiguitiesOfEnabled(c) ==
    UNION {{k} \X Withheld(c, c.policies[k]) : k \in {j \in Managed(c) : c.policies[j].on}}

Ambiguities(c) ==
    UNION {{k} \X Withheld(c, c.policies[k]) : k \in Managed(c)}

\* Snapshot.NewAmbiguity: saves may keep what prev withheld, not add to it.
NoNewAmbiguity(c, prev) == Ambiguities(c) \subseteq Ambiguities(prev)

-----------------------------------------------------------------------------
(* The routes of a view: a name, and the accesses it can reach.            *)

Qualified(c, p) ==
    IF p.naming = "model" THEN {}
    ELSE {[bare |-> FALSE, alias |-> Alias[m], via |-> {m}] : m \in Exposed(c, p) \ Passthrough}

\* A bare name with several accesses goes to the preferred one, else it is shared.
Target(c, p, a) ==
    LET ms == Exposed(c, p) \cap Offering(a)
    IN  IF Several(ms) /\ p.prefer[a] # None THEN {p.prefer[a]} ELSE ms

Bare(c, p) ==
    IF p.naming = "provider/model" THEN {}
    ELSE {[bare |-> TRUE, alias |-> a, via |-> Target(c, p, a)] :
            a \in {b \in Aliases : Exposed(c, p) \cap Offering(b) # {}}}

Routes(c, p) == IF p.on THEN Qualified(c, p) \cup Bare(c, p) ELSE {}

\* The allowlist Plan asks Bifrost to put on the key.
Allowlist(c, p) == UNION {r.via : r \in Routes(c, p)}
=============================================================================
