---------------------------- MODULE ConfigEdits ----------------------------
(***************************************************************************)
(* A registry over a series of saves: each edit is compiled and compared   *)
(* with the published configuration before it replaces it.  The first      *)
(* configuration is a file read at start, which Compile accepts even when  *)
(* it withholds aliases (files written before access selection existed).   *)
(***************************************************************************)
EXTENDS RegistryConfig

CONSTANTS
    StartFiles,     \* the files the registry may be started on
    MaxEdits   \* bound on saved edits

ASSUME EditAssumption ==
    /\ StartFiles \subseteq Configs
    /\ MaxEdits \in Nat

VARIABLES
    saved,  \* the published configuration
    edits

editsVars == <<saved, edits>>

EditsTypeOK == saved \in Configs /\ edits \in Nat

EditsInit ==
    /\ saved \in {c \in StartFiles : Compiles(c)}
    /\ edits = 0

Toggle(S, x) == IF x \in S THEN S \ {x} ELSE S \cup {x}

\* Store.save on the published revision: Compile, then NewAmbiguity.
Save(c) ==
    /\ edits < MaxEdits
    /\ c # saved
    /\ Compiles(c)
    /\ NoNewAmbiguity(c, saved)
    /\ saved' = c
    /\ edits' = edits + 1

SwitchModel(m) == Save([saved EXCEPT !.live = Toggle(@, m)])

EditGroup(g) ==
    \/ \E m \in Models : \/ Save([saved EXCEPT !.groups[g].ids = Toggle(@, m)])
                         \/ Save([saved EXCEPT !.groups[g].exclude = Toggle(@, m)])
    \/ \E v \in Providers : Save([saved EXCEPT !.groups[g].sources = Toggle(@, v)])

EditSelectors(k) ==
    /\ k \in Managed(saved)
    /\ \/ \E g \in Groups : Save([saved EXCEPT !.policies[k].groups = Toggle(@, g)])
       \/ \E m \in Models : \/ Save([saved EXCEPT !.policies[k].added = Toggle(@, m)])
                            \/ Save([saved EXCEPT !.policies[k].excluded = Toggle(@, m)])
       \/ \E v \in Providers : Save([saved EXCEPT !.policies[k].sources = Toggle(@, v)])

\* An access selection is a key's choice for one alias; None takes it back.
EditAccess(k) ==
    /\ k \in Managed(saved)
    /\ \E a \in Aliases :
         \/ \E sel \in [added: SUBSET Offering(a), excluded: SUBSET Offering(a)] \cup {None} :
              Save([saved EXCEPT !.policies[k].select[a] = sel])
         \/ \E m \in Offering(a) \cup {None} : Save([saved EXCEPT !.policies[k].prefer[a] = m])

EditNaming(k) ==
    /\ k \in Managed(saved)
    /\ \/ Save([saved EXCEPT !.policies[k].on = ~@])
       \/ \E n \in Namings : Save([saved EXCEPT !.policies[k].naming = n])

\* Mutant of Adoptable: an alias a routing rule owns is taken for a direct access.
AdoptableAliases(S) ==
    /\ S # {}
    /\ S \subseteq saved.live
    /\ \A m, n \in S : Alias[m] = Alias[n] => m = n

\* Adoption binds a native key to the accesses it has today: direct ones only, one
\* per alias (adoptionSelection); the other accesses of those aliases are excluded.
Adoptable(S) ==
    /\ S # {}
    /\ S \subseteq saved.live \ Passthrough
    /\ \A m, n \in S : Alias[m] = Alias[n] => m = n

Adopt(k, S) ==
    /\ k \notin Managed(saved)
    /\ Adoptable(S)
    /\ Save([saved EXCEPT !.policies[k] =
         [on |-> TRUE, naming |-> "provider/model", groups |-> {}, added |-> S, excluded |-> {},
          sources |-> {}, select |-> [a \in Aliases |->
             IF S \cap Offering(a) # {} /\ Offering(a) \ S # {}
             THEN [added |-> {}, excluded |-> Offering(a) \ S] ELSE None],
          prefer |-> [a \in Aliases |-> None], adopted |-> TRUE, ceiling |-> S]])

EditsNext ==
    \/ \E m \in Models : SwitchModel(m)
    \/ \E g \in Groups : EditGroup(g)
    \/ \E k \in Keys : EditSelectors(k) \/ EditAccess(k) \/ EditNaming(k)
    \/ \E k \in Keys, S \in SUBSET Models : Adopt(k, S)

EditsSpec == EditsInit /\ [][EditsNext]_editsVars

-----------------------------------------------------------------------------
(* Safety.                                                                 *)

\* Why k may reach m, read off the file without the stages of Compile: a group or an
\* addition brings m in, and nothing takes it out.
Granted(c, p, m) ==
    /\ m \in c.live
    /\ \/ m \in p.added
       \/ \E g \in p.groups :
            /\ m \in c.groups[g].ids \/ Provider[m] \in c.groups[g].sources
            /\ m \notin c.groups[g].exclude
    /\ m \notin p.excluded
    /\ p.sources # {} => Provider[m] \in p.sources
    /\ p.adopted => m \in p.ceiling
    /\ p.select[Alias[m]] # None => m \notin p.select[Alias[m]].excluded

\* No name a key may call reaches an access its policy does not grant, under any
\* naming, preference or selection, and no route is empty (Compile, config.go).
RoutesWithinGrant ==
    \A k \in Managed(saved) :
        LET p == saved.policies[k]
        IN  \A r \in Routes(saved, p) :
                /\ p.on
                /\ r.via # {}
                /\ \A m \in r.via : Alias[m] = r.alias /\ Granted(saved, p, m)

\* A model the key is entitled to is served or reported as withheld: it never just
\* disappears from the view (the empty-selection refusal in Compile).
NoSilentLoss ==
    \A k \in Managed(saved), a \in Aliases :
        LET p == saved.policies[k]
        IN  Offers(saved, p, a) # {} =>
                (a \in Withheld(saved, p)) # (Exposed(saved, p) \cap Offering(a) # {})

\* What a key may call is neither more nor less than its policy says: every name reaches granted
\* accesses only, and every model granted is served or reported as withheld (Compile).
NamesAreServed == RoutesWithinGrant /\ NoSilentLoss

\* A bare name spreads over several providers only when somebody chose so: the key
\* has an access selection for it and no preference (addShared in Compile).
SharedOnlyByChoice ==
    \A k \in Managed(saved) :
        LET p == saved.policies[k]
        IN  \A r \in Routes(saved, p) :
                Several(r.via) => p.select[r.alias] # None /\ p.prefer[r.alias] = None

\* An edit elsewhere cannot take a working model from a key: an access a key was served
\* and is still eligible for stays served unless that key's selection drops it
\* (NewAmbiguity refuses the save that would make its alias ambiguous).
ServiceIsKept ==
    [][\A k \in Managed(saved) \cap Managed(saved') :
         LET p == saved.policies[k]  q == saved'.policies[k]
         IN  \A m \in Exposed(saved, p) \cap Eligible(saved', q) :
                \/ m \in Exposed(saved', q)
                \/ q.select[Alias[m]] # None /\ m \in q.select[Alias[m]].excluded]_editsVars

\* Adoption changes nothing for the client of the key: it may call exactly the accesses
\* the native key had (adoptKey, adoptionSelection).
AdoptionPreserves ==
    [][\A k \in Managed(saved') \ Managed(saved) :
         Allowlist(saved', saved'.policies[k]) = saved'.policies[k].ceiling]_editsVars

\* The policy with a chosen for: the accesses of S and no other.
Keeping(p, a, S) == [p EXCEPT !.select[a] = [added |-> {}, excluded |-> Offering(a) \ S]]

Saveable(k, q) ==
    LET c == [saved EXCEPT !.policies[k] = q]
    IN  Compiles(c) /\ NoNewAmbiguity(c, saved)

\* How an ambiguous alias is repaired (CONTEXT of #53): keeping any of its accesses serves
\* exactly those, and the save is refused for one reason only, a stored preference for an access
\* that is not kept: it was skipped while the alias was withheld and counts again now.  Pointing
\* the preference at a kept access lifts the refusal, and the bare name then reaches that one.
ChoiceRepairs ==
    \A k \in Managed(saved) :
        LET p == saved.policies[k]
        IN  \A a \in Withheld(saved, p) : \A S \in (SUBSET Offers(saved, p, a)) \ {{}} :
                LET q == Keeping(p, a, S)
                IN  /\ Exposed(saved, q) \cap Offering(a) = S
                    /\ Saveable(k, q) <=> p.prefer[a] \in S \cup {None}
                    /\ \A m \in S : LET r == [q EXCEPT !.prefer[a] = m]
                                    IN  Saveable(k, r) /\ Target(saved, r, a) = {m}
=============================================================================
