------------------------------ MODULE MCKeyAdoption -----------------------------
(* A key over three providers and two models: collisions, Star, models        *)
(* Bifrost does not list, models without a card or with an unfit one.        *)
EXTENDS KeyLedger, TLC

CONSTANTS a, b

MCProvs == 1 .. 3
MCNames == {a, b}

Cards(none, unfit) ==
    [x \in MCProvs \X MCNames |->
        IF x \in none THEN "none" ELSE IF x \in unfit THEN "unfit" ELSE "fit"]

W(all, rows, none, unfit, hidden, off) ==
    [all |-> all, rows |-> rows, cards |-> Cards(none, unfit), off |-> off,
     disc |-> ((MCProvs \ off) \X MCNames) \ hidden, inactive |-> FALSE, differs |-> FALSE]

\* Models not listed, beside Star too; an empty row; nothing.
MCChanges ==
    { W(FALSE, (1 :> {a, Star}) @@ (2 :> {a}) @@ (3 :> {b}), {}, {<<3, b>>}, {<<1, a>>}, {}),
      W(FALSE, (1 :> {}) @@ (2 :> {a}), {}, {}, {}, {}),
      W(FALSE, <<>>, {}, {}, {}, {}) }

MCWorlds == MCChanges \cup
    { \* one model through three providers, another through two
      W(FALSE, (1 :> {a}) @@ (2 :> {a, b}) @@ (3 :> {a, b}), {}, {}, {}, {}),
      \* every model of one provider, a disabled one, one without a card
      W(FALSE, (1 :> {Star}) @@ (2 :> {a, b}) @@ (3 :> {b}), {<<2, a>>}, {}, {}, {3}),
      \* every provider, with and without rows
      W(TRUE, (2 :> {a}), {<<1, b>>}, {}, {}, {}),
      W(TRUE, (1 :> {Star}) @@ (2 :> {a, b}), {}, {}, {<<2, b>>}, {}),
      \* nothing Bifrost lists, an inactive key, one whose list differs
      W(FALSE, (1 :> {a, b}), {}, {}, {}, {1}),
      [W(FALSE, (1 :> {a}) @@ (2 :> {Star}), {}, {}, {}, {}) EXCEPT !.inactive = TRUE],
      [W(FALSE, (1 :> {a}) @@ (3 :> {b}), {}, {}, {}, {}) EXCEPT !.differs = TRUE],
      W(FALSE, (1 :> {a}) @@ (2 :> {b}), {}, {}, {}, {}) }

=============================================================================
