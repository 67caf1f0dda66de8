----------------------------- MODULE MCPanelSession -----------------------------
(* PanelSession on a managed key and one not managed or not there yet, with two *)
(* policies; what runs beside the proofs check.                                 *)
EXTENDS PanelSession
CONSTANTS k1, k2, p, q

MCKeys == {k1, k2}
MCPolicies == {p, q}
MCFirst == {k1 :> p @@ k2 :> Gone}
MCPages == {k1, Elsewhere}
MCForeigns == {<<k1, q>>}

\* Every operation ends, whatever its calls answer (operation's finally).
BusyEnds == Busy ~> ~Busy

\* "A managed key opens read-first; Edit selection opens the composer for that key (an unpublished
\* draft keeps it open)" (App.tsx): the composer is open only for an operator who asked for it.
ReadFirst == ManagedAt(held, page) /\ KeyEditing => asked

\* "Reload before another write" (commit), without exception: no key is published while the
\* outcome of an earlier save is unknown.  A reload and two saves refute it.
ReloadsBeforePublishing == CanPublish => doubt = 0
=============================================================================
