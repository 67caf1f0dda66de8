--------------------------- MODULE MCRegistryStore ---------------------------
(* Constants of the RegistryStore runs.                                     *)
EXTENDS RegistryStore

CONSTANTS seed, plain, unclear, huge

\* unclear withholds an alias the others serve.
MCAmbiguous == [c \in Revisions |-> IF c = unclear THEN Aliases ELSE {}]
=============================================================================
