------------------------------- MODULE MCDriver -------------------------------
(* All ELFs of up to MaxPrograms programs with distinct names.             *)
EXTENDS Driver

CONSTANT MaxPrograms

AllElfs ==
  {e \in UNION {[1 .. n -> Program] : n \in 0 .. MaxPrograms} :
     \A j, m \in 1 .. Len(e) : e[j].name = e[m].name => j = m}
=============================================================================
