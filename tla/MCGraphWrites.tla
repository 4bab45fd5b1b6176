---------------------------- MODULE MCGraphWrites ----------------------------
(* GraphWrites for TLC: one explicit write that links two pairs of three    *)
(* names; the operator's page may add the third edge meanwhile.             *)
EXTENDS GraphWrites

Fact(name) == [name |-> name, category |-> "FACT"]
MCExtraction ==
  {[items |-> <<Fact("x"), Fact("y"), Fact("z")>>,
    links |-> <<<<"x", "y">>, <<"y", "z">>>>]}
=============================================================================
