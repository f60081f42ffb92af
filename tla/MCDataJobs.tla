----------------------------- MODULE MCDataJobs -----------------------------
(* Instances of DataJobs for TLC: what each request asks for. *)
EXTENDS DataJobs

CONSTANTS e1, e2, i1, v1, d1

MCKindOf == [op \in Op |-> CASE op \in {e1, e2} -> "export"
                             [] op = i1         -> "import"
                             [] op = v1         -> "vacuum"]

\* The options of an import make its combinations with two others too many.
MayAsk(op) ==
  LET asked == {o \in Op : pc[o] # "idle"}
  IN  i1 \in asked \cup {op} => Cardinality(asked) <= 1

ImportBesideOne == GoOn \/ \E op \in Op : MayAsk(op) /\ Accept(op)

MCSpec == Init /\ [][ImportBesideOne]_vars /\ Fairness
=============================================================================
