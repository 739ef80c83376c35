------------------------------ MODULE MC_Level ------------------------------
(* Bounded inputs for the level parsers.                                   *)
EXTENDS Level

Names == {DEBUG, INFO, WARN, WARNING, ERROR, FATAL, UNKNOWN}

\* The bytes just outside 'A'..'Z' and 'a'..'z'.
Boundary == {64, 91, 96, 123}

\* Every case spelling of every name, every name with one byte replaced by
\* a boundary byte, every proper prefix, and every name with one byte more.
MCStrInputs ==
  UNION {CaseVariants(n) : n \in Names}
  \cup UNION {{[n EXCEPT ![i] = b] : i \in DOMAIN n, b \in Boundary} : n \in Names}
  \cup UNION {{[i \in 1..k |-> n[i]] : k \in 0..Len(n)-1} : n \in Names}
  \cup {Append(n, b) : n \in Names, b \in {65, 71, 97}}

MCIntInputs == -2..12
=============================================================================
