--------------------------- MODULE MC_TwoPollers ---------------------------
(* Model-checking instance of TwoPollers: one metric path, two sub-       *)
(* resource keys, pages of two entries.                                    *)
EXTENDS TwoPollers, TLC

CONSTANTS p1, t1, t2, fsp, fval, fsp2, fval2, k1, k2

MCPaths == {p1}
MCTables == {t1}
MCPathOf == [t \in MCTables |-> p1]
MCTableFields == [t \in MCTables |-> IF t = t1 THEN {fsp, fval} ELSE {fsp2, fval2}]
MCFields == UNION {MCTableFields[t] : t \in MCTables}
MCParamOf == [f \in MCFields |-> IF f \in {fsp, fsp2} THEN "sp" ELSE "value"]
MCRowKeys == {k1, k2}
\* a sample with both storage processors, one with only k1, and one without
\* a 'values' member
MCSamples == {NoValues, [k \in {k1, k2} |-> 1], (k1 :> 1)}

\* only samples that carry every key: the runs about counts and pages
MCFullSamples == {[k \in {k1, k2} |-> 1]}
=============================================================================
