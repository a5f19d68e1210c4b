------------------------ MODULE MC_ResourceListing ------------------------
(* Entries with members "a" and "b", pools named by "name"; member values *)
(* that exercise every branch of follow_path and fill_in_row: None, a     *)
(* number, a duration, non-ASCII text, an empty and a two-element list,   *)
(* and an object.                                                          *)
EXTENDS ResourceListing

CONSTANTS f1, f2, f3, f4

MCKeys == {"a", "b", "name"}
MCKeyOrder == <<"name", "a", "b">>
\* "x" and "n" stand for one ASCII and one non-ASCII character; longer
\* words are spelled with "x"
MCWords == MCKeys \cup {"", "x", "n", "dur", "bad"}
MCCharsOf == [w \in MCWords |->
                 CASE w = ""                      -> <<>>
                   [] w \in {"a", "b", "x", "n"}  -> <<w>>
                   [] OTHER                       -> <<"x", "x">>]
\* "26:30:15.500", and a leaf the regex matches but float() rejects
MCDurationOf == [w \in MCWords |->
                    CASE w = "dur" -> [h |-> 26, m |-> 30, ms |-> 15500]
                      [] w = "bad" -> BadSeconds
                      [] OTHER     -> NoDuration]
MCParamOf == (f1 :> <<"a">>) @@ (f2 :> <<"a", "*">>) @@ (f3 :> <<"b">>) @@ (f4 :> <<"name">>)
MCResourcePaths == {<<"T">>, <<"T", "a">>, <<"T", "a", "*">>, <<"T", "a", "*", "a">>}
MCPoolPaths == {<<"a">>, <<"a", "*">>}
MCValues == {Null, Num(3), Str("dur"), Str("n"),
             Arr(<<>>), Arr(<<Str("x"), Str("dur")>>),
             Obj("a" :> Num(3))}
MCPoolNames == {Str("x")}
MCErrorTexts == {"", "x"}

\* every hour count the five-digit field of the duration regex can hold,
\* with minutes and seconds zero or not
DurationLeaves == [h : 0..99999, m : {0, 30}, ms : {0, 15500}]

\* the split is exact for every leaf: a constant, which TLC evaluates once
SplitExactForAllLeaves ==
    \A leaf \in DurationLeaves :
        LET p == DurationParts(leaf) IN
        /\ Amount(p, "years") * 365 * 24 + Amount(p, "days") * 24 + Amount(p, "hours") = leaf.h
        /\ Amount(p, "days") < 365 /\ Amount(p, "hours") < 24
        /\ Amount(p, "minutes") = leaf.m /\ Amount(p, "seconds") = leaf.ms

(* The rendered duration loses nothing and carries nothing twice: for     *)
(* every leaf, its years, days and hours add back up to the leaf's hour   *)
(* field, days stay below 365 and hours below 24, and minutes and seconds *)
(* are those of the leaf (fill_in_row's years / days / hours split of     *)
(* int(fields[0])).  Stated of every state in which fill_in_row can run.  *)
DurationSplitExact == pc \in {"fetch", "entries", "done"} => SplitExactForAllLeaves

=============================================================================
