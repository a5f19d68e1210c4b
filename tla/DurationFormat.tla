--------------------------- MODULE DurationFormat ---------------------------
(***************************************************************************)
(* The duration rendering of UnitySession.fill_in_row                      *)
(* (src/python/DELL_EMC_Unity.py:207-226): a leaf matching                 *)
(* r'\d{1,5}:\d{2}:\d{2}.\d{3}' is split on ':' into hours, minutes and    *)
(* seconds and rendered as the comma-separated list of its non-zero        *)
(* components.  A duration is a record [h, m, ms] (seconds kept in         *)
(* thousandths, as the three-digit fraction gives them); the rendered      *)
(* string is the sequence of its <<unit, amount>> pieces, in order.        *)
(***************************************************************************)
EXTENDS Integers, Sequences

\* mutant: "(int(fields[0]) / 24)" without "% 365"
DaysUnwrapped(h) == h \div 24

\* "years = int(fields[0]) / 24 / 365": Python 2 integer division
Years(h) == (h \div 24) \div 365

\* "days = (int(fields[0]) / 24) % 365"
Days(h) == (h \div 24) % 365

\* "hours = int(fields[0]) % 24"
Hours(h) == h % 24

\* the "if years: ... if seconds: ..." chain: each non-zero component is
\* appended, with ', ' before it when the string is not empty yet
DurationParts(d) ==
    SelectSeq(<< <<"years", Years(d.h)>>, <<"days", Days(d.h)>>,
                 <<"hours", Hours(d.h)>>, <<"minutes", d.m>>,
                 <<"seconds", d.ms>> >>,
              LAMBDA piece : piece[2] # 0)

\* the amount rendered for one unit, 0 when the unit is left out
Amount(parts, unit) ==
    IF \E i \in DOMAIN parts : parts[i][1] = unit
    THEN parts[CHOOSE i \in DOMAIN parts : parts[i][1] = unit][2]
    ELSE 0
=============================================================================
