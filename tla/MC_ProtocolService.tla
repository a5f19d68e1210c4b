------------------------- MODULE MC_ProtocolService -------------------------
(* Two client connections and three references.  Input lists: empty,     *)
(* one table and two tables; config dicts: complete, without hostname,   *)
(* and without password.                                                 *)
EXTENDS ProtocolService

CONSTANTS c1, c2, r1, r2, r3, d1, d2, h1, u1, w1

MCConns == {c1, c2}
MCRefs == {r1, r2, r3}
MCRaws ==
    [k \in Kinds |->
        IF k = "inputs" THEN {<<>>, <<d1>>, <<d2, d1>>}
        ELSE {[hostname |-> h1, config |-> [username |-> u1, password |-> w1]],
              [config |-> [username |-> u1, password |-> w1]],
              [hostname |-> h1, config |-> [username |-> u1]]}]
=============================================================================
