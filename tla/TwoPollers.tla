---------------------------- MODULE TwoPollers -----------------------------
(***************************************************************************)
(* Two run_queries of the same Unity host in two client sessions of one    *)
(* plugin process: each is a UnityPoller with its own UnitySession (pc,    *)
(* self.timestamps, query, results, walk), and both share the array's      *)
(* metric listing and the host's state file unity_timestamps.json.         *)
(* Sessions interleave step by step.  A process crash, which ends both,    *)
(* is left to UnityPoller.                                                 *)
(***************************************************************************)
EXTENDS Integers

CONSTANTS
    Paths, Tables, PathOf, Fields, TableFields, ParamOf, RowKeys, InnerKeys,
    Samples, PageSize, MaxTs, CountCap, Retention, CrashInSave,
    None, NoValues, NoEntry, Absent, Corrupt

VARIABLES
    series, clock, disk, delivered,                   \* shared
    pc1, mem1, qry1, res1, scan1, reply1, folded1,    \* session 1
    pc2, mem2, qry2, res2, scan2, reply2, folded2     \* session 2

session1 == <<pc1, mem1, qry1, res1, scan1, reply1, folded1>>
session2 == <<pc2, mem2, qry2, res2, scan2, reply2, folded2>>
vars == <<series, clock, disk, delivered, session1, session2>>

S1 == INSTANCE UnityPoller WITH pc <- pc1, mem <- mem1, qry <- qry1, res <- res1,
                                scan <- scan1, reply <- reply1, folded <- folded1
S2 == INSTANCE UnityPoller WITH pc <- pc2, mem <- mem2, qry <- qry2, res <- res2,
                                scan <- scan2, reply <- reply2, folded <- folded2

Init == S1!Init /\ S2!Init

Next ==
    \/ S1!Poller /\ UNCHANGED session2
    \/ S2!Poller /\ UNCHANGED session1
    \/ \E p \in Paths : (S1!Sample(p) \/ S1!Expire(p)) /\ UNCHANGED session2

Spec == Init /\ [][Next]_vars

(* No sample is averaged into two successful replies for the host, also    *)
(* when two sessions poll it at once (spec section 5: independent sessions *)
(* share no mutable state but the session registry).  Each UnitySession    *)
(* reads unity_timestamps.json when it starts and overwrites it when it    *)
(* saves, so the later save can put back a cursor the other one passed.    *)
SharedDeliveredOnce == S1!DeliveredOnce
=============================================================================
