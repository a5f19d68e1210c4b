---------------------------- MODULE CursorStore ----------------------------
(***************************************************************************)
(* What the per-host state file unity_timestamps.json promises its         *)
(* readers (spec: the Metric State Record and its Monotonicity rule),      *)
(* stated without pages, sessions or rows: for every metric path a stored  *)
(* cursor, and the samples handed out so far.  One commit moves every      *)
(* cursor forward (or leaves it) and hands out samples that lie above the  *)
(* old cursor and at or below the new one, so nothing is handed out twice. *)
(* The cursor of a path with no number stored yet is 0.                   *)
(***************************************************************************)
EXTENDS Naturals

CONSTANTS
    Paths,   \* metric paths
    MaxTs    \* the last timestamp a path can reach

VARIABLES
    stored,  \* [Paths -> 0..MaxTs]: the committed cursor of each path
    sent     \* [Paths -> [1..MaxTs -> Nat]]: how often each sample was handed out

cvars == <<stored, sent>>

\* the samples a commit from cursor old to cursor new may hand out
Window(old, new) == {ts \in 1..MaxTs : old < ts /\ ts <= new}

Init ==
    /\ stored = [p \in Paths |-> 0]
    /\ sent = [p \in Paths |-> [ts \in 1..MaxTs |-> 0]]

\* one save: new cursors, and per path the samples it hands out
Commit(new, got) ==
    /\ \A p \in Paths : new[p] >= stored[p] /\ got[p] \subseteq Window(stored[p], new[p])
    /\ stored' = new
    /\ sent' = [p \in Paths |-> [ts \in 1..MaxTs |->
                   IF ts \in got[p] THEN sent[p][ts] + 1 ELSE sent[p][ts]]]

Next ==
    \E new \in [Paths -> 0..MaxTs], got \in [Paths -> SUBSET (1..MaxTs)] :
        Commit(new, got)

Spec == Init /\ [][Next]_cvars

=============================================================================
