---------------------------- MODULE UnityPoller ----------------------------
(***************************************************************************)
(* One Unity poller (src/python/DELL_EMC_Unity.py): UnityProtocol.         *)
(* run_queries driving UnitySession over historic-metric tables, the paged *)
(* walk of get_historic_metric_value against a metric listing that keeps   *)
(* growing while it is walked, and the per-host state file                 *)
(* unity_timestamps.json read in UnitySession.__init__ and rewritten by    *)
(* save_state.  The upstream API and a process crash are the environment.  *)
(***************************************************************************)
EXTENDS Integers, Sequences, SequencesExt, FiniteSets

CONSTANTS
    Paths,        \* metric paths: the CommandLine of a historic-metric command
    Tables,       \* data tables the orchestrator can query
    PathOf,       \* [Tables -> Paths]: inputs['DataTables'][..]['CommandLine']
    Fields,       \* data field ids
    TableFields,  \* [Tables -> SUBSET Fields]: the fields of each table
    ParamOf,      \* [Fields -> ParamNames]: inputs['DataFields'][..]['ParameterName']
    RowKeys,      \* the (sp, k) keys of a metric value
    InnerKeys,    \* the RowKeys whose inner key k is not None
    Samples,      \* the 'values' dictionaries the API can return, or NoValues
    PageSize,     \* entries per page of types/metricValue/instances
    MaxTs,        \* bound: the last timestamp the API produces for a path
    CountCap,     \* the literal of "count <= 5"
    Retention,    \* whether the API drops its oldest entries
    CrashInSave,  \* whether the process can die between open(.., 'w+') and the dump
    None, NoValues, NoEntry, Absent, Corrupt

ParamNames == {"sp", "key", "value", "name"}

ASSUME /\ PathOf \in [Tables -> Paths]
       /\ TableFields \in [Tables -> SUBSET Fields]
       /\ ParamOf \in [Fields -> ParamNames]
       /\ InnerKeys \subseteq RowKeys
       /\ PageSize \in Nat \ {0} /\ MaxTs \in Nat /\ CountCap \in Nat
       \* one field per ParameterName in a table, so that the dict
       \* {ParameterName: field} of run_queries loses nothing
       /\ \A t \in Tables : \A f, g \in TableFields[t] :
            ParamOf[f] = ParamOf[g] => f = g

VARIABLES
    series,     \* upstream: [Paths -> Seq(entry)], oldest first
    clock,      \* upstream: last timestamp issued per path
    disk,       \* unity_timestamps.json: Absent, Corrupt or [Paths -> Entry]
    pc,         \* where run_queries is
    mem,        \* self.timestamps of the live UnitySession
    qry,        \* the query of the running cycle: table -> requested fields
    res,        \* the table results computed so far
    scan,       \* locals of the running (or last) get_historic_metric_value
    reply,      \* what the last run_queries returned
    folded,     \* history: samples folded into rows in this cycle
    delivered   \* history: per sample, the replies it was folded into (capped)

vars == <<series, clock, disk, pc, mem, qry, res, scan, reply, folded, delivered>>
upstream == <<series, clock>>

Ts == 1..MaxTs
TsVal == {0, None} \cup Ts
Entry == [ts : Ts, vals : Samples]
Positive == {n \in Nat : n > 0}
Row == [key : RowKeys, fields : SUBSET Fields, sum : Nat, div : Positive, hits : Positive]
StoredEntry == [timestamp : {None} \cup Ts, result : SUBSET Row]
TimestampsDict == [Paths -> StoredEntry \cup {NoEntry}]

-----------------------------------------------------------------------------
(* The paged walk of get_historic_metric_value, lines 136-195.             *)

\* mutant: "ts >= old_timestamp"
NewerOrSame(ts, old) == old = None \/ ts >= old

\* ts > old_timestamp under Python 2 ordering, where None < every number
Newer(ts, old) == old = None \/ ts > old

\* ts_entry.get('timestamp', 0)
OldTimestamp(e) == IF e = NoEntry THEN 0 ELSE e.timestamp

\* the locals before the loop: old_timestamp, new_timestamp, count, timeseries
ScanInit(t, p, e) ==
    [table |-> t, path |-> p, old |-> OldTimestamp(e),
     cached |-> IF e = NoEntry THEN {} ELSE e.result,
     newTs |-> None, count |-> 0, sums |-> [k \in RowKeys |-> 0],
     hits |-> [k \in RowKeys |-> 0], result |-> {}, done |-> FALSE,
     brk |-> FALSE, page |-> 1, seen |-> <<>>]

\* mutant: new_timestamp reassigned on every entry
CandidateTsEvery(acc, e) == e.ts

\* "if not new_timestamp: new_timestamp = ts"
CandidateTs(acc, e) == IF acc.newTs = None THEN e.ts ELSE acc.newTs

\* mutant: the short-circuit to the cached result left out
UpToDateNever(acc) == FALSE

\* "new_timestamp == old_timestamp and not timeseries"
UpToDate(acc) == acc.newTs = acc.old /\ \A k \in RowKeys : acc.hits[k] = 0

\* "(count <= 5 or old_timestamp != 0)"
UnderCap(acc) == acc.count <= CountCap \/ acc.old # 0

\* timeseries[(sp, k)] += v for every value of the entry
Accumulate(acc, v) ==
    [acc EXCEPT !.count = @ + 1,
                !.sums = [k \in RowKeys |->
                            IF k \in DOMAIN v THEN @[k] + v[k] ELSE @[k]],
                !.hits = [k \in RowKeys |->
                            IF k \in DOMAIN v THEN @[k] + 1 ELSE @[k]]]

\* one iteration of "for entry in api_response['entries']"; brk is the break
EntryStep(acc, e) ==
    IF acc.brk THEN acc
    ELSE LET a == [acc EXCEPT !.newTs = CandidateTs(acc, e)] IN
         IF UpToDate(a)
         THEN [a EXCEPT !.result = a.cached, !.done = TRUE, !.brk = TRUE]
         ELSE IF Newer(e.ts, a.old) /\ e.vals # NoValues /\ UnderCap(a)
         THEN [Accumulate(a, e.vals) EXCEPT !.seen = Append(@, e.ts)]
         ELSE [a EXCEPT !.done = TRUE]

\* the listing newest first, and page n of it as the API serves it now
Listing(p) == Reverse(series[p])
PageOf(p, n) ==
    SubSeq(Listing(p), (n - 1) * PageSize + 1,
           IF n * PageSize < Len(series[p]) THEN n * PageSize ELSE Len(series[p]))
\* mutant: the 'next' link never followed, one page per walk
HasNextNever(p, n) == FALSE

\* a link with rel 'next' is in api_response['links']
HasNext(p, n) == Len(series[p]) > n * PageSize

\* the loop ends when a step set done or no 'next' link was returned
WalkEnds(acc, more) == acc.done \/ ~more

\* the params dict {ParameterName: field} and the fields one row gets
RowFields(k, fs) == {f \in fs : ParamOf[f] # "key" \/ k \in InnerKeys}

\* mutant: a row for every key, also those no sample carried
BuildRowsAllKeys(acc, fs) ==
    IF acc.result # {} THEN acc.result
    ELSE {[key |-> k, fields |-> RowFields(k, fs), sum |-> acc.sums[k],
           div |-> acc.count, hits |-> acc.hits[k]] : k \in RowKeys}

\* "if not result": rows built from timeseries; value = v / count
BuildRows(acc, fs) ==
    IF acc.result # {} THEN acc.result
    ELSE {[key |-> k, fields |-> RowFields(k, fs), sum |-> acc.sums[k],
           div |-> acc.count, hits |-> acc.hits[k]] : k \in {k \in RowKeys : acc.hits[k] > 0}}

\* fetch page acc.page of the listing and run the loop body over it; when
\* the walk ends, store self.timestamps[path] and return the rows to
\* get_table, whose {"Ok": val} wrapping becomes res[table]
WalkPage(acc) ==
    LET p    == acc.path
        a    == FoldLeft(EntryStep, acc, PageOf(p, acc.page))
        more == HasNext(p, acc.page)
        rows == BuildRows(a, qry[acc.table])
    IN IF WalkEnds(a, more)
       THEN /\ mem' = [mem EXCEPT ![p] = [timestamp |-> a.newTs, result |-> rows]]
            /\ res' = res @@ (acc.table :> rows)
            /\ folded' = [folded EXCEPT ![p] = @ \cup ToSet(a.seen)]
            /\ scan' = a
            /\ pc' = "tables"
       ELSE /\ scan' = [a EXCEPT !.page = @ + 1]
            /\ pc' = "scan"
            /\ UNCHANGED <<mem, res, folded>>

-----------------------------------------------------------------------------
(* The upstream API.                                                       *)

\* the array records a new sample for path p
Sample(p) ==
    /\ clock[p] < MaxTs
    /\ \E v \in Samples :
         series' = [series EXCEPT ![p] = Append(@, [ts |-> clock[p] + 1, vals |-> v])]
    /\ clock' = [clock EXCEPT ![p] = @ + 1]
    /\ UNCHANGED <<disk, pc, mem, qry, res, scan, reply, folded, delivered>>

\* the oldest sample of path p leaves the retention window
Expire(p) ==
    /\ Retention
    /\ series[p] # <<>>
    /\ series' = [series EXCEPT ![p] = Tail(@)]
    /\ UNCHANGED <<clock, disk, pc, mem, qry, res, scan, reply, folded, delivered>>

-----------------------------------------------------------------------------
(* run_queries, lines 445-468, with UnitySession.__init__ (65-81),         *)
(* login (104-107), logout (109-110) and save_state (83-84).               *)

Queries == UNION {[Q -> SUBSET Fields] : Q \in SUBSET Tables}

\* UnitySession(config): json.load of the state file, which raises on a
\* file that is not JSON; the query comes from ProtocolService.request
StartCycle ==
    /\ pc = "idle"
    /\ \E q \in Queries :
         /\ \A t \in DOMAIN q : q[t] \subseteq TableFields[t]
         /\ qry' = q
    /\ IF disk = Corrupt
       THEN /\ reply' = "loaderr"
            /\ UNCHANGED <<pc, mem>>
       ELSE /\ mem' = IF disk = Absent THEN [p \in Paths |-> NoEntry] ELSE disk
            /\ pc' = "login"
            /\ UNCHANGED reply
    /\ res' = <<>>
    /\ folded' = [p \in Paths |-> {}]
    /\ UNCHANGED <<upstream, disk, scan, delivered>>

\* the login exchange answered with a usable session
LoginOk ==
    /\ pc = "login"
    /\ pc' = "tables"
    /\ UNCHANGED <<upstream, disk, mem, qry, res, scan, reply, folded, delivered>>

\* a 404, "not authorized" or a raising request: ProtocolError for the query
LoginFails ==
    /\ pc = "login"
    /\ pc' = "idle"
    /\ reply' = "autherr"
    /\ UNCHANGED <<upstream, disk, mem, qry, res, scan, folded, delivered>>

\* the comprehension reaches table t (dict order is arbitrary): get_table
\* calls get_historic_metric_value, which reads ts_entry and sets its locals
RunTable(t) ==
    /\ pc = "tables"
    /\ t \in DOMAIN qry \ DOMAIN res
    /\ scan' = ScanInit(t, PathOf[t], mem[PathOf[t]])
    /\ pc' = "scan"
    /\ UNCHANGED <<upstream, disk, mem, qry, res, reply, folded, delivered>>

\* query_api of the first page, or of the 'next' link, answers
NextPage ==
    /\ pc = "scan"
    /\ WalkPage(scan)
    /\ UNCHANGED <<upstream, disk, qry, reply, delivered>>

\* query_api raises (status not 200, or a body that is not JSON); try_run
\* does not catch it, so run_queries raises: no logout, no save_state
ApiFails ==
    /\ pc = "scan"
    /\ pc' = "idle"
    /\ reply' = "err"
    /\ scan' = NoEntry
    /\ UNCHANGED <<upstream, disk, mem, qry, res, folded, delivered>>

\* session.logout() returned
LogoutOk ==
    /\ pc = "tables"
    /\ DOMAIN res = DOMAIN qry
    /\ pc' = "saving"
    /\ UNCHANGED <<upstream, disk, mem, qry, res, scan, reply, folded, delivered>>

\* session.logout() raised: run_queries raises before save_state
LogoutFails ==
    /\ pc = "tables"
    /\ DOMAIN res = DOMAIN qry
    /\ pc' = "idle"
    /\ reply' = "err"
    /\ UNCHANGED <<upstream, disk, mem, qry, res, scan, folded, delivered>>

\* json.dump(self.timestamps, open(file, 'w+')) and return res
Save ==
    /\ pc = "saving"
    /\ disk' = mem
    /\ pc' = "idle"
    /\ reply' = "ok"
    /\ delivered' = [p \in Paths |-> [ts \in Ts |->
                        IF ts \in folded[p] THEN Min({delivered[p][ts] + 1, 2})
                        ELSE delivered[p][ts]]]
    /\ UNCHANGED <<upstream, mem, qry, res, scan, folded>>

\* the plugin process dies; during save_state the file may already be
\* truncated by open(.., 'w+') and not yet written
Crash ==
    /\ pc # "idle"
    /\ \E d \in IF pc = "saving" /\ CrashInSave THEN {disk, Corrupt} ELSE {disk} :
         disk' = d
    /\ pc' = "idle"
    /\ reply' = "crash"
    /\ scan' = NoEntry
    /\ UNCHANGED <<upstream, mem, qry, res, folded, delivered>>

-----------------------------------------------------------------------------

Init ==
    /\ series = [p \in Paths |-> <<>>]
    /\ clock = [p \in Paths |-> 0]
    /\ disk = Absent
    /\ pc = "idle"
    /\ mem = [p \in Paths |-> NoEntry]
    /\ qry = <<>>
    /\ res = <<>>
    /\ scan = NoEntry
    /\ reply = "none"
    /\ folded = [p \in Paths |-> {}]
    /\ delivered = [p \in Paths |-> [ts \in Ts |-> 0]]

Poller ==
    \/ StartCycle \/ LoginOk \/ LoginFails
    \/ \E t \in Tables : RunTable(t)
    \/ NextPage \/ ApiFails \/ LogoutOk \/ LogoutFails \/ Save

Next ==
    \/ Poller
    \/ Crash
    \/ \E p \in Paths : Sample(p) \/ Expire(p)

\* run_queries is synchronous code: once started it keeps taking steps as
\* long as the API answers each request
Fairness ==
    /\ WF_vars(LoginOk \/ LoginFails)
    /\ WF_vars(\E t \in Tables : RunTable(t))
    /\ WF_vars(NextPage)
    /\ WF_vars(LogoutOk \/ LogoutFails)
    /\ WF_vars(Save)

Spec == Init /\ [][Next]_vars /\ Fairness

-----------------------------------------------------------------------------
(* Properties.                                                             *)

TypeOK ==
    /\ series \in [Paths -> Seq(Entry)]
    /\ clock \in [Paths -> 0..MaxTs]
    /\ disk \in {Absent, Corrupt} \cup TimestampsDict
    /\ pc \in {"idle", "login", "tables", "scan", "saving"}
    /\ mem \in TimestampsDict
    /\ qry \in Queries
    /\ DOMAIN res \subseteq DOMAIN qry /\ \A t \in DOMAIN res : res[t] \subseteq Row
    /\ scan = NoEntry \/ (scan.path \in Paths /\ scan.old \in TsVal /\ scan.count \in Nat)
    /\ reply \in {"none", "ok", "loaderr", "autherr", "err", "crash"}
    /\ folded \in [Paths -> SUBSET Ts]
    /\ delivered \in [Paths -> [Ts -> 0..2]]

\* the stored timestamp of a path, once a number, as the next cycle reads it
Cursor(d, p) == IF d[p] = NoEntry THEN 0 ELSE d[p].timestamp

(* The timestamp persisted for a metric path never decreases across saves  *)
(* of unity_timestamps.json (spec: Monotonicity): get_historic_metric_value *)
(* takes new_timestamp from the newest entry of the first page it fetches. *)
CursorMonotonic ==
    [][disk \notin {Absent, Corrupt} /\ disk' \notin {Absent, Corrupt} =>
         \A p \in Paths : Cursor(disk, p) \in Ts =>
             Cursor(disk', p) \in Ts /\ Cursor(disk', p) >= Cursor(disk, p)]_disk

(* No sample is folded into the rows of two successful run_queries replies: *)
(* the cursor saved by one cycle excludes, in the next, every sample the    *)
(* first one averaged (the "ts > old_timestamp" test against the state      *)
(* file).  Replays of the cached rows are not new folds.                    *)
DeliveredOnce == \A p \in Paths : \A ts \in Ts : delivered[p][ts] <= 1

\* no sample newer than the stored cursor of p is in the listing
NoNewSample(p) ==
    /\ mem[p] # NoEntry
    /\ series[p] # <<>>
    /\ Last(series[p]).ts = mem[p].timestamp

(* Idempotence (spec): a table whose metric path has no sample newer than  *)
(* the stored timestamp gets exactly the stored rows back, and the stored  *)
(* entry of that path is left as it was (the short-circuit of              *)
(* get_historic_metric_value returning ts_entry['result']).                *)
IdempotentReplay ==
    [][\A t \in Tables :
         (t \notin DOMAIN res /\ t \in DOMAIN res' /\ NoNewSample(PathOf[t])) =>
            /\ res'[t] = mem[PathOf[t]].result
            /\ mem'[PathOf[t]] = mem[PathOf[t]]]_vars

\* the stored timestamp the running cycle's walks started from
ReadCursor(p) == IF disk \in {Absent, Corrupt} THEN 0 ELSE OldTimestamp(disk[p])

\* a sample that a save moves the cursor of its path across
Covered(s, old, new) == Newer(s.ts, old) /\ new \in Ts /\ s.ts <= new

(* Whatever appends and expiries happen while the pages of a path are     *)
(* fetched, the only samples with values that a save_state moves the      *)
(* cursor across without folding them into the reply are those behind an  *)
(* entry without 'values' (it sets done, line 169, after new_timestamp     *)
(* already passed them) and those beyond the first poll's cap.  A walk     *)
(* that ends a page early or skips part of one loses a sample for good.    *)
SamplesLostOnlyAtStops ==
    pc = "saving" =>
        \A p \in Paths : \A s \in ToSet(series[p]) :
            LET old == ReadCursor(p)
                new == Cursor(mem, p)
            IN  (s.vals # NoValues /\ Covered(s, old, new)) =>
                    \/ s.ts \in folded[p]
                    \/ \E e \in ToSet(series[p]) :
                          e.vals = NoValues /\ s.ts < e.ts /\ Covered(e, old, new)
                    \/ old = 0 /\ scan.count > CountCap

\* the cursor of CursorStore: the stored number, 0 while the file has none
\* (no file, no entry for the path, or None, which compares below every ts)
StoredCursor(p) ==
    IF disk \in {Absent, Corrupt} THEN 0
    ELSE IF Cursor(disk, p) \in Ts THEN Cursor(disk, p) ELSE 0

Store == INSTANCE CursorStore WITH
    stored <- [p \in Paths |-> StoredCursor(p)],
    sent <- delivered

(* The poller implements CursorStore: each save_state moves every stored   *)
(* cursor forward or leaves it, and the samples that the reply it completes *)
(* folds into rows lie above the cursor the cycle read and at or below the *)
(* one it writes.  Steps that touch neither the file nor the reply         *)
(* counts are stuttering steps of CursorStore.                              *)
CursorRefinement == Store!Spec

-----------------------------------------------------------------------------
(* Properties the code does not have; each is checked by a run that       *)
(* expects a violation.                                                   *)

(* Catch-up bound (spec): with a stored timestamp for the path, one walk  *)
(* of get_historic_metric_value accumulates at most six samples.  The     *)
(* code's test "count <= 5 or old_timestamp != 0" caps only the first     *)
(* poll.                                                                   *)
CatchUpBound ==
    scan # NoEntry /\ scan.old # 0 => scan.count <= CountCap + 1

(* One walk of the listing folds each sample at most once, although the   *)
(* API adds samples at the head of the newest-first listing while the     *)
(* 'next' pages are fetched.                                              *)
EachSampleOncePerWalk ==
    scan # NoEntry => Len(scan.seen) = Cardinality(ToSet(scan.seen))

\* a table's rows without the names of the fields they fill
RowData(rows) == {[key |-> r.key, sum |-> r.sum, div |-> r.div, hits |-> r.hits] : r \in rows}

(* Tables that share a command get one result (spec section 4.4: each     *)
(* distinct command runs at most once per cycle, memoized by its identity). *)
(* In run_queries every table calls get_historic_metric_value itself: the  *)
(* second walk of a path starts from the cursor the first one left in      *)
(* self.timestamps, so a sample that arrives between the two walks goes to *)
(* the second table only, and the first never gets it.                     *)
TablesOfPathAgree ==
    \A t, u \in DOMAIN res :
        PathOf[t] = PathOf[u] => RowData(res[t]) = RowData(res[u])

(* The state file is always loadable by the next UnitySession: a crash    *)
(* during save_state may lose the update but must not leave a file that   *)
(* json.load rejects (spec section 4.4, PERSISTED).                       *)
StateFileLoadable == disk # Corrupt

=============================================================================
