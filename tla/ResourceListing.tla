-------------------------- MODULE ResourceListing --------------------------
(***************************************************************************)
(* One resource-table command of src/python/DELL_EMC_Unity.py: get_table  *)
(* (424-429) running get_resource (234-254) or get_pools (256-287) over    *)
(* one API answer, each row built by fill_in_row (203-231) from the path   *)
(* walks of follow_path (121-133).  JSON values are the tagged variants    *)
(* null / num / str / arr / obj; a string is a word whose characters are   *)
(* words again (CharsOf), and the order of a dict's keys is KeyOrder.      *)
(* An exception anywhere in the command is the value Raise.                *)
(***************************************************************************)
EXTENDS Integers, Sequences, SequencesExt, FiniteSets, DurationFormat

CONSTANTS
    Keys,         \* member names of API objects
    KeyOrder,     \* a sequence of Keys: the iteration order of a dict
    Words,        \* string values (unicode in Python 2)
    CharsOf,      \* [Words -> Seq(Words)]: the one-character strings of a word
    NonAscii,     \* words that str() cannot encode (UnicodeEncodeError)
    DurationOf,   \* [Words -> duration record \cup {NoDuration, BadSeconds}]
    Fields,       \* data field ids of the table
    ParamOf,      \* [Fields -> Seq(Keys \cup {"*"})]: ParameterName.split('.')
    ResourcePaths, \* resource.split('.') of get_resource: type, then steps
    PoolPaths,    \* resource.split('.') of get_pools: steps from the pool
    Values,       \* the JSON values a member of an API entry can hold
    PoolNames,    \* the values the 'name' member of a pool can hold
    ErrorTexts,   \* the ', '-joined 'en-US' messages of an error body
    MaxEntries,   \* bound: entries in one answer
    NoDuration, BadSeconds, Raise

Null == [t |-> "null"]
Num(n) == [t |-> "num", v |-> n]
Str(w) == [t |-> "str", v |-> w]
Arr(s) == [t |-> "arr", v |-> s]
Obj(f) == [t |-> "obj", v |-> f]

Kinds == {"get_resource", "get_pools"}

NoOut == [st |-> "none", rows |-> <<>>]
Raised == [st |-> "raise", rows |-> <<>>]
Ok(r) == [st |-> "ok", rows |-> r]

VARIABLES
    kind,     \* the CommandName: get_resource or get_pools
    rpath,    \* the CommandLine split on '.'
    query,    \* the fields the query asks of the table
    params,   \* {ParameterName: field}, built by run_queries
    pc,       \* "fetch", "entries" or "done"
    todo,     \* the entries of api_response not yet turned into rows
    rows,     \* result: the rows built so far
    out,      \* what get_table did: [st |-> "none" | "raise" | "ok", rows]
    answer    \* history: the API answer the command got

vars == <<kind, rpath, query, params, pc, todo, rows, out, answer>>

-----------------------------------------------------------------------------
(* follow_path, lines 121-133.                                             *)

\* Python truthiness: None, 0, '', [] and {} are false
Truthy(b) ==
    CASE b.t = "null" -> FALSE
      [] b.t = "num"  -> b.v # 0
      [] b.t = "str"  -> CharsOf[b.v] # <<>>
      [] b.t = "arr"  -> b.v # <<>>
      [] b.t = "obj"  -> DOMAIN b.v # {}

\* the keys of a dict, in iteration order
KeysOf(b) == SelectSeq(KeyOrder, LAMBDA k : k \in DOMAIN b.v)

\* one branch under one step: "new_branches += branch if branch else []"
\* extends by a list's elements, a dict's keys or a string's characters,
\* and raises TypeError on a number; any other step is branch.get(step)
\* on a dict and None on everything else
Expand(b, step) ==
    IF step = "*"
    THEN IF ~Truthy(b) THEN <<>>
         ELSE CASE b.t = "arr" -> b.v
                [] b.t = "obj" -> [i \in 1..Len(KeysOf(b)) |-> Str(KeysOf(b)[i])]
                [] b.t = "str" -> [i \in 1..Len(CharsOf[b.v]) |-> Str(CharsOf[b.v][i])]
                [] OTHER       -> Raise
    ELSE << IF b.t = "obj" /\ step \in DOMAIN b.v THEN b.v[step] ELSE Null >>

\* mutant: "new_branches = ..." in place of "+=": the last branch only
WalkStepLastOnly(tree, step) ==
    IF tree = Raise \/ tree = <<>> THEN tree ELSE Expand(tree[Len(tree)], step)

\* one iteration of "for step in path" over the whole branch list
WalkStep(tree, step) ==
    IF tree = Raise THEN Raise
    ELSE LET parts == [i \in DOMAIN tree |-> Expand(tree[i], step)] IN
         IF \E i \in DOMAIN parts : parts[i] = Raise THEN Raise
         ELSE FlattenSeq(parts)

\* "tree = [dictionary]; if isinstance(dictionary, list): tree = dictionary"
Start(d) == IF d.t = "arr" THEN d.v ELSE <<d>>

FollowPath(d, path) == FoldLeft(WalkStep, Start(d), path)

-----------------------------------------------------------------------------
(* fill_in_row, lines 203-231 (duration pieces from DurationFormat).       *)

\* str(leaf) for the '\n'.join: a unicode string outside ASCII raises
Printable(leaf) == ~(leaf.t = "str" /\ leaf.v \in NonAscii)

\* the value of one parameter, from the branch list its walk returned
Cell(branch) ==
    IF branch = Raise THEN Raise
    ELSE IF Len(branch) = 1 /\ branch[1].t = "str"
            /\ DurationOf[branch[1].v] # NoDuration
    THEN IF DurationOf[branch[1].v] = BadSeconds THEN Raise
         ELSE [t |-> "dur", v |-> DurationParts(DurationOf[branch[1].v])]
    ELSE IF Len(branch) = 1 THEN branch[1]
    ELSE IF \E i \in DOMAIN branch : ~Printable(branch[i]) THEN Raise
    ELSE [t |-> "joined", v |-> branch]

\* mutant: a cell that raised is stored in the row as its value
RowOrRaiseKept(cells) == cells

\* a row either raises as a whole or maps every datafield to its cell
RowOrRaise(cells) ==
    IF \E f \in DOMAIN cells : cells[f] = Raise THEN Raise ELSE cells

\* row[datafield] for every (parameter, datafield) of the params dict
FillInRow(tree) ==
    RowOrRaise([f \in Range(params) |-> Cell(FollowPath(tree, ParamOf[f]))])

-----------------------------------------------------------------------------
(* get_resource (234-254) and get_pools (256-287), per entry.             *)

\* the members the request projects: ?fields=... of get_resource, and
\* fields=name,<path[0]> of get_pools (its path starts at the member)
Requested ==
    IF kind = "get_pools" THEN {"name", rpath[1]}
    ELSE IF Len(rpath) = 1 THEN {ParamOf[f][1] : f \in Range(params)}
    ELSE {rpath[2]}

\* mutant: a per-row try/except that drops a row whose walk raised
RowsOfDropRaised(rs) == SelectSeq(rs, LAMBDA r : r # Raise)

\* the rows built from a list of branches, or Raise if one of them raised
RowsOf(rs) == IF \E i \in DOMAIN rs : rs[i] = Raise THEN Raise ELSE rs

\* get_resource: the entry's content is one row; with a sub-path, every
\* branch follow_path(content, path[1:]) returns is one (the list it
\* returns is never a dict)
ResourceRows(content) ==
    LET tree == IF Len(rpath) = 1 THEN <<content>> ELSE FollowPath(content, Tail(rpath))
    IN IF tree = Raise THEN Raise
       ELSE RowsOf([i \in DOMAIN tree |-> FillInRow(tree[i])])

\* get_pools: "parameter == 'name'" takes the pool's name, other
\* parameters their walk without the duration rendering
PoolRow(name, branch) ==
    LET cell(f) == IF ParamOf[f] = <<"name">> THEN name
                   ELSE LET leaf == FollowPath(branch, ParamOf[f]) IN
                        IF leaf = Raise THEN Raise
                        ELSE IF Len(leaf) = 1 THEN leaf[1]
                        ELSE IF \E i \in DOMAIN leaf : ~Printable(leaf[i]) THEN Raise
                        ELSE [t |-> "joined", v |-> leaf]
    IN RowOrRaise([f \in Range(params) |-> cell(f)])

\* get_pools per entry: follow_path(tree, path) from the whole path when
\* it has more than one segment, else the pool itself
PoolRows(content) ==
    LET name == content.v["name"]
        tree == IF Len(rpath) > 1 THEN FollowPath(content, rpath) ELSE <<content>>
    IN IF tree = Raise THEN Raise
       ELSE RowsOf([i \in DOMAIN tree |-> PoolRow(name, tree[i])])

EntryRows(content) ==
    IF kind = "get_pools" THEN PoolRows(content) ELSE ResourceRows(content)

-----------------------------------------------------------------------------
(* The command: query_api, the loop over api_response['entries'], and      *)
(* get_table wrapping each row.                                            *)

\* the objects an entry's content can be: projected to requested members
Contents ==
    {Obj(c) : c \in UNION {[D -> Values] : D \in SUBSET Requested}}

PoolContents ==
    {Obj(c @@ ("name" :> n)) : c \in UNION {[D -> Values] : D \in SUBSET (Requested \ {"name"})},
                              n \in PoolNames}

Answers ==
    {[t |-> "entries", v |-> s] :
        s \in BoundedSeq(IF kind = "get_pools" THEN PoolContents ELSE Contents, MaxEntries)}
    \cup {[t |-> "error", v |-> w] : w \in ErrorTexts}
    \cup {[t |-> "other"]}

\* {ParameterName: field for field in fields}: for fields sharing one
\* ParameterName, the one iterated last stays
ParamsDicts(q) ==
    {d \in [{ParamOf[f] : f \in q} -> q] : \A p \in DOMAIN d : ParamOf[d[p]] = p}

Init ==
    /\ kind \in Kinds
    /\ rpath \in IF kind = "get_pools" THEN PoolPaths ELSE ResourcePaths
    /\ query \in SUBSET Fields \ {{}}
    /\ params \in ParamsDicts(query)
    /\ pc = "fetch"
    /\ todo = <<>>
    /\ rows = <<>>
    /\ out = NoOut
    /\ answer = [t |-> "none"]

\* query_api answers with status 200.  An error body makes get_resource /
\* get_pools return the joined messages, a string: get_table iterates its
\* characters and "row.iteritems()" raises, unless it is empty.  A body
\* with neither member raises KeyError on api_response['entries'].
QueryApi ==
    /\ pc = "fetch"
    /\ \E a \in Answers :
         /\ answer' = a
         /\ CASE a.t = "entries" -> /\ todo' = a.v
                                    /\ pc' = "entries"
                                    /\ UNCHANGED out
              [] a.t = "error"   -> /\ out' = IF CharsOf[a.v] = <<>> THEN Ok(<<>>) ELSE Raised
                                    /\ pc' = "done"
                                    /\ UNCHANGED todo
              [] OTHER           -> /\ out' = Raised
                                    /\ pc' = "done"
                                    /\ UNCHANGED todo
    /\ UNCHANGED <<kind, rpath, query, params, rows>>

\* one iteration of "for entry in api_response['entries']"
NextEntry ==
    /\ pc = "entries"
    /\ todo # <<>>
    /\ LET r == EntryRows(Head(todo)) IN
         IF r = Raise
         THEN /\ out' = Raised
              /\ pc' = "done"
              /\ UNCHANGED <<rows, todo>>
         ELSE /\ rows' = rows \o r
              /\ todo' = Tail(todo)
              /\ UNCHANGED <<out, pc>>
    /\ UNCHANGED <<kind, rpath, query, params, answer>>

\* "return result", and get_table's {"value": [...], "warnings": []}
GetTable ==
    /\ pc = "entries"
    /\ todo = <<>>
    /\ out' = Ok(rows)
    /\ pc' = "done"
    /\ UNCHANGED <<kind, rpath, query, params, todo, rows, answer>>

Next == QueryApi \/ NextEntry \/ GetTable

Spec == Init /\ [][Next]_vars

-----------------------------------------------------------------------------
(* Properties.                                                             *)

TypeOK ==
    /\ kind \in Kinds
    /\ query \subseteq Fields /\ Range(params) \subseteq query
    /\ pc \in {"fetch", "entries", "done"}
    /\ \A i \in DOMAIN rows :
         /\ rows[i] # Raise /\ DOMAIN rows[i] = Range(params)
         /\ \A f \in DOMAIN rows[i] : rows[i][f] # Raise
    /\ out.st \in {"none", "raise", "ok"} /\ (out.st # "ok" => out.rows = <<>>)

\* reference walk, by recursion on the path from one branch at a time
RECURSIVE Reach(_, _)
Reach(b, path) ==
    IF path = <<>> THEN <<b>>
    ELSE LET xs == Expand(b, Head(path)) IN
         IF xs = Raise THEN Raise
         ELSE LET ys == [i \in DOMAIN xs |-> Reach(xs[i], Tail(path))] IN
              IF \E i \in DOMAIN ys : ys[i] = Raise THEN Raise ELSE FlattenSeq(ys)

\* the branches one entry turns into rows, by the reference walk
Branches(content) ==
    IF kind = "get_pools"
    THEN IF Len(rpath) > 1 THEN Reach(content, rpath) ELSE <<content>>
    ELSE IF Len(rpath) = 1 THEN <<content>> ELSE Reach(content, Tail(rpath))

(* get_table answers one row per branch the command's path reaches in each *)
(* entry, and nothing else: one per entry of a flat resource, one per      *)
(* element a sub-path (with its '*' expansions) reaches in a nested one    *)
(* (get_resource's "for branch in tree", get_pools' sub_table).            *)
RowsPerBranch ==
    (out.st = "ok" /\ answer.t = "entries") =>
        Len(out.rows) = FoldLeft(LAMBDA n, c : n + Len(Branches(c)), 0, answer.v)

\* a leaf list whose cell cannot be rendered: one leaf the duration regex
\* takes whose seconds float() rejects (get_resource only), or several
\* leaves of which one is non-ASCII text
Unrenderable(leaves, rendersDuration) ==
    \/ rendersDuration /\ Len(leaves) = 1 /\ leaves[1].t = "str"
       /\ DurationOf[leaves[1].v] = BadSeconds
    \/ Len(leaves) # 1 /\ \E i \in DOMAIN leaves : ~Printable(leaves[i])

\* a branch with a field whose reference walk raises or ends in leaves that
\* cannot be rendered; get_pools takes 'name' from the pool, unwalked
BadBranch(b) ==
    \E f \in Range(params) :
        /\ ~(kind = "get_pools" /\ ParamOf[f] = <<"name">>)
        /\ LET leaves == Reach(b, ParamOf[f]) IN
           leaves = Raise \/ Unrenderable(leaves, kind = "get_resource")

\* an entry whose sub-path walk raises, or with a branch that is bad
BadEntry(c) ==
    LET bs == Branches(c) IN
    bs = Raise \/ \E i \in DOMAIN bs : BadBranch(bs[i])

\* the answers that make a command fail by the reference: a body with
\* neither 'entries' nor 'error', a non-empty error text (iterated as rows),
\* or an entry with a bad leaf anywhere
LosesTable(a) ==
    CASE a.t = "entries" -> \E i \in DOMAIN a.v : BadEntry(a.v[i])
      [] a.t = "error"   -> CharsOf[a.v] # <<>>
      [] OTHER           -> TRUE

(* A finished get_table raises exactly on the answers that hold data the  *)
(* walk cannot handle: a '*' over a number, non-ASCII text in a           *)
(* '\n'-join, a duration whose seconds float() rejects, a non-empty error *)
(* body or a body without entries.  Missing members, None, empty lists    *)
(* and strings never fail a table; and one bad leaf in any entry fails    *)
(* all of it, since neither fill_in_row, get_resource / get_pools nor     *)
(* try_run catches anything (lines 129, 213, 230, 244, 470-474).          *)
TableLostExactlyOnBadData ==
    out.st # "none" => (out.st = "raise" <=> LosesTable(answer))

-----------------------------------------------------------------------------
(* A property the code does not have; checked by a run that expects a     *)
(* violation.                                                             *)

(* Partial failure (spec sections 3, 7 and 8): if one field's data walk   *)
(* raises, the other fields of the row and every other row are still      *)
(* returned, so an answer with entries always yields a table.  The code   *)
(* lets the exception of fill_in_row leave get_table.                      *)
FieldFailureScoped ==
    (out.st # "none" /\ answer.t = "entries") => out.st = "ok"

=============================================================================
