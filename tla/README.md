# TLA+ models of SmartAgent's DELL EMC Unity protocol agent

This directory holds TLA+ specifications of the Python protocol agent in
`src/python/`, with TLC configurations that check them. Each module is
translated from the source. `PROJECT.json` maps every definition to the lines it
models.

## 1. The system

The agent is a long-running process (`DELL_EMC_Unity.py`, `__main__`). It serves
an RPC socket with `ProtocolService(UnityProtocol())`.

- **ProtocolService / ProtocolSession** (`protocol_plugin.py`). The RPC server
  creates one `ProtocolSession` per client connection (`session`). Every
  request is dispatched by `ProtocolService.request` on its tag:
  - `protocol` and `version` return constants.
  - `load_inputs` and `load_config` call the plugin's loader, store the result
    in the session under a fresh `uuid4` reference, and return the reference.
    The plugin is `UnityProtocol`: `load_inputs` keeps `inputs[0]`, and
    `load_config` builds a `UnityConfig` from `hostname`, `config.username`
    and `config.password`. The pass-through `TestProtocol`
    (`test_protocol.py`, served on `test.sock`) returns the blob itself from
    both loaders and never rejects one.
  - `run_queries` resolves two references in the session and calls the plugin.
  - `show_queries` calls a method with the wrong number of arguments.
  - `unload_*`, `get_tables`, `get_fields` and unknown tags raise
    "Request not implemented".
- **UnityProtocol.run_queries** (`DELL_EMC_Unity.py:445-468`). It does these
  steps in order:
  1. Builds a `UnitySession`, which `json.load`s the per-host state file
     `unity_timestamps.json`.
  2. Logs in. A 404, "not authorized" or an exception becomes a `ProtocolError`
     for the whole query.
  3. For each table of the query, in dict order, calls `get_table`. This calls
     the command named in the inputs.
  4. Logs out.
  5. Calls `save_state`, which is `json.dump` into `open(file, 'w+')`.

  `try_run` has its `except` commented out, so a raising command raises out of
  `run_queries`.
- **get_historic_metric_value** (`136-195`) is a cursor over the array's
  metric listing, which is newest first and paged by offset `next` links.
  - It takes the newest timestamp as `new_timestamp`.
  - If that equals the stored timestamp and nothing has been accumulated, it
    returns the stored rows.
  - Otherwise it folds the entries newer than the stored timestamp. This is
    capped by `count <= 5 or old_timestamp != 0`.
  - It builds one row per `(sp, k)` key with `value = sum / count`.
  - It stores `{timestamp, result}` under the path.
- **get_resource / get_pools / fill_in_row / follow_path** (`121-133`,
  `203-287`) serve the non-historic commands: one projected GET, then one row
  per entry (or per branch that a sub-path reaches). Each cell is the walk of
  a parameter path: a single leaf, a duration rendering of it, or the
  newline join of several leaves.
- `check_mk/wato/smartm.py` holds the Check_MK rule definitions. Importing
  it runs 44 `register_rule` calls. Each call files a rulespec by name under a
  rule group. For an `agent/<X>` group, `_create_custom_group` first registers
  a sub group named `smartm_<x>`. Two rules convert their stored values:
  - the datasource options (`special_agents:smartm`) have a `migrate` and
    `Transform`s on `error_reporting` and the debug flags;
  - `winrm_connectivity` turns an old plain dict into the `("WinRM", dict)`
    choice (`into_2_20`).

  `prereqs/` holds a WinRM test script, and the `*.tmpl.py` files are
  templates.

How the parts interact: the dispatcher hands `run_queries` the handles that a
connection loaded earlier. The poller shares one state file per host across
cycles. Nothing in the process ties two cycles together except that file.

## 2. Modules

| module | models | state | actions |
|---|---|---|---|
| `UnityPoller` | `run_queries`, `UnitySession.__init__/login/logout/save_state/query_api`, `get_table`, `get_historic_metric_value`, `try_run`; the array's metric listing and a process crash as environment | `series`, `clock` (upstream listing); `disk` (state file: `Absent`, `Corrupt` or a dict); `pc`, `mem` (`self.timestamps`), `qry`, `res`, `scan` (locals of the running walk), `reply`; histories `folded`, `delivered` | `StartCycle`, `LoginOk`, `LoginFails`, `RunTable`, `NextPage`, `ApiFails`, `LogoutOk`, `LogoutFails`, `Save`, `Crash`, `Sample`, `Expire` |
| `CursorStore` | the promise of `unity_timestamps.json` (spec: Metric State Record, Monotonicity), without pages or rows | `stored` (cursor per path), `sent` (how often each sample was handed out) | `Commit` (one save) |
| `WatoRules` | `smartm.py`: the import (`register_rule`, `_create_custom_group`, the `try`/`except: pass`), and the stored values of the datasource options and `winrm_connectivity` (`migrate`, the `Transform`s, `into_2_20`, `into_2_19`) | `defined`, `step`, `imported`, `groupReg`, `ruleReg` (registries); `stored` (the ruleset), `shown` (open form); histories `loaded`, `written` | `RegisterRule`, `ImportDone`, `ImportRaises`; environment `LoadRules`, `Read`, `Edit` |
| `TwoPollers` | two client sessions running `run_queries` for one host | the shared `series`, `clock`, `disk`, `delivered`, and each session's `pc`, `mem`, `qry`, `res`, `scan`, `reply`, `folded` | each session's `UnityPoller` steps, through `INSTANCE UnityPoller WITH`, plus the array's `Sample` and `Expire` |
| `ProtocolService` | `ProtocolService.request` with every tag, `ProtocolSession`, `load_*`, `run_queries`, `UnityProtocol.load_*`, `TestProtocol.load_*` | `plugin` (the plugin the process serves), `open`, `handles` (session.inputs/configs per connection), `minted` (uuids), `returned` (history of load answers), `last` (last request per connection) | `Connect`, `Disconnect`, `Identify`, `Load`, `Unload`, `ShowQueries`, `Unsupported`, `RunQueries` |

`UnityPoller` details:

- The walk's loop body is the operator `EntryStep`: one entry of a page, with
  `brk` modelling the `break`. `WalkPage` folds it over one page with
  `FoldLeft`.
- `WalkPage` ends the walk as the code does:
  - `done` is set, or there is no `next` link;
  - the rows are built;
  - `self.timestamps[path]` is stored;
  - the rows are added to `res`.
- Each page fetch is one `NextPage` step, so a `Sample` can land between two
  pages.
- Timestamps are `1..MaxTs` plus `None` (Python 2 orders `None` below every
  number). A sample is a function from row keys to a value, or `NoValues`
  (an entry without `values`).
- Rows are abstracted to key, fields, sum, divisor and the number of samples
  that carried the key. Formatting is left out: no property is about it.

Two more modules cover the resource commands:

- `ResourceListing` models one `get_table` call over `get_resource` or
  `get_pools`. It has these actions:
  - `QueryApi`: the answer is entries, an error body, or a body with neither.
  - `NextEntry`: one iteration of the entry loop.
  - `GetTable`: the call returns.

  JSON values are the tagged variants null / num / str / arr / obj.
  - `follow_path` is `FollowPath`, a `FoldLeft` of `WalkStep` over the path.
    `Expand` is one branch under one step, with Python's truthiness.
  - A `'*'` over an object yields its key names, over a string its
    characters, and over a number a `TypeError`.
  - Any exception is the value `Raise`. Nothing between `fill_in_row` and
    `run_queries` catches it.
  - Strings are words with a list of one-character words. Key order is a
    fixed `KeyOrder`: Python 2 dict order is arbitrary, and no property
    depends on it.
- `DurationFormat` holds the duration split of `fill_in_row` as pure
  operators. `MC_ResourceListing` checks them over every hour count the
  five-digit field allows, as a constant TLC evaluates once.
- `ProtocolService` models the loaders by what they do: `Loaded` is
  `inputs[0]` or `UnityConfig`. A blob they reject (an empty list, a config
  without `hostname` or `password`) raises and stores nothing. The variable
  `plugin`, chosen in `Init` and never changed, is the plugin the process was
  started with; under `TestProtocol`, `PluginLoaded` stores the blob itself
  (kept under its kind, so that TLC never has to order an input list against
  a config record) and `PluginAccepts` takes every blob.

`MC_UnityPoller`, `MC_ProtocolService`, `MC_ResourceListing` and
`MC_WatoRules` give the constants model values.

## 3. Runs

| run | cfg | expect | what it shows |
|---|---|---|---|
| poller_safety | `MC_UnityPoller.cfg` | pass | `TypeOK`, `DeliveredOnce`, `SamplesLostOnlyAtStops`, `IdempotentReplay` (below) |
| poller_cursor | `MC_UnityPoller_cursor.cfg` | pass | `CursorRefinement` (below) |
| poller_cursor_reset | `..._cursor_reset.cfg` | violation | `CursorMonotonic` fails once retention can empty the listing |
| poller_catchup | `..._catchup.cfg` | violation | `CatchUpBound` |
| poller_shared | `MC_TwoPollers.cfg` | violation | `SharedDeliveredOnce` (`TwoPollers`) |
| poller_pageshift | `..._pageshift.cfg` | violation | `EachSampleOncePerWalk` |
| poller_split | `..._split.cfg` | violation | `TablesOfPathAgree` |
| poller_savecrash | `..._savecrash.cfg` | violation | `StateFileLoadable` |
| resource_rows | `MC_ResourceListing.cfg` | pass | `TypeOK`, `RowsPerBranch`, `TableLostExactlyOnBadData`, `DurationSplitExact` (below) |
| resource_partial | `MC_ResourceListing_partial.cfg` | violation | `FieldFailureScoped` |
| wato | `MC_WatoRules.cfg` | pass | `TypeOK`, `FormsAccepted`, `EditRoundTrip`, `ReadKeepsSettings`, `RegistryComplete` (below) |
| registry | `MC_ProtocolService.cfg` | pass | `TypeOK`, `RunQueriesUsesOwnHandles` (below) |

What the passing runs check:

- **poller_safety** runs through crashes, failed logins, failed API calls and
  failed logouts, with a listing that grows and expires. It shows three things:
  - no sample is averaged into two successful replies (`DeliveredOnce`);
  - when `save_state` moves a path's cursor, every sample with values that
    the cursor passes was averaged into the reply. There are two exceptions:
    a sample behind an entry without `values`, and one past the first poll's
    cap (`SamplesLostOnlyAtStops`). Appends and expiries between page fetches
    make no other sample go missing;
  - an up-to-date path returns exactly its stored rows and leaves them
    untouched (`IdempotentReplay`).
- **poller_cursor** has no retention and an atomic state-file write. It
  shows that `UnityPoller` implements the abstract `CursorStore`
  (`CursorRefinement`, the property `Store!Spec` with
  `Store == INSTANCE CursorStore WITH ...`). The refinement mapping is:
  - `stored` is the number in the state file, or 0 when there is none
    (`StoredCursor`);
  - `sent` is the history `delivered`.

  Each `Save` is then a `Commit`: every cursor moves forward or stays. Every
  sample the reply averaged lies above the cursor the cycle read and at or
  below the one it wrote. Every other step stutters. The run excludes
  retention because of the `None` reset (poller_cursor_reset). It excludes a
  crash inside `save_state` because of poller_savecrash.
- **resource_rows** covers flat, nested and pool commands over every bounded
  answer. It shows two things:
  - a finished `get_table` has exactly one row per branch that the command's
    path reaches, counted with a recursive reference walk (`Reach`) that is
    independent of the code's breadth-first fold;
  - no row or cell is an exception;
  - the whole table is lost exactly when some entry holds bad data: a `'*'`
    over a number, non-ASCII text in a join, a malformed duration, or a
    non-empty error body (`TableLostExactlyOnBadData`). The reference
    (`LosesTable`) judges each entry with `Reach`, not with the code's fold;
  - for every hour count up to 99999, the rendered years, days and hours add
    back up to the leaf and stay in range (`DurationSplitExact`).
- **wato** imports `smartm.py`, then loads every bounded old and current
  shape of the two converted rules from `rules.mk`. After that it interleaves
  reads and edits of the rules. A read may or may not persist the in-place
  rewrites of `migrate` and `into_2_20`. The run shows four things:
  - every form WATO opens is one its valuespec accepts: every required key
    of `winrm_connectivity` is present, and no legacy boolean is left
    (`FormsAccepted`);
  - a submitted form reads back unchanged (`EditRoundTrip`);
  - opening an unedited rule keeps every setting the user made
    (`ReadKeepsSettings`);
  - every rule ends up under its own agent's sub group, and no two agents
    share one (`RegistryComplete`). That a failed `cmk.gui` import
    registers nothing follows from the `NameError` at the first
    `register_rule` and is not a separate property.
- **registry** shows that `run_queries` only ever resolves the blobs that this
  connection's own loads returned (`RunQueriesUsesOwnHandles`), with either
  plugin behind the dispatcher: the pass-through plugin, which accepts blobs
  the Unity loaders reject, gives the registry no way around the check.

What the violations show:

- **CursorMonotonic** (poller_cursor_reset): once retention has emptied the
  listing, a walk stores `new_timestamp = None` over a numeric cursor, so the
  stored timestamp goes back, against the spec's Monotonicity. The code
  suffers nothing from it: every sample at or below the old cursor has
  already left the listing, so none is averaged twice (`DeliveredOnce` holds
  in poller_safety, which has retention), and with `None` as with a number
  the first-poll cap stays off (`None != 0`). What breaks is the promise to
  a reader of `unity_timestamps.json`.
- **CatchUpBound**: the count cap binds only on the first poll.
- **SharedDeliveredOnce** (poller_shared): two sessions poll the same host at
  once. Both load `unity_timestamps.json` before either saves, so both average
  the same sample into a successful reply. The later save can also put back a
  cursor the other session had passed. Spec section 5 lets independent
  sessions run concurrently, and allows them no shared mutable state but the
  session registry.
- **EachSampleOncePerWalk**: offset pages shift under appends, so a sample is
  folded twice.
- **TablesOfPathAgree** (poller_split): two tables of one query name the
  same metric path. Spec section 4.4 runs each distinct command once per
  cycle, so both tables should get one result. `run_queries` calls
  `get_table` per table, so the path is walked twice. The second walk starts
  from the cursor the first left in `self.timestamps`. A sample recorded
  between the two walks goes to the second table only, and the first table
  never gets it, because the saved cursor is already past it.
- **StateFileLoadable**: a crash between truncate and dump leaves a file that
  every later load rejects.
- **FieldFailureScoped** (resource_partial): spec sections 3, 7 and 8 report
  a failing field in that field and keep the rest of the table. In the code
  one `'*'` step over a number raises out of `get_table`, and `try_run` does
  not catch it, so the whole table is lost.

`PROJECT.json` lists each violation as a finding.

### Observations without a run

The following disagreements were met while modelling. They are plain from
one call, so no run is spent on them. Each is still modelled by the action or
operator named here:

- `try_run` has its `except` commented out, so one failing API call,
  command or logout raises out of `run_queries`. The results of every other
  table are lost, and `save_state` is skipped. The spec reports command
  failures per table and fails a whole query only on authentication
  (`DELL_EMC_Unity.py:466-472`, `ApiFails`, `LogoutFails`).

- The cached rows of an up-to-date path are keyed by the path alone. They
  carry the `ParameterName`s of the query that stored them, so a later query
  of the same path with other fields gets rows for the old fields
  (`DELL_EMC_Unity.py:157`, `UpToDate`).
- An entry without `values` sets `done` after `new_timestamp` has already
  passed the older entries. The rest of its page is still folded, but no
  further page is fetched, and the saved cursor skips those samples for good.
  Spec section 4.4a stops only at the stored timestamp or the last page
  (`DELL_EMC_Unity.py:168-169`, `EntryStep`). `SamplesLostOnlyAtStops` shows
  this is the only such loss besides the cap.
- In server mode the global `args` has only `server` and `debug`. A login
  page that says "not authorized" therefore raises `AttributeError` on
  `args.username`, and the `except` turns that into the `ProtocolError`
  instead of the intended message (`DELL_EMC_Unity.py:455`, `LoginFails`).
- `show_queries` always raises `TypeError`: four arguments are passed to a
  two-parameter method (`protocol_plugin.py:67`, `ShowQueries`).
- `unload_inputs` / `unload_config` do not exist, so handles are never
  released (`protocol_plugin.py:49-62`, `Unload`).
- Each row's sum is divided by the number of all folded samples, not by the
  samples that carried its key. A key missing from some samples is
  under-reported (`DELL_EMC_Unity.py:188`, `BuildRows`).
- An upstream error body whose messages are empty becomes an Ok table without
  rows. A non-empty one raises (`DELL_EMC_Unity.py:244`, `QueryApi`;
  resource_rows checks both cases in `TableLostExactlyOnBadData`).
- Two requested fields with the same ParameterName: one silently gets no
  cell (`DELL_EMC_Unity.py:462`, `ParamsDicts`).
- The spec's example renders `26:30:15.500` as "1 years, 1 days, 2 hours,
  ...". The code gives "1 days, 2 hours, 30 minutes, 15.500000 seconds"
  (`DELL_EMC_Unity.py:209`).
- The datasource Dictionary lists `show_field_errors` both as an element and
  among its `ignored_keys` (`smartm.py:210, 228`). The model treats it as an
  element, like the other two flags.
- `http_client` declares `required_keys = ["username"]` but has no `username`
  element (`smartm.py:97`). Check_MK's handling of such a key is outside the
  repository.

Every property of a passing run has a mutant in `PROJECT.json`: an operator
defined just above the code-level definition it replaces. Each mutant is a
plausible slip:

| mutant | property it breaks |
|---|---|
| `>=` for `>` | `DeliveredOnce` |
| `new_timestamp` reassigned on every entry | `CursorRefinement` |
| the cache short-circuit dropped | `IdempotentReplay` |
| the `'next'` link never followed | `SamplesLostOnlyAtStops` |
| a row for every key | `TypeOK` (division by a zero count) |
| one registry for the whole process | `RunQueriesUsesOwnHandles` |
| `username` and `password` read from each other's member | `TypeOK` (`ProtocolService`) |
| a raising cell kept in its row | `TypeOK` (`ResourceListing`) |
| a per-row `try`/`except` that drops a raising row | `TableLostExactlyOnBadData` |
| `new_branches = ...` for `+=` | `RowsPerBranch` |
| days without `% 365` | `DurationSplitExact` |
| debug flags saved without `back` | `TypeOK` (`WatoRules`) |
| `use_password_vault = False` not migrated | `FormsAccepted` |
| `back = into_2_19` put back in | `EditRoundTrip` |
| `vs[opt] = state` instead of `vs.get(opt, state)` | `ReadKeepsSettings` |
| `split("/")[0]` for the sub group name | `RegistryComplete` |

### Bounds

- **UnityPoller**: one path, one table and two row keys. `PageSize` is 2, so
  that walks span pages. `MaxTs` is 4, so that catch-up, page shifts and expiry
  all happen. `CountCap` is 5, as in the code.
  - With `PageSize 2` and `MaxTs 4`, a listing has at most two pages. A third
    page adds no new control path.
  - The catch-up run needs more than `CountCap + 1` samples and uses `MaxTs 8`.
    With `MaxTs 4`, poller_safety never reaches the cap, so the cap exception
    of `SamplesLostOnlyAtStops` never applies there.
  - poller_split has two tables with their own fields over the one path,
    with `MaxTs 3`. One sample between the two walks is enough.
  - poller_cursor checks the refinement and uses `MaxTs 3`. Three
    samples still make a two-page walk, a walk across an append, and two
    saves that each advance the cursor.
  - poller_pageshift uses `PageSize 1` and only samples with values, so that
    a single append between two fetches shifts a folded entry onto the next
    page. An entry without values would stop the walk first (H21), so the
    run leaves it out.
  - `TwoPollers` uses `MaxTs 3` and two sessions. One sample, read by both
    sessions before either saves, is already enough.
- **ResourceListing**:
  - up to two entries per answer;
  - members `a` and `b` (plus `name` for pools);
  - seven member values: None, a number, a duration, non-ASCII text, an
    empty and a two-element list, and an object;
  - parameter paths `a`, `a.*`, `b` and `name`;
  - resource paths of one to four segments, one of them `'*'` and then a
    key. That last case applies a step to several branches.
  - duration leaves: hours 0..99999 (every value the five-digit field
    allows), with minutes and seconds zero or not.
- **ProtocolService**: two connections and three uuids. Inputs are `[]`,
  `[d1]` and `[d2, d1]`; configs are a full one, one without `hostname` and
  one without `password`. That is enough for a reference to exist in one
  connection and not the other, for a second load to be distinguishable, and
  for each Unity loader to reject a blob that `TestProtocol` accepts. Both
  plugins are initial states of the one run (about 1.4M states, two minutes).

- **WatoRules**: both rules start from every stored shape the code handles:
  - datasource: `use_password_vault` absent, `True`, `False` or `'keepass'`;
    `write_smartm_data` absent, `True`, `False` or `{}`; `error_reporting`
    absent, `'legacy'`, a `handle` dict with or without `move_error_file`,
    or an old tuple; one debug flag absent or set (the three share one
    `Transform`);
  - winrm: an old dict with any subset of the four checkboxes at either
    value, or any current choice.

  A stored value that still holds the old `run_legacy_datasources` flag
  (its element is commented out, and `ignored_keys` on line 228 lets it
  through) is not among the shapes: `Accepted` does not model
  `ignored_keys`, so such a value is left out rather than reported.

  The forms a user submits are every accepted combination of the same keys.
  Each valuespec's other keys pass through unchanged and are left out.

### Fairness

`UnityPoller.Spec` carries weak fairness on each poller step.
`run_queries` is synchronous code, so once it is running it keeps stepping
while the API answers. `LoginOk \/ LoginFails` and `LogoutOk \/ LogoutFails`
are fair as a pair: the array answers, one way or the other. `Crash`, `ApiFails`,
`Sample` and `Expire` are not fair, because nothing in the code makes them
happen. No liveness property is checked under it. That a cycle ends
(`pc # "idle" ~> pc = "idle"`) holds in every bounded instance only because
`MaxTs` caps the listing: TLC cannot show the walk ends while samples keep
arriving without a bound. A request that never returns is outside the
fairness too: `query_api` sets no timeout (see the hazards in
`PROJECT.json`).

## 4. Not modelled, and why

- The RPC server, transport and signals are outside the repository. Connection
  teardown (`Disconnect`) is modelled from the spec.
- `generate_input` / `generate_output` are unreachable: `args.server` always
  has a default, and both functions use undefined names.
- Templates: see `PROJECT.json` components. `protocol_plugin.tmpl.py` is
  `protocol_plugin.py` with the body of `request` left as a placeholder.
- The WinRM prereq script (`pywinrm_prereqs.py`) runs once, one step after
  the other, and keeps no state between runs. Each command is wrapped in its
  own `try`, so one failing command does not stop the next. Its two defects
  are plain from one line each, so neither is modelled:
  - `--port` has no `type`, so any given port reaches `%d` as a string, and
    `WinServer.__init__` raises `TypeError` (line 18-20);
  - without `--domain`, ntlm logs in as `None\user` and kerberos as
    `user@None` (lines 23-24).
- Rendered strings are abstracted:
  - a duration is the sequence of its `<<unit, amount>>` pieces;
  - a join is the list of its leaves.
- `get_real_time_metric_value` returns `[]` and changes nothing.
- A query mixing table kinds in one `run_queries` cycle. The dispatch of
  `get_table` to the real-time and resource commands was written as two
  actions of `UnityPoller` (the first adds an empty result, the second adds
  the rows or raises past logout and save_state) and measured: with one
  table of each kind beside the historic one, poller_safety took 3m47s
  even at `MaxTs = 3`, with only the resource table 5m04s at `MaxTs = 4`,
  and poller_cursor did not finish in 10 minutes. Those runs are the ones
  that must fire every action, so the dispatch is left out. The two kinds
  are checked on their own: `ResourceListing` for the rows and the raises,
  and the real-time command has no effect to check. A resource table that
  raises after a historic one has walked ends the cycle just as
  `LogoutFails` does, with `self.timestamps` unsaved.
- WATO itself is not in the repository. `LoadRules`, `Read` and `Edit` model
  the order of operations Check_MK documents for valuespecs:
  - `migrate`, then `forth` from the outside in, when a form is rendered;
  - `back` from the inside out, when a form is saved.

  These actions are environment and are not mapped. The valuespecs of the
  other 42 rules (titles, help texts, element lists) are data. `basic_auth`,
  `ntlm_auth` and `http_client` only build such data.

## 5. Plan

These steps are in order; steps 1 to 4 and 6 to 8 are done.

1. `UnityPoller`: cycle, walk, state file and crash (done).
2. `ProtocolService`: dispatcher and session registries, under either
   plugin (done).
3. `ResourceListing` and `DurationFormat` (done): `follow_path` is checked
   against a recursive reference walk, and the duration split against its
   arithmetic.
4. `TwoPollers` (done): two `run_queries` of the same host sharing
   `unity_timestamps.json` (poller_shared). Still open: a crash of the process, which ends both
   sessions at once.
5. Compose `ProtocolService.RunQueries` with the poller cycle: a reference
   resolves to a config whose host names the state file.
8. Tables and losses (done): two tables of one path in one cycle
   (poller_split), and the samples a save can skip (`SamplesLostOnlyAtStops`).
   Still open: a query that mixes historic-metric, resource and real-time
   tables in one cycle (too large, see section 4); and fields that share a `ParameterName`, which
   `ParamsDicts` models but no run enables.
6. The abstract cursor specification `CursorStore` (done): the cursor only
   advances, and each sample is handed out once, between the old cursor and
   the new one. `UnityPoller` refines it (poller_cursor).
7. `WatoRules` (done): the import of `smartm.py` and the stored-value
   conversions of its two converted rules, checked for valid forms, round
   trips and kept settings.
