-------------------------- MODULE ProtocolService --------------------------
(***************************************************************************)
(* The request dispatcher of src/python/protocol_plugin.py: one            *)
(* ProtocolSession per client connection (inputs and configs by uuid4      *)
(* reference) and ProtocolService.request handling each request of a      *)
(* connection to completion.  Connections are independent and interleave. *)
(* The plugin is UnityProtocol (load_inputs keeps inputs[0], load_config  *)
(* builds a UnityConfig; what its run_queries computes is left to the      *)
(* UnityPoller module) or the pass-through TestProtocol of                 *)
(* src/python/test_protocol.py, whose loaders return their argument.       *)
(***************************************************************************)
EXTENDS Integers, FiniteSets

CONSTANTS
    Conns,       \* client connections of the RPC server
    Refs,        \* bound: the uuid4 strings the process can mint
    Raws,        \* [Kinds -> SUBSET blob]: the raw blobs a client sends:
                 \*   input lists, and config dicts as records
    NoHandle

Kinds == {"inputs", "config"}

\* the plugin object the process hands to ProtocolService(plugin)
Plugins == {"UnityProtocol", "TestProtocol"}

\* UnityConfig.__init__: the three members it reads; the handle is the
\* object holding them
ConfigReadable(raw) ==
    /\ "hostname" \in DOMAIN raw /\ "config" \in DOMAIN raw
    /\ {"username", "password"} \subseteq DOMAIN raw.config

\* mutant: username and password read from each other's member
UnityConfigSwapped(raw) ==
    [hostname |-> raw.hostname, username |-> raw.config.password,
     password |-> raw.config.username]

UnityConfig(raw) ==
    [hostname |-> raw.hostname, username |-> raw.config.username,
     password |-> raw.config.password]

\* what plugin.load_<kind>(raw) returns: inputs[0], or the UnityConfig
Loaded(kind, raw) == IF kind = "inputs" THEN raw[1] ELSE UnityConfig(raw)

\* TestProtocol.load_inputs and load_config: the blob itself, whatever it
\* is (kept under its kind, so that input lists and config dicts are
\* never compared with each other)
PluginLoaded(pl, kind, raw) ==
    IF pl = "TestProtocol" THEN [k \in {kind} |-> raw] ELSE Loaded(kind, raw)

\* the handles a session can hold: an element of an input list, or a
\* config object whose members come from those members of a config dict,
\* or (TestProtocol) any blob sent
ConfigsSent == {x \in Raws["config"] : ConfigReadable(x)}
Handles ==
    UNION {{x[i] : i \in DOMAIN x} : x \in Raws["inputs"]}
    \cup UNION {[{k} -> Raws[k]] : k \in Kinds}
    \cup [hostname : {x.hostname : x \in ConfigsSent},
          username : {x.config.username : x \in ConfigsSent},
          password : {x.config.password : x \in ConfigsSent}]

VARIABLES
    plugin,     \* the plugin of this process, fixed when it starts
    open,       \* [Conns -> BOOLEAN]: the connection has a ProtocolSession
    handles,    \* [Conns -> [Kinds -> [Refs -> Handles \cup {NoHandle}]]]:
                \*   session.inputs and session.configs
    minted,     \* the references uuid.uuid4() has produced
    returned,   \* history: <<kind, ref, raw>> a load returned to the client
    last        \* the last request of each connection and its outcome

vars == <<plugin, open, handles, minted, returned, last>>

NoRequest == [req |-> "none", ok |-> FALSE, refs |-> {}, got |-> {}]

EmptySession == [k \in Kinds |-> [r \in Refs |-> NoHandle]]

-----------------------------------------------------------------------------

\* the RPC server accepts a client: session(info) returns ProtocolSession()
Connect(c) ==
    /\ ~open[c]
    /\ open' = [open EXCEPT ![c] = TRUE]
    /\ handles' = [handles EXCEPT ![c] = EmptySession]
    /\ last' = [last EXCEPT ![c] = NoRequest]
    /\ UNCHANGED <<plugin, minted, returned>>

\* the client goes away and its session with every handle is dropped
Disconnect(c) ==
    /\ open[c]
    /\ open' = [open EXCEPT ![c] = FALSE]
    /\ handles' = [handles EXCEPT ![c] = EmptySession]
    /\ returned' = [returned EXCEPT ![c] = {}]
    /\ last' = [last EXCEPT ![c] = NoRequest]
    /\ UNCHANGED <<plugin, minted>>

\* 'protocol' and 'version': the plugin's constant strings
Identify(c) ==
    /\ open[c]
    /\ \E tag \in {"protocol", "version"} :
         last' = [last EXCEPT ![c] = [NoRequest EXCEPT !.req = tag, !.ok = TRUE]]
    /\ UNCHANGED <<plugin, open, handles, minted, returned>>

\* mutant: a reference generator that can repeat itself
FreshAlways(r) == TRUE

\* uuid.uuid4(): a reference never produced before in this process
Fresh(r) == r \notin minted

\* plugin.load_<kind>(raw) returns instead of raising: inputs[0] raises
\* IndexError on an empty list, UnityConfig a KeyError on a missing member
LoaderAccepts(kind, raw) ==
    IF kind = "inputs" THEN raw # <<>> ELSE ConfigReadable(raw)

\* TestProtocol's loaders never raise
PluginAccepts(pl, kind, raw) == pl = "TestProtocol" \/ LoaderAccepts(kind, raw)

\* load_inputs / load_config: ref = str(uuid.uuid4()), then
\* session.<kind>[ref] = plugin.load_<kind>(raw); a loader that raises
\* leaves the session as it was
Load(c, kind, raw) ==
    /\ open[c]
    /\ \E r \in Refs :
         /\ Fresh(r)
         /\ minted' = minted \cup {r}
         /\ IF PluginAccepts(plugin, kind, raw)
            THEN /\ handles' = [handles EXCEPT ![c][kind][r] = PluginLoaded(plugin, kind, raw)]
                 /\ returned' = [returned EXCEPT ![c] = @ \cup {<<kind, r, raw>>}]
                 /\ last' = [last EXCEPT ![c] =
                              [NoRequest EXCEPT !.req = "load", !.ok = TRUE, !.refs = {<<kind, r>>}]]
            ELSE /\ last' = [last EXCEPT ![c] = [NoRequest EXCEPT !.req = "load"]]
                 /\ UNCHANGED <<handles, returned>>
    /\ UNCHANGED <<plugin, open>>

\* unload_inputs / unload_config: ProtocolService defines no such method,
\* so request raises 'Request not implemented: unload_...'
Unload(c, kind, r) ==
    /\ open[c]
    /\ last' = [last EXCEPT ![c] =
                 [NoRequest EXCEPT !.req = "unload", !.refs = {<<kind, r>>}]]
    /\ UNCHANGED <<plugin, open, handles, minted, returned>>

\* show_queries: self.show_queries(session, query, input, config) calls a
\* method declared show_queries(self, session, qry): a TypeError
ShowQueries(c, i, k) ==
    /\ open[c]
    /\ last' = [last EXCEPT ![c] = [NoRequest EXCEPT !.req = "show_queries"]]
    /\ UNCHANGED <<plugin, open, handles, minted, returned>>

\* get_tables, get_fields and any other tag: 'Request not implemented'
Unsupported(c) ==
    /\ open[c]
    /\ last' = [last EXCEPT ![c] = [NoRequest EXCEPT !.req = "unsupported"]]
    /\ UNCHANGED <<plugin, open, handles, minted, returned>>

\* mutant: one registry for the whole process instead of one per session
ResolveAnyConn(c, kind, r) ==
    IF \E d \in Conns : handles[d][kind][r] # NoHandle
    THEN handles[CHOOSE d \in Conns : handles[d][kind][r] # NoHandle][kind][r]
    ELSE NoHandle

\* session.<kind>[ref]: a KeyError for a reference this session lacks
Resolve(c, kind, r) == handles[c][kind][r]

\* run_queries: both references resolved in this session, then
\* plugin.run_queries(qry, inputs, config) answers or raises
RunQueries(c, i, k) ==
    /\ open[c]
    /\ LET hi == Resolve(c, "inputs", i)
           hk == Resolve(c, "config", k)
       IN IF hi # NoHandle /\ hk # NoHandle
          THEN \E ok \in BOOLEAN :
                 last' = [last EXCEPT ![c] =
                           [req |-> "run_queries", ok |-> ok,
                            refs |-> {<<"inputs", i>>, <<"config", k>>},
                            got |-> {<<"inputs", i, hi>>, <<"config", k, hk>>}]]
          ELSE last' = [last EXCEPT ![c] =
                         [NoRequest EXCEPT !.req = "run_queries",
                                           !.refs = {<<"inputs", i>>, <<"config", k>>}]]
    /\ UNCHANGED <<plugin, open, handles, minted, returned>>

-----------------------------------------------------------------------------

Init ==
    /\ plugin \in Plugins
    /\ open = [c \in Conns |-> FALSE]
    /\ handles = [c \in Conns |-> EmptySession]
    /\ minted = {}
    /\ returned = [c \in Conns |-> {}]
    /\ last = [c \in Conns |-> NoRequest]

Next ==
    \E c \in Conns :
        \/ Connect(c) \/ Disconnect(c) \/ Identify(c) \/ Unsupported(c)
        \/ \E kind \in Kinds : \E raw \in Raws[kind] : Load(c, kind, raw)
        \/ \E kind \in Kinds, r \in Refs : Unload(c, kind, r)
        \/ \E i, k \in Refs : ShowQueries(c, i, k) \/ RunQueries(c, i, k)

Spec == Init /\ [][Next]_vars

-----------------------------------------------------------------------------
(* Properties.                                                             *)

TypeOK ==
    /\ plugin \in Plugins
    /\ open \in [Conns -> BOOLEAN]
    /\ handles \in [Conns -> [Kinds -> [Refs -> Handles \cup {NoHandle}]]]
    /\ minted \subseteq Refs
    /\ \A c \in Conns : \A x \in returned[c] : x[1] \in Kinds /\ x[2] \in Refs /\ x[3] \in Raws[x[1]]
    /\ \A c \in Conns : last[c].req \in {"none", "protocol", "version", "load",
                          "unload", "show_queries", "unsupported", "run_queries"}

(* run_queries hands the plugin exactly what the loads of this same     *)
(* connection made of the blobs they returned those references for: a    *)
(* reference of another connection, of an earlier connection, or of the  *)
(* other kind never resolves, and no later load replaces the handle       *)
(* behind a reference.                                                     *)
RunQueriesUsesOwnHandles ==
    \A c \in Conns :
        last[c].req = "run_queries" =>
            \A g \in last[c].got :
                \E x \in returned[c] :
                    /\ <<x[1], x[2]>> = <<g[1], g[2]>>
                    /\ g[3] = PluginLoaded(plugin, x[1], x[3])
                    /\ \A y \in returned[c] : <<y[1], y[2]>> = <<g[1], g[2]>> => y = x

=============================================================================
