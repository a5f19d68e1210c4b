----------------------------- MODULE WatoRules -----------------------------
(***************************************************************************)
(* The Check_MK rule definitions of src/check_mk/wato/smartm.py.           *)
(*                                                                         *)
(* Registry: importing the file runs its register_rule calls in order;     *)
(* each files a rulespec by name under a rule group, and each call for an  *)
(* "agent/<X>" group first registers a sub group class made by            *)
(* _create_custom_group.  When the cmk.gui imports of the try block fail,  *)
(* "except: pass" leaves register_rule undefined.  A rule's valuespec is   *)
(* abstracted to the rule's name: only its group and name reach the        *)
(* registries.                                                             *)
(***************************************************************************)
EXTENDS Integers, Sequences, FiniteSets, Functions, TLC

CONSTANTS None

\* one register_rule(group, name, vs, ...) statement
Call(group, name) == [group |-> group, name |-> name]

RulesDatasource == << Call("datasource_programs", "special_agents:smartm") >>

RulesSNMP == << Call("agent/SNMP", "snmp_optimization"), Call("agent/SNMP", "snmp_quirks") >>

RulesSSH ==
    << Call("agent/SSH", "ssh_authentication"), Call("agent/SSH", "ssh_connectivity"),
       Call("agent/SSH", "ssh_options"), Call("agent/SSH", "ssh_jumphosts") >>

RulesAzure ==
    << Call("agent/Azure", "azure_tenant"), Call("agent/Azure", "azure_client"),
       Call("agent/Azure", "azure_subscriptions"), Call("agent/Azure", "azure_resourceGroups") >>

RulesWinRM == << Call("agent/WinRM", "winrm_credentials"), Call("agent/WinRM", "winrm_options") >>

RulesWinRMConnectivity == << Call("agent/WinRM", "winrm_connectivity") >>

\* powershell_context sits among the WMI rules but files under agent/WinRM
RulesWMI ==
    << Call("agent/WMI", "wmic_connectivity"), Call("agent/WinRM", "powershell_context"),
       Call("agent/WMI", "wmi_options"), Call("agent/WMI", "wmi_quircks"),
       Call("agent/WMI", "wmi_retries") >>

RulesVmware ==
    << Call("agent/Vmware", "vmware_connectivity"), Call("agent/Vmware", "vmware_is_cluster"),
       Call("agent/Vmware", "vmware_credentials") >>

RulesGraphSQL ==
    << Call("agent/MSGraph", "ms_graph_tenant"), Call("agent/MSGraph", "ms_graph_client"),
       Call("agent/SQL", "sql_instances"), Call("agent/SQL", "sql_credentials"),
       Call("agent/SQL", "sql_odbc_options"), Call("agent/MSGraph", "ms_graph_rapports") >>

RulesLdap == << Call("agent/Ldap", "ldap") >>

RulesCacheMirth ==
    << Call("agent/cache", "cache_connectivity"), Call("agent/cache", "cache_credentials"),
       Call("agent/Mirth", "mirth_api_auth"), Call("agent/Mirth", "mirth_http_client"),
       Call("agent/Mirth", "mirth_smb_auth"), Call("agent/Mirth", "mirth_smb_opts") >>

RulesTail ==
    << Call("agent/Dell Unity", "dell_unity_creds"), Call("agent/Dell Unity", "dell_unity_http"),
       Call("agent/Citrix Xenapp Director", "xenapp_director_auth"),
       Call("agent/Citrix Xenapp Director", "xenapp_director_client"),
       Call("agent/Citrix Xenapp Director", "xenapp_director_server"),
       Call("agent/Proxmox VE", "proxmox_creds"), Call("agent/Proxmox VE", "proxmox_http"),
       Call("agent/ElasticSearch", "elastic_http"), Call("agent/ElasticSearch", "elastic_auth") >>

\* the statements of the file, in order
Calls ==
    RulesDatasource \o RulesSNMP \o RulesSSH \o RulesAzure \o RulesWinRM
    \o RulesWinRMConnectivity \o RulesWMI \o RulesVmware \o RulesGraphSQL
    \o RulesLdap \o RulesCacheMirth \o RulesTail

Groups == {Calls[i].group : i \in DOMAIN Calls}
RuleNames == {Calls[i].name : i \in DOMAIN Calls}

\* group.split("/")[1].lower(), tabulated for the groups the file uses
GroupSegment ==
    ("agent/SNMP" :> "snmp") @@ ("agent/SSH" :> "ssh") @@ ("agent/Azure" :> "azure")
    @@ ("agent/WinRM" :> "winrm") @@ ("agent/WMI" :> "wmi") @@ ("agent/Vmware" :> "vmware")
    @@ ("agent/MSGraph" :> "msgraph") @@ ("agent/SQL" :> "sql") @@ ("agent/Ldap" :> "ldap")
    @@ ("agent/cache" :> "cache") @@ ("agent/Mirth" :> "mirth")
    @@ ("agent/Dell Unity" :> "dell unity")
    @@ ("agent/Citrix Xenapp Director" :> "citrix xenapp director")
    @@ ("agent/Proxmox VE" :> "proxmox ve") @@ ("agent/ElasticSearch" :> "elasticsearch")

\* mutant: group.split("/")[0], the main group's name, for every group
SubGroupNameTop(group) == "agent/smartm_agent"

\* the name Check_MK files a sub group class under: its main group
\* (RulespecGroupAgent, "agent") and sub_group_name "smartm_" + group_name.lower()
SubGroupName(group) == "agent/smartm_" \o GroupSegment[group]

\* register_rule's group: RulespecGroupDatasourceProgramsCustom for
\* "datasource_programs", otherwise the class of _create_custom_group(group)
RuleGroup(group) ==
    IF group = "datasource_programs" THEN "datasource_programs/custom"
    ELSE SubGroupName(group)

VARIABLES
    defined,    \* the try block completed: register_rule exists
    step,       \* the index in Calls of the next statement
    imported,   \* "running", "done" or "raised" (NameError)
    groupReg,   \* rulespec_group_registry: the sub group names registered
    ruleReg     \* rulespec_registry: rule name -> group name

regVars == <<defined, step, imported, groupReg, ruleReg>>

\* the try block: every cmk.gui import succeeds, or "except: pass"
ImportInit ==
    /\ defined \in BOOLEAN
    /\ step = 1
    /\ imported = "running"
    /\ groupReg = {}
    /\ ruleReg = <<>>

\* register_rule(group, name, vs): _create_custom_group registers a fresh
\* sub group class (a later one of the same name replaces it), then
\* rulespec_registry.register files the HostRulespec
RegisterRule ==
    /\ imported = "running" /\ defined
    /\ step <= Len(Calls)
    /\ LET c == Calls[step]
           g == RuleGroup(c.group)
       IN /\ groupReg' = IF c.group = "datasource_programs" THEN groupReg
                         ELSE groupReg \cup {g}
          /\ ruleReg' = [n \in DOMAIN ruleReg \cup {c.name} |->
                           IF n = c.name THEN g ELSE ruleReg[n]]
    /\ step' = step + 1
    /\ UNCHANGED <<defined, imported>>

\* the module body ran to its end
ImportDone ==
    /\ imported = "running"
    /\ step > Len(Calls)
    /\ imported' = "done"
    /\ UNCHANGED <<defined, step, groupReg, ruleReg>>

\* the first register_rule call (line 141) looks up an undefined name
ImportRaises ==
    /\ imported = "running" /\ ~defined
    /\ imported' = "raised"
    /\ UNCHANGED <<defined, step, groupReg, ruleReg>>

-----------------------------------------------------------------------------
(* Rule values.  Check_MK keeps a rule's value as stored; to show it in   *)
(* the form it applies the Dictionary's migrate and then each Transform's *)
(* forth, outermost first, and on submit each back, innermost first.  The *)
(* lambdas of smartm.py mutate the stored dict in place (__setitem__,     *)
(* __delitem__, vs[opt] = ...), so a read also rewrites the stored value. *)
(* Two rules carry conversions: the datasource options                    *)
(* (special_agents:smartm) and winrm_connectivity.  Python values are     *)
(* tagged so that isinstance can tell a dict, a tuple, a bool and a str    *)
(* apart.                                                                  *)

PyBool(b) == [t |-> "bool", b |-> b]
PyStr(s) == [t |-> "str", s |-> s]
PyDict(f) == [t |-> "dict", d |-> f]
PyTuple(s) == [t |-> "tuple", e |-> s]
EmptyDict == PyDict([k \in {} |-> None])

Has(d, k) == k \in DOMAIN d.d
Get(d, k, default) == IF Has(d, k) THEN d.d[k] ELSE default
SetItem(d, k, x) == PyDict([j \in DOMAIN d.d \cup {k} |-> IF j = k THEN x ELSE d.d[j]])
DelItem(d, k) == PyDict([j \in DOMAIN d.d \ {k} |-> d.d[j]])

Rules == {"datasource", "winrm"}

\* the element keys of the datasource Dictionary
FlagKeys == {"run_noninventorized_checks", "show_field_errors", "show_table_errors"}
DatasourceKeys == {"write_smartm_data", "use_password_vault", "error_reporting"} \cup FlagKeys

\* mutant: only the True case of use_password_vault migrated
MigrateVaultTrueOnly(v) ==
    IF Get(v, "use_password_vault", None) = PyBool(TRUE)
    THEN SetItem(v, "use_password_vault", PyStr("keepass")) ELSE v

\* migrate, first element: use_password_vault True -> 'keepass', False -> deleted
MigrateVault(v) ==
    CASE Get(v, "use_password_vault", None) = PyBool(TRUE) ->
             SetItem(v, "use_password_vault", PyStr("keepass"))
      [] Get(v, "use_password_vault", None) = PyBool(FALSE) -> DelItem(v, "use_password_vault")
      [] OTHER -> v

\* migrate, second element: write_smartm_data True -> {}, False -> deleted
MigrateWrite(v) ==
    CASE Get(v, "write_smartm_data", None) = PyBool(TRUE) ->
             SetItem(v, "write_smartm_data", EmptyDict)
      [] Get(v, "write_smartm_data", None) = PyBool(FALSE) -> DelItem(v, "write_smartm_data")
      [] OTHER -> v

\* the list is evaluated left to right and its last element, v, returned
Migrate(v) == MigrateWrite(MigrateVault(v))

\* move_error_file: forth = lambda _: '', back = lambda _: True
MoveForth(d) == IF Has(d, "move_error_file") THEN SetItem(d, "move_error_file", PyStr("")) ELSE d
MoveBack(d) == IF Has(d, "move_error_file") THEN SetItem(d, "move_error_file", PyBool(TRUE)) ELSE d

\* error_reporting forth: next(iter(v.items())) if isinstance(v, dict) else v
ErrorForth(v) ==
    IF v.t = "dict"
    THEN LET k == CHOOSE k \in DOMAIN v.d : TRUE IN PyTuple(<<PyStr(k), v.d[k]>>)
    ELSE v

\* error_reporting back: {v[0]: v[1]} if isinstance(v, tuple) else v
ErrorBack(v) == IF v.t = "tuple" THEN PyDict(v.e[1].s :> v.e[2]) ELSE v

\* the CascadingDropdown passes the 'handle' choice's value to its Dictionary
ErrorReportingForth(v) ==
    LET f == ErrorForth(v)
    IN IF f.t = "tuple" /\ f.e[1] = PyStr("handle")
       THEN PyTuple(<<f.e[1], MoveForth(f.e[2])>>) ELSE f

ErrorReportingBack(f) ==
    ErrorBack(IF f.t = "tuple" /\ f.e[1] = PyStr("handle")
              THEN PyTuple(<<f.e[1], MoveBack(f.e[2])>>) ELSE f)

\* the datasource Dictionary: migrate, then each element's forth
DatasourceForth(v) ==
    LET m == Migrate(v)
    IN PyDict([k \in DOMAIN m.d |->
                 CASE k = "error_reporting" -> ErrorReportingForth(m.d[k])
                   [] k \in FlagKeys -> PyStr("")
                   [] OTHER -> m.d[k]])

\* mutant: the debug flags saved without their back conversion
DatasourceBackNoFlags(f) ==
    PyDict([k \in DOMAIN f.d |->
              IF k = "error_reporting" THEN ErrorReportingBack(f.d[k]) ELSE f.d[k]])

DatasourceBack(f) ==
    PyDict([k \in DOMAIN f.d |->
              CASE k = "error_reporting" -> ErrorReportingBack(f.d[k])
                [] k \in FlagKeys -> PyBool(TRUE)
                [] OTHER -> f.d[k]])

\* the required_keys of winrm_connectivity, each a Checkbox
WinrmRequired ==
    {"https", "disable_certificate_verification", "disable_hostname_verification",
     "built_in_root_certs"}

\* into_2_20's opts
Into220Opts ==
    ("https" :> PyBool(TRUE)) @@ ("built_in_root_certs" :> PyBool(TRUE))
    @@ ("disable_certificate_verification" :> PyBool(FALSE))
    @@ ("disable_hostname_verification" :> PyBool(FALSE))

\* mutant: "vs[opt] = state", the defaults over the user's settings
WithOptsOverwrite(vs) ==
    PyDict([k \in DOMAIN vs.d \cup DOMAIN Into220Opts |->
              IF k \in DOMAIN Into220Opts THEN Into220Opts[k] ELSE vs.d[k]])

\* "for opt, state in opts.items(): vs[opt] = vs.get(opt, state)"
WithOpts(vs) ==
    PyDict([k \in DOMAIN vs.d \cup DOMAIN Into220Opts |->
              IF k \in DOMAIN vs.d THEN vs.d[k] ELSE Into220Opts[k]])

\* into_2_20: an old winrm config dict becomes the choice ("WinRM", vs)
into_2_20(vs) == IF vs.t = "dict" THEN PyTuple(<<PyStr("WinRM"), WithOpts(vs)>>) ELSE vs

\* into_2_19: the dict inside a ("WinRM", vs) choice
into_2_19(vs) == IF vs.t = "tuple" THEN vs.e[2] ELSE vs

\* what a read leaves in the stored value: the in-place edits of migrate
\* and of into_2_20's loop
ReadInPlace(r, v) ==
    IF r = "datasource" THEN Migrate(v)
    ELSE IF v.t = "dict" THEN WithOpts(v) ELSE v

\* the value the form shows; the Transform of winrm_connectivity has
\* "back = into_2_19" commented out, so its back is the identity
Forth(r, v) == IF r = "datasource" THEN DatasourceForth(v) ELSE into_2_20(v)
\* mutant: the Transform with "back = into_2_19" put back in
BackInto219(r, f) == IF r = "datasource" THEN DatasourceBack(f) ELSE into_2_19(f)

Back(r, f) == IF r = "datasource" THEN DatasourceBack(f) ELSE f


CONSTANTS
    StoredValues,  \* [Rules -> values]: what rules.mk can hold for each rule
    EditForms      \* [Rules -> forms]: what a user can submit for each rule

VARIABLES
    stored,   \* the value in the ruleset, None before the rules are loaded
    loaded,   \* history: the value as loaded, None once the rule was edited
    shown,    \* the value of the open edit form, None when none is open
    written   \* history: the last form submitted, None before any

valVars == <<stored, loaded, shown, written>>
vars == <<regVars, valVars>>

NoRule == [r \in Rules |-> None]

\* WATO reads rules.mk once the plugin files are imported
LoadRules ==
    /\ imported = "done" /\ stored = NoRule
    /\ \E v \in [Rules -> UNION {StoredValues[r] : r \in Rules}] :
         /\ \A r \in Rules : v[r] \in StoredValues[r]
         /\ stored' = v
         /\ loaded' = v
    /\ UNCHANGED <<regVars, shown, written>>

\* the edit page of rule r renders its value; the in-place edits reach
\* rules.mk only if the ruleset is saved before it is read again
Read(r) ==
    /\ stored[r] # None
    /\ shown' = [shown EXCEPT ![r] = Forth(r, stored[r])]
    /\ \E persisted \in BOOLEAN :
         stored' = IF persisted THEN [stored EXCEPT ![r] = ReadInPlace(r, @)] ELSE stored
    /\ UNCHANGED <<regVars, loaded, written>>

\* the user submits form f: each back is applied and the rule saved
Edit(r, f) ==
    /\ shown[r] # None
    /\ stored' = [stored EXCEPT ![r] = Back(r, f)]
    /\ loaded' = [loaded EXCEPT ![r] = None]
    /\ shown' = [shown EXCEPT ![r] = None]
    /\ written' = [written EXCEPT ![r] = f]
    /\ UNCHANGED regVars

Init ==
    /\ ImportInit
    /\ stored = NoRule /\ loaded = NoRule /\ shown = NoRule /\ written = NoRule

Next ==
    \/ (RegisterRule \/ ImportDone \/ ImportRaises) /\ UNCHANGED valVars
    \/ LoadRules
    \/ \E r \in Rules : Read(r) \/ \E f \in EditForms[r] : Edit(r, f)

Spec == Init /\ [][Next]_vars

-----------------------------------------------------------------------------
(* Properties.                                                             *)

PyInt(n) == [t |-> "int", n |-> n]

\* the values the valuespec of rule r accepts from its form
Accepted(r, f) ==
    IF r = "winrm"
    THEN /\ f.t = "tuple"
         /\ f.e[1] \in {PyStr("WinRM"), PyStr("WindowsAgent")}
         /\ f.e[2].t = "dict"
         /\ f.e[1] = PyStr("WinRM") =>
              /\ WinrmRequired \subseteq DOMAIN f.e[2].d
              /\ \A k \in WinrmRequired : f.e[2].d[k].t = "bool"
    ELSE /\ f.t = "dict"
         /\ DOMAIN f.d \subseteq DatasourceKeys
         /\ Has(f, "use_password_vault") => f.d["use_password_vault"] = PyStr("keepass")
         /\ Has(f, "write_smartm_data") => f.d["write_smartm_data"].t = "dict"
         /\ \A k \in FlagKeys : Has(f, k) => f.d[k] = PyStr("")
         /\ Has(f, "error_reporting") =>
              LET e == f.d["error_reporting"]
              IN \/ e = PyStr("legacy")
                 \/ /\ e.t = "tuple" /\ e.e[1] = PyStr("handle") /\ e.e[2].t = "dict"
                    /\ \A k \in DOMAIN e.e[2].d : k = "move_error_file" /\ e.e[2].d[k] = PyStr("")

TypeOK ==
    /\ defined \in BOOLEAN
    /\ step \in 1..Len(Calls) + 1
    /\ imported \in {"running", "done", "raised"}
    /\ groupReg \subseteq {RuleGroup(g) : g \in Groups}
    /\ DOMAIN ruleReg \subseteq RuleNames
    /\ stored["winrm"] = None \/ stored["winrm"].t \in {"dict", "tuple"}
    \* the stored datasource dict: the types rules.mk holds per key
    /\ stored["datasource"] = None \/
         LET v == stored["datasource"]
         IN /\ v.t = "dict" /\ DOMAIN v.d \subseteq DatasourceKeys
            /\ \A k \in FlagKeys \cap DOMAIN v.d : v.d[k].t = "bool"
            /\ Has(v, "use_password_vault") => v.d["use_password_vault"].t \in {"bool", "str"}
            /\ Has(v, "write_smartm_data") => v.d["write_smartm_data"].t \in {"bool", "dict"}
            /\ Has(v, "error_reporting") => v.d["error_reporting"].t \in {"dict", "str", "tuple"}
    /\ \A r \in Rules : written[r] = None \/ written[r] \in EditForms[r]

(* Whatever version of a rule rules.mk holds (the old winrm dict, the      *)
(* datasource's boolean use_password_vault and write_smartm_data, a        *)
(* tuple-shaped error_reporting), the form WATO opens after migrate and    *)
(* the forth conversions is one the valuespec accepts: every required key *)
(* of winrm_connectivity is there and no legacy boolean is left.           *)
FormsAccepted == \A r \in Rules : shown[r] # None => Accepted(r, shown[r])

(* A submitted form comes back unchanged whenever the rule is opened       *)
(* again: back then migrate and forth return it, however often it is read  *)
(* and whether or not a read's in-place rewrite was saved.                *)
EditRoundTrip ==
    \A r \in Rules : shown[r] # None /\ written[r] # None => shown[r] = written[r]

\* the settings a datasource value stands for, in either representation
DatasourceSettings(v) ==
    LET e == Get(v, "error_reporting", None)
        er == IF e = None THEN None ELSE ErrorForth(e)
    IN [vault |-> Get(v, "use_password_vault", None) \in {PyBool(TRUE), PyStr("keepass")},
        write |-> Has(v, "write_smartm_data") /\ v.d["write_smartm_data"] # PyBool(FALSE),
        flags |-> FlagKeys \cap DOMAIN v.d,
        error |-> IF er = None THEN None
                  ELSE IF er.t = "tuple" THEN <<er.e[1], Has(er.e[2], "move_error_file")>>
                  ELSE <<er>>]

\* the winrm choice and the options the user set
WinrmSettings(v) == IF v.t = "dict" THEN <<PyStr("WinRM"), v.d>> ELSE <<v.e[1], v.e[2].d>>

(* Opening an unedited rule keeps every setting the user made: the old     *)
(* winrm dict keeps each option it had (into_2_20 only fills the missing   *)
(* ones), and the datasource keeps the password vault, data writing,       *)
(* error reporting and debug flags it had before migrate.                  *)
ReadKeepsSettings ==
    \A r \in Rules : shown[r] # None /\ loaded[r] # None =>
        IF r = "winrm"
        THEN /\ WinrmSettings(shown[r])[1] = WinrmSettings(loaded[r])[1]
             /\ \A k \in DOMAIN WinrmSettings(loaded[r])[2] :
                  WinrmSettings(shown[r])[2][k] = WinrmSettings(loaded[r])[2][k]
        ELSE DatasourceSettings(shown[r]) = DatasourceSettings(loaded[r])

(* After an import that ran to the end, every rule of the file is filed   *)
(* under the sub group of its own agent, each such sub group is           *)
(* registered, and no two agents share a sub group (the name              *)
(* _create_custom_group derives from the group path).                     *)
RegistryComplete ==
    imported = "done" =>
        /\ \A i \in DOMAIN Calls : ruleReg[Calls[i].name] = RuleGroup(Calls[i].group)
        /\ groupReg = {RuleGroup(g) : g \in Groups \ {"datasource_programs"}}
        /\ IsInjective([g \in Groups |-> RuleGroup(g)])

=============================================================================
