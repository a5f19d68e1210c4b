---------------------------- MODULE MC_WatoRules ----------------------------
(* Model-checking instance of WatoRules: the values rules.mk can hold for  *)
(* the two converted rules, in their old and current shapes, and the forms *)
(* a user can submit.  Absent marks a key the dict does not have.          *)
EXTENDS WatoRules

CONSTANTS Absent

\* the dict of the keys of record c that are not Absent
DictOf(c) == PyDict([k \in {k \in DOMAIN c : c[k] # Absent} |-> c[k]])

T == PyBool(TRUE)
F == PyBool(FALSE)
Handle(d) == PyTuple(<<PyStr("handle"), d>>)

\* datasource values as older and current versions stored them; the three
\* debug flags share one Transform, so one of them stands for all
MCStoredDatasource ==
    {DictOf(c) : c \in [use_password_vault : {Absent, T, F, PyStr("keepass")},
                        write_smartm_data : {Absent, T, F, EmptyDict},
                        error_reporting : {Absent, PyStr("legacy"),
                                           PyDict("handle" :> EmptyDict),
                                           PyDict("handle" :> PyDict("move_error_file" :> T)),
                                           Handle(EmptyDict)},
                        run_noninventorized_checks : {Absent, T}]}

MCFormsDatasource ==
    {DictOf(c) : c \in [use_password_vault : {Absent, PyStr("keepass")},
                        write_smartm_data : {Absent, EmptyDict},
                        error_reporting : {Absent, PyStr("legacy"), Handle(EmptyDict),
                                           Handle(PyDict("move_error_file" :> PyStr("")))},
                        run_noninventorized_checks : {Absent, PyStr("")}]}

\* winrm_connectivity dicts: any subset of the four checkboxes, as the old
\* plain Dictionary stored them
WinrmOptions ==
    {DictOf(c) : c \in [https : {Absent, T, F}, built_in_root_certs : {Absent, T, F},
                        disable_certificate_verification : {Absent, T, F},
                        disable_hostname_verification : {Absent, T, F}]}

WinrmFull == {d \in WinrmOptions : DOMAIN d.d = WinrmRequired}

MCFormsWinrm ==
    {PyTuple(<<PyStr("WinRM"), d>>) : d \in WinrmFull}
    \cup {PyTuple(<<PyStr("WindowsAgent"), EmptyDict>>),
          PyTuple(<<PyStr("WindowsAgent"), PyDict("port" :> PyInt(5050))>>)}

MCStoredValues ==
    ("datasource" :> MCStoredDatasource) @@ ("winrm" :> (WinrmOptions \cup MCFormsWinrm))

MCEditForms == ("datasource" :> MCFormsDatasource) @@ ("winrm" :> MCFormsWinrm)
=============================================================================
