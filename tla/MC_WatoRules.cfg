CONSTANTS
    None = None
    Absent = Absent
    StoredValues <- MCStoredValues
    EditForms <- MCEditForms
SPECIFICATION Spec
\* a failed import of the plugin file leaves WATO nothing of it to do
CHECK_DEADLOCK FALSE
INVARIANT TypeOK
INVARIANT FormsAccepted
INVARIANT EditRoundTrip
INVARIANT ReadKeepsSettings
INVARIANT RegistryComplete
