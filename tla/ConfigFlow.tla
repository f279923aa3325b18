---------------------------- MODULE ConfigFlow ----------------------------
(* config_flow.py, together with the entry whose settings it writes: the    *)
(* settings are read when a setup begins, validated in an executor job, and *)
(* may be replaced by a flow at any of the awaits of Lifecycle.             *)
EXTENDS Lifecycle, Otlp

CONSTANTS
    Header,         \* authorization headers
    Inputs          \* bound: what users enter, a subset of Input

Blank == {"", " "}      \* the header field left empty, or only spaces in it

ASSUME HeaderAssumption == Header \cap Blank = {} /\ None \notin Header

Input == [endpoint : Endpoints, protocol : Protocols, auth_header : Header \cup Blank]

ASSUME InputsAssumption == Inputs \subseteq Input

(* What is stored: the header is a key of its own, or not there.            *)
Settings == [endpoint : Endpoints, protocol : Protocols]
            \cup [endpoint : Endpoints, protocol : Protocols, auth_header : Header]

ASSUME NoneIsNoSettings == None \notin Settings

Sources == {"user", "reauth", "reconfigure"}

VARIABLES
    data,           \* entry.data, or None before there is an entry
    using,          \* the settings async_setup_entry last read, or None
    reload,         \* a reload of the entry is scheduled
    flow            \* the config flow of each source

configVars == <<data, using, reload, flow>>

Flow == [at : {"none", "form", "validating"}, given : Settings \cup {None}]

NoFlow         == [at |-> "none", given |-> None]
Form           == [at |-> "form", given |-> None]
Validating(s)  == [at |-> "validating", given |-> s]

-----------------------------------------------------------------------------
NormalizeMutant(input) ==
    IF input.auth_header = "" THEN [endpoint |-> input.endpoint, protocol |-> input.protocol]
    ELSE input

(* _normalize_connection_data: a header that is blank is left out.          *)
Normalize(input) ==
    IF input.auth_header \in Blank
    THEN [endpoint |-> input.endpoint, protocol |-> input.protocol]
    ELSE input

(* Reauthentication begins with the stored settings as the user's input.    *)
AsInput(settings) ==
    IF "auth_header" \in DOMAIN settings THEN settings
    ELSE [endpoint |-> settings.endpoint, protocol |-> settings.protocol, auth_header |-> ""]

Merge(new, old) ==
    [f \in DOMAIN new \cup DOMAIN old |-> IF f \in DOMAIN new THEN new[f] ELSE old[f]]

(* What a validated flow stores: reconfiguration replaces (data=...),       *)
(* reauthentication updates (data_updates=...), so a header stays.          *)
Stored(source, given) == IF source = "reauth" THEN Merge(given, data) ELSE given

ReloadAfterMutant(source) == source = "reconfigure"

(* async_update_reload_and_abort schedules a reload; a new entry is set up. *)
ReloadAfter(source) == source # "user"

ConfigInit == /\ Init
              /\ data = None /\ using = None
              /\ reload = FALSE
              /\ flow = [s \in Sources |-> NoFlow]

-----------------------------------------------------------------------------
(* The entry                                                                *)

SettingsReadMutant == IF using = None THEN data ELSE using

(* async_setup_entry takes its settings from the entry when it starts.      *)
SettingsRead == data

(* There is an entry to set up once a flow has stored one; a scheduled      *)
(* reload ends in this step, from whatever state the entry was in.          *)
BeginConfigured ==
    /\ data # None
    /\ BeginSetup
    /\ using' = SettingsRead
    /\ reload' = FALSE
    /\ UNCHANGED <<data, flow>>

(* ConfigEntryAuthFailed: unless a flow is already about it, Home Assistant *)
(* starts a reauthentication, whose first step validates what is stored as  *)
(* if it had been entered.                                                  *)
StartReauth ==
    flow' = IF flow["reauth"] = NoFlow /\ flow["reconfigure"] = NoFlow
            THEN [flow EXCEPT !["reauth"] = Validating(Normalize(AsInput(data)))]
            ELSE flow

(* The try of async_setup_entry around the validation.                      *)
ValidateSetup(answer) ==
    LET outcome == ValidateConnection(using, answer) IN
    /\ Validate
    /\ (outcome = "accepted") = (step' = "runtime")
    /\ (outcome = "OtelConnectionError") = (entry' = "setup_retry")
    /\ IF outcome = "OtelAuthenticationError" THEN StartReauth ELSE UNCHANGED flow
    /\ UNCHANGED <<data, using, reload>>

SetupConfiguredRuntime ==
    /\ SetupTraceRuntime
    /\ ExporterRaises(using) => entry' = "setup_retry"
    /\ UNCHANGED configVars

-----------------------------------------------------------------------------
(* The flows                                                                *)

(* The user adds the integration (single_config_entry) or reconfigures it.  *)
OpenForm(source) ==
    /\ flow[source] = NoFlow
    /\ \/ source = "user" /\ data = None
       \/ source = "reconfigure" /\ data # None
    /\ flow' = [flow EXCEPT ![source] = Form]
    /\ UNCHANGED <<vars, data, using, reload>>

(* _async_handle_connection_step with user input, up to its await ...       *)
Submit(source, input) ==
    /\ flow[source] = Form
    /\ flow' = [flow EXCEPT ![source] = Validating(Normalize(input))]
    /\ UNCHANGED <<vars, data, using, reload>>

(* ... the validation succeeds ...                                          *)
Accepted(source, answer) ==
    /\ flow[source].at = "validating"
    /\ ValidateConnection(flow[source].given, answer) = "accepted"
    /\ data' = Stored(source, flow[source].given)
    /\ reload' = (reload \/ ReloadAfter(source))
    /\ flow' = [flow EXCEPT ![source] = NoFlow]
    /\ UNCHANGED <<vars, using>>

(* ... or the form is shown with invalid_auth, cannot_connect or unknown.   *)
Refused(source, answer) ==
    /\ flow[source].at = "validating"
    /\ ValidateConnection(flow[source].given, answer) # "accepted"
    /\ flow' = [flow EXCEPT ![source] = Form]
    /\ UNCHANGED <<vars, data, using, reload>>

(* The user closes the form; one for reauthentication stays.                *)
CloseForm(source) ==
    /\ source # "reauth"
    /\ flow[source] = Form
    /\ flow' = [flow EXCEPT ![source] = NoFlow]
    /\ UNCHANGED <<vars, data, using, reload>>

FlowStep ==
    \E source \in Sources :
        \/ OpenForm(source) \/ CloseForm(source)
        \/ \E input \in Inputs : Submit(source, input)
        \/ \E answer \in Answers : Accepted(source, answer) \/ Refused(source, answer)

SetupStep == \/ \E answer \in Answers : ValidateSetup(answer)
             \/ SetupConfiguredRuntime
             \/ /\ InstallHooks \/ ImportFails \/ InstallLate
                /\ UNCHANGED configVars

ReloadStep == reload /\ Unload /\ UNCHANGED configVars

ShutdownStep == Shutdown /\ UNCHANGED configVars

ConfigNext == \/ BeginConfigured \/ SetupStep \/ FlowStep \/ ShutdownStep
              \/ /\ Unload \/ ForgetFailed \/ MqttSetUp \/ MqttAnnounced \/ HttpStarts \/ Register
                 /\ UNCHANGED configVars

allVars == <<vars, configVars>>

(* Executor jobs return, the validation within its timeout: a setup goes on *)
(* while there is one; a reload that is scheduled is a task of its own;     *)
(* components are announced.  The first two are weak fairness, with what    *)
(* enables SetupStep and ReloadStep written out.                            *)
SetupGoesOn == []<>(step = "none") \/ []<><<SetupStep>>_allVars

ReloadBegins == []<>~(reload /\ entry = "loaded") \/ []<><<ReloadStep>>_allVars

ConfigSpec == /\ ConfigInit /\ [][ConfigNext]_allVars
              /\ SetupGoesOn /\ ReloadBegins
              /\ WF_allVars(ShutdownStep) /\ WF_allVars(reload /\ BeginConfigured)
              /\ WF_allVars(MqttAnnounced /\ UNCHANGED configVars)

-----------------------------------------------------------------------------
(* Types; in particular, no stored header is blank.                         *)
ConfigTypeOK ==
    /\ data \in Settings \cup {None}
    /\ using \in Settings \cup {None}
    /\ reload \in BOOLEAN
    /\ flow \in [Sources -> Flow]
    /\ \A s \in Sources : flow[s].at = "validating" => flow[s].given \in Settings

(* A setup that is on its way or done works with the settings that are      *)
(* stored, or a reload that will replace it is scheduled: settings a flow   *)
(* writes while the entry awaits something are not lost to the runtime.     *)
LoadedWithStored ==
    (entry \in {"setup", "loaded"} /\ ~reload) => using = data

(* A scheduled reload gets to read the new settings, whatever the setup it  *)
(* met was waiting for.                                                     *)
StoredIsUsed == reload ~> (reload = FALSE /\ using = data)
=============================================================================
