------------------------- MODULE ConfigFlowProofs -------------------------
(* Proofs about ConfigFlow for every set of headers and inputs and any      *)
(* number of trace runtimes.                                                *)
EXTENDS ConfigFlow, LifecycleProofs

(* While there is no entry nothing was set up and no flow is about one;     *)
(* once there is one, the form that adds it is gone.                        *)
EntryExists ==
    /\ data = None => /\ entry = "not_loaded"
                      /\ flow["reauth"] = NoFlow /\ flow["reconfigure"] = NoFlow
    /\ data # None => flow["user"] = NoFlow

ConfigInv == IInv /\ ConfigTypeOK /\ EntryExists /\ LoadedWithStored

-----------------------------------------------------------------------------
(* _normalize_connection_data turns what is entered into what can be stored.*)
LEMMA NormalizeType ==
    ASSUME NEW input \in Input
    PROVE  Normalize(input) \in Settings
BY DEF Input, Normalize, Settings

(* What is stored can be the input of a reauthentication.                   *)
LEMMA AsInputType ==
    ASSUME NEW s \in Settings
    PROVE  AsInput(s) \in Input
<1>1. CASE s \in [endpoint : Endpoints, protocol : Protocols]
  <2>1. DOMAIN s = {"endpoint", "protocol"}
    BY <1>1
  <2>2. AsInput(s) = [endpoint |-> s.endpoint, protocol |-> s.protocol, auth_header |-> ""]
    BY <2>1 DEF AsInput
  <2>3. s.endpoint \in Endpoints /\ s.protocol \in Protocols /\ "" \in Header \cup Blank
    BY <1>1 DEF Blank
  <2>4. \A e \in Endpoints, p \in Protocols, a \in Header \cup Blank :
            [endpoint |-> e, protocol |-> p, auth_header |-> a] \in Input
    BY DEF Input
  <2> QED BY <2>2, <2>3, <2>4
<1>2. CASE s \in [endpoint : Endpoints, protocol : Protocols, auth_header : Header]
  <2>1. DOMAIN s = {"endpoint", "protocol", "auth_header"}
    BY <1>2
  <2>2. AsInput(s) = s
    BY <2>1 DEF AsInput
  <2> QED BY <1>2, <2>2 DEF Input
<1> QED BY <1>1, <1>2 DEF Settings

(* What a reauthentication stores, merged into what was there, is settings. *)
LEMMA MergeType ==
    ASSUME NEW new \in Settings, NEW old \in Settings
    PROVE  Merge(new, old) \in Settings
<1> DEFINE Short == [endpoint : Endpoints, protocol : Protocols]
           Long  == [endpoint : Endpoints, protocol : Protocols, auth_header : Header]
<1>1. /\ \A s \in Short : /\ DOMAIN s = {"endpoint", "protocol"}
                          /\ s["endpoint"] \in Endpoints /\ s["protocol"] \in Protocols
      /\ \A s \in Long : /\ DOMAIN s = {"endpoint", "protocol", "auth_header"}
                         /\ s["endpoint"] \in Endpoints /\ s["protocol"] \in Protocols
                         /\ s["auth_header"] \in Header
  OBVIOUS
<1>2. new \in Short \/ new \in Long
  BY DEF Settings
<1>3. old \in Short \/ old \in Long
  BY DEF Settings
<1> DEFINE m == Merge(new, old)
<1>4. CASE new \in Short /\ old \in Short
  <2>1. m = [endpoint |-> m["endpoint"], protocol |-> m["protocol"]]
        /\ m["endpoint"] \in Endpoints /\ m["protocol"] \in Protocols
    BY <1>1, <1>4 DEF Merge
  <2> QED BY <2>1 DEF Settings
<1>5. CASE new \in Long \/ old \in Long
  <2>1. DOMAIN m = {"endpoint", "protocol", "auth_header"}
        /\ m["endpoint"] \in Endpoints /\ m["protocol"] \in Protocols /\ m["auth_header"] \in Header
    BY <1>1, <1>2, <1>3, <1>5 DEF Merge
  <2>2. m = [f \in DOMAIN m |-> m[f]]
    BY DEF Merge
  <2> HIDE DEF m
  <2>3. m = [endpoint |-> m["endpoint"], protocol |-> m["protocol"],
             auth_header |-> m["auth_header"]]
    BY <2>1, <2>2
  <2>4. \A e \in Endpoints, p \in Protocols, a \in Header :
            [endpoint |-> e, protocol |-> p, auth_header |-> a] \in Settings
    BY DEF Settings
  <2> QED BY <2>1, <2>3, <2>4 DEF m
<1> QED BY <1>2, <1>3, <1>4, <1>5

(* What a flow stores.                                                      *)
LEMMA StoredType ==
    ASSUME NEW source, NEW given \in Settings, source = "reauth" => data \in Settings
    PROVE  Stored(source, given) \in Settings
BY MergeType DEF Stored

-----------------------------------------------------------------------------
(* Every step of ConfigFlow is a step of Lifecycle, or leaves it alone.     *)
LEMMA ConfigStepIsLifecycleStep == [ConfigNext]_allVars => [Next]_vars
<1>1. FlowStep => UNCHANGED vars
  BY DEF FlowStep, OpenForm, CloseForm, Submit, Accepted, Refused
<1>2. SetupStep => Next
  BY DEF SetupStep, ValidateSetup, SetupConfiguredRuntime, Next
<1> QED BY <1>1, <1>2 DEF ConfigNext, BeginConfigured, ShutdownStep, Next, allVars

LEMMA InitConfigInv == ConfigInit => ConfigInv
<1> SUFFICES ASSUME ConfigInit PROVE ConfigInv
  OBVIOUS
<1>1. IInv
  BY InitIInv DEF ConfigInit
<1>2. ConfigTypeOK
  BY DEF ConfigInit, ConfigTypeOK, Flow, NoFlow, Sources
<1>3. EntryExists /\ LoadedWithStored
  BY DEF ConfigInit, Init, EntryExists, LoadedWithStored, Sources
<1> QED BY <1>1, <1>2, <1>3 DEF ConfigInv

(* A setup reads what is stored.                                            *)
LEMMA BeginConfiguredInv == ASSUME ConfigInv, BeginConfigured
                            PROVE  ConfigTypeOK' /\ EntryExists' /\ LoadedWithStored'
BY DEF ConfigInv, BeginConfigured, BeginSetup, ConfigTypeOK, EntryExists, LoadedWithStored,
       SettingsRead, Flow, NoFlow

(* The rest of a setup changes neither; it may start a reauthentication.    *)
LEMMA SetupStepInv == ASSUME ConfigInv, SetupStep
                      PROVE  ConfigTypeOK' /\ EntryExists' /\ LoadedWithStored'
<1>1. entry = "setup" /\ data # None /\ data \in Settings
  <2>1. step # "none"
    BY DEF SetupStep, ValidateSetup, Validate, SetupConfiguredRuntime, SetupTraceRuntime,
           InstallHooks, ImportFails, InstallLate
  <2>2. entry = "setup"
    BY <2>1 DEF ConfigInv, IInv, SetupInv
  <2> QED BY <2>2 DEF ConfigInv, EntryExists, ConfigTypeOK
<1>2. UNCHANGED <<data, using, reload>>
  BY DEF SetupStep, ValidateSetup, SetupConfiguredRuntime, configVars
<1>3. flow' = flow \/ flow' = [flow EXCEPT !["reauth"] = Validating(Normalize(AsInput(data)))]
  BY DEF SetupStep, ValidateSetup, StartReauth, SetupConfiguredRuntime, configVars
<1>4. Normalize(AsInput(data)) \in Settings
  BY <1>1, AsInputType, NormalizeType
<1>5. ConfigTypeOK' /\ EntryExists'
  BY <1>1, <1>2, <1>3, <1>4
     DEF ConfigInv, ConfigTypeOK, EntryExists, Flow, NoFlow, Validating, Sources
<1>6. LoadedWithStored'
  BY <1>1, <1>2 DEF ConfigInv, LoadedWithStored
<1> QED BY <1>5, <1>6

(* A flow that stores something behind the setup's back has it reloaded.    *)
LEMMA FlowStepInv == ASSUME ConfigInv, FlowStep
                     PROVE  ConfigTypeOK' /\ EntryExists' /\ LoadedWithStored'
<1>1. UNCHANGED <<entry, using>>
  BY DEF FlowStep, OpenForm, CloseForm, Submit, Accepted, Refused, vars
<1> PICK source \in Sources :
        \/ OpenForm(source) \/ CloseForm(source)
        \/ \E input \in Inputs : Submit(source, input)
        \/ \E answer \in Answers : Accepted(source, answer) \/ Refused(source, answer)
  BY DEF FlowStep
<1>2. CASE OpenForm(source)
  BY <1>1, <1>2 DEF OpenForm, ConfigInv, ConfigTypeOK, EntryExists, LoadedWithStored,
                    Flow, Form, NoFlow, Sources
<1>3. CASE CloseForm(source)
  BY <1>1, <1>3 DEF CloseForm, ConfigInv, ConfigTypeOK, EntryExists, LoadedWithStored,
                    Flow, NoFlow, Form, Sources
<1>4. ASSUME NEW input \in Inputs, Submit(source, input)
      PROVE  ConfigTypeOK' /\ EntryExists' /\ LoadedWithStored'
  <2>1. Normalize(input) \in Settings
    BY NormalizeType, InputsAssumption
  <2> QED BY <1>1, <1>4, <2>1 DEF Submit, ConfigInv, ConfigTypeOK, EntryExists, LoadedWithStored,
                    Flow, NoFlow, Form, Validating, Sources
<1>5. ASSUME NEW answer \in Answers, Refused(source, answer)
      PROVE  ConfigTypeOK' /\ EntryExists' /\ LoadedWithStored'
  BY <1>1, <1>5 DEF Refused, ConfigInv, ConfigTypeOK, EntryExists, LoadedWithStored,
                    Flow, NoFlow, Form, Sources
<1>6. ASSUME NEW answer \in Answers, Accepted(source, answer)
      PROVE  ConfigTypeOK' /\ EntryExists' /\ LoadedWithStored'
  <2>1. flow[source] # NoFlow /\ flow[source].given \in Settings
    BY <1>6 DEF Accepted, ConfigInv, ConfigTypeOK, NoFlow
  <2>2. source # "user" => data \in Settings
    BY <2>1 DEF ConfigInv, EntryExists, ConfigTypeOK, Sources
  <2>3. source = "user" => data = None
    BY <2>1 DEF ConfigInv, EntryExists
  <2>4. data' \in Settings /\ data' # None
    BY <1>6, <2>1, <2>2, StoredType, NoneIsNoSettings DEF Accepted
  <2>5. ConfigTypeOK'
    BY <1>1, <1>6, <2>4 DEF Accepted, ReloadAfter, ConfigInv, ConfigTypeOK, Flow, NoFlow, Sources
  <2>6. EntryExists'
    BY <1>6, <2>2, <2>4, NoneIsNoSettings
       DEF Accepted, ConfigInv, ConfigTypeOK, EntryExists, NoFlow, Sources
  <2>7. LoadedWithStored'
    BY <1>1, <1>6, <2>3 DEF Accepted, ReloadAfter, ConfigInv, EntryExists, LoadedWithStored
  <2> QED BY <2>5, <2>6, <2>7
<1> QED BY <1>2, <1>3, <1>4, <1>5, <1>6

LEMMA ConfigNextInv == ConfigInv /\ [ConfigNext]_allVars => ConfigInv'
<1> SUFFICES ASSUME ConfigInv, [ConfigNext]_allVars PROVE ConfigInv'
  OBVIOUS
<1>1. IInv'
  BY ConfigStepIsLifecycleStep, NextIInv DEF ConfigInv
<1>2. ASSUME \/ Shutdown \/ Unload \/ ForgetFailed
             \/ MqttSetUp \/ MqttAnnounced \/ HttpStarts \/ Register,
             UNCHANGED configVars
      PROVE  ConfigTypeOK' /\ EntryExists' /\ LoadedWithStored'
  <2>1. \/ entry' = entry
        \/ entry # "not_loaded" /\ entry' \in {"not_loaded", "unloading"}
    BY <1>2 DEF Shutdown, Unload, ForgetFailed, MqttSetUp, MqttAnnounced, HttpStarts, Register
  <2> QED BY <1>2, <2>1 DEF configVars, ConfigInv, ConfigTypeOK, EntryExists, LoadedWithStored
<1>3. ASSUME UNCHANGED allVars
      PROVE  ConfigTypeOK' /\ EntryExists' /\ LoadedWithStored'
  <2>1. UNCHANGED <<entry, data, using, reload, flow>>
    BY <1>3 DEF allVars, vars, configVars
  <2> QED BY <2>1 DEF ConfigInv, ConfigTypeOK, EntryExists, LoadedWithStored
<1>4. ConfigTypeOK' /\ EntryExists' /\ LoadedWithStored'
  <2>1. CASE ConfigNext
    <3>1. \/ BeginConfigured \/ SetupStep \/ FlowStep
          \/ /\ \/ Shutdown \/ Unload \/ ForgetFailed
                \/ MqttSetUp \/ MqttAnnounced \/ HttpStarts \/ Register
             /\ UNCHANGED configVars
      BY <2>1 DEF ConfigNext, ShutdownStep
    <3>2. CASE BeginConfigured
      BY <3>2, BeginConfiguredInv
    <3>3. CASE SetupStep
      BY <3>3, SetupStepInv
    <3>4. CASE FlowStep
      BY <3>4, FlowStepInv
    <3> QED BY <1>2, <3>1, <3>2, <3>3, <3>4
  <2> QED BY <1>3, <2>1
<1> QED BY <1>1, <1>4 DEF ConfigInv

-----------------------------------------------------------------------------
(* No stored header is blank, and what reauthentication merges is settings  *)
(* again (_normalize_connection_data, data_updates).                        *)
THEOREM ConfigTypeCorrect == ConfigSpec => []ConfigTypeOK
<1>1. ConfigInv => ConfigTypeOK
  BY DEF ConfigInv
<1> QED BY <1>1, InitConfigInv, ConfigNextInv, PTL DEF ConfigSpec

(* A setup that is on its way or done has the stored settings, or will be   *)
(* reloaded (async_update_reload_and_abort).                                *)
THEOREM SetupHasStored == ConfigSpec => []LoadedWithStored
<1>1. ConfigInv => LoadedWithStored
  BY DEF ConfigInv
<1> QED BY <1>1, InitConfigInv, ConfigNextInv, PTL DEF ConfigSpec

(* With its settings and flows the entry is still the entry of Lifecycle.   *)
THEOREM ConfigFlowIsLifecycle == ConfigSpec => Init /\ [][Next]_vars
<1>1. ConfigInit => Init
  BY DEF ConfigInit
<1> QED BY <1>1, ConfigStepIsLifecycleStep, PTL DEF ConfigSpec

(* So what was proved of Lifecycle holds of the entry that flows change.    *)
THEOREM ConfiguredEntryIsSafe ==
    ConfigSpec => /\ [](TypeOK /\ WrappedOnce /\ UnloadRestores /\ HooksExport /\ LoadedIsHooked)
                  /\ OneSwitch
<1>1. ConfigInv => TypeOK /\ WrappedOnce /\ UnloadRestores /\ HooksExport /\ LoadedIsHooked
  BY IInvWrappedOnce, IInvUnloadRestores, IInvHooksExport, IInvLoadedIsHooked DEF ConfigInv, IInv
<1>2. ConfigInv /\ ConfigInv' /\ [Next]_vars => [Switch!Next]_(Switch!vars)
  BY NextSwitches DEF ConfigInv
<1>3. ConfigSpec => []ConfigInv
  BY InitConfigInv, ConfigNextInv, PTL DEF ConfigSpec
<1> QED BY <1>1, <1>2, <1>3, ConfigFlowIsLifecycle, InitSwitches, PTL DEF OneSwitch, Switch!Spec
=============================================================================
