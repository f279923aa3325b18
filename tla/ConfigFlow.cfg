CONSTANTS
    None = None
    token = token
    Header <- MCHeader
    Inputs <- MCInputs
    MaxRuntimes = 2
SPECIFICATION ConfigSpec
INVARIANTS TypeOK WrappedOnce UnloadRestores HooksExport LoadedIsHooked ConfigTypeOK LoadedWithStored
PROPERTIES OneSwitch MqttGetsTraced StoredIsUsed
