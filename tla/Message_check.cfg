\* Two messages, one builder, two settings in all.
CONSTANTS
    Bits <- MCBits
    Texts <- MCTexts
    Handles = {"m1", "m2"}
    Settings <- MCSettings
    Configs <- MCConfigs
    Expirations = {2000, 2500}
    Strings = {4}
    PayloadsOf <- MCPayloads
    Traces <- MCTraces
    Refusals = {"spanID"}
    Answers = {"m2"}
    RequestID <- MCRequestID
    MaxSteps = 2
SPECIFICATION Spec
INVARIANT ArrivesAsBuilt
CHECK_DEADLOCK FALSE
