SPECIFICATION PathSpec
CONSTRAINT OneAtATime
CONSTANTS
    Day = 5
    IntMax = 8
    Commands <- MCCommands
    Payloads <- MCPayloads
    Configs <- MCConfigs
    MaxContracts = 2
INVARIANT AcceptedIsAccepted
INVARIANT HoursGoRoundTheClock
INVARIANT FlowOrdersAreValid
INVARIANT SierraTradesWhatIsAllowed
 
