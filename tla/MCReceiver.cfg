SPECIFICATION Spec
CONSTANTS
    Ids = {a}
    Fresh = fresh
    Configs <- MCConfigs
    MaxRequests = 3
INVARIANTS IInv HandedOncePerWindow SlotMatchesAnswer OptionsFollowFutures AnswersAreHonest
