SPECIFICATION FileSpec
CONSTANTS
    Missing = Missing
    Torn = Torn
    OldFiles <- MCOldFiles
    MaxEdits = 3
INVARIANT ChoicesSurvive
PROPERTY StartsAsChosen
PROPERTY CompleteFilesAreLeftAlone
