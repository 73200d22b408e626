SPECIFICATION Spec
CONSTANTS
    Msgs = {m1, m2, m3}
    Ids = {a, b}
SYMMETRY MCSymmetry
INVARIANTS IInv OneOrderWhileRemembered AccountFollowsCommands
PROPERTIES CooldownPreventsStacking
