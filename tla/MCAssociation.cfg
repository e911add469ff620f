CONSTANTS
    Executors = {"x"}
    Spinners = {"x"}
    Nodes = {"node"}
    Groups = {"default", "created"}
    Automatic = {"default", "created"}
    NodeOf <- MCNodeOf
    Late = {"created"}
    EntityKinds = {"timer"}
    AddsByHand = {}
    MayDestroy = FALSE
    DropsGroups = FALSE
    MaxCalls = 2
SPECIFICATION FairSpec
CHECK_DEADLOCK FALSE
PROPERTY CreatedGroupCollected
