SPECIFICATION EvaluationSpec
CONSTANTS
    first = first
    corrected = corrected
    scene = scene
    Receipts <- MCReceipts
    SceneOf <- MCSceneOf
    TrialOf <- MCTrialOf
    Corrects <- MCCorrects
    Granted <- MCGranted
    MaxAttempts = 2
    Faults = {"crash", "lapse"}
    MaxFaults = 2
    MaxUpsets = 1
    Plan = Plan
    NoReceipt = NoReceipt
INVARIANTS
    OneChild
    StoredInOrder
PROPERTIES
    CancelIsFinal
    StoredWithAuthority
CHECK_DEADLOCK FALSE
VIEW MCView
CONSTRAINT MCTheyMeet
ACTION_CONSTRAINT MCFelt
