SPECIFICATION Spec
CONSTANTS
    MinGroup = 2
    Crowd = 3
    Stops = {"form", "dialog"}
    Forms = {"form"}
    Marked = {"marked"}
    Layout <- MCLayout
    Look <- MCLook
    Moving <- MCMoving
    Still <- MCStill
    Site <- MCSite
    Ordinary = 1
    Turns <- MCTurns
    Rules <- MCRules
    Options <- MCOptions
    DefaultRules <- MCDefaultRules
    Scenes <- MCScenes
    MaxPage = 2
    MaxUser = 2
    MaxSessions = 2
INVARIANTS
    OnePerCode
PROPERTIES
    GuardsReleased
    Vetoed
    GroupWins
    ActsAsAllowed
CHECK_DEADLOCK FALSE
