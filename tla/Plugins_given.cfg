CONSTANTS
    Names = {t1}
    ReadNames = {t1}
    Bots = {b1, b2}
    Policies = {{}, {"read"}}
    Calls = {c1}
    MaxChanges = 2
    Keyed = {1}
    MaxTokens = 1
    Slugs = {s1}
    ann = ann
    bob = bob
    People = {ann, bob, root}
    Admins = {root}
    a1 = a1
    a2 = a2
    a3 = a3
    Agents = {a1, a2, a3}
    AgentOwner <- MCAgentOwner
    NoOne = NoOne
    Visits = {v1, v2}
    Viewers = {w1}
    Handlers = {h1, h2}
    MaxDrafts = 3
    Coworkers = {x1, x2}
    BuiltIn = {x1}
    Owned = {x2}
    MaxKeys = 2
    MaxEdits = 2
SPECIFICATION MCSpec
INVARIANTS GivenTypeOK Governed SecretsGoHome RefreshAloneIsWholesale SkillsStayWithTheirOwner ComponentsAreGoverned CoworkersAreAsTheyWere
SYMMETRY Symmetry
CHECK_DEADLOCK FALSE
