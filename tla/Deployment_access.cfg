SPECIFICATION Spec
CONSTANTS
    User = {u1, test}
    TestAdmin = test
    HandMade <- MCHandMade
    Goals <- MCGoals
INVARIANTS
    TypeInv
    CommandsGoThrough
    SchemaMatchesModels
    EveryoneServed
    SystemReadForAdministrators
PROPERTIES
    RolesOutliveMigrations
    StartFailsOnlyWithoutRoles
