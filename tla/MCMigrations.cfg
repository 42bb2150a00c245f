SPECIFICATION Spec
CONSTANTS
    Commands = {up, op}
    Container = up
INVARIANTS
    TypeOK
    EveryStatementApplies
    SchemaIsItsVersion
    AuditLogIsAppendOnly
    RoleCanLogIn
PROPERTIES
    ServesCompleteSchema
