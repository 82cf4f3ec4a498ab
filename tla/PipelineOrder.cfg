SPECIFICATION Spec
CONSTANTS
    srv = srv
    dbt = dbt
    RingSize = 2
    BufferSize = 1
    MaxLogins = 5
INVARIANT ResolvedOnceInOrder
 
PROPERTY LoginResolved
CHECK_DEADLOCK FALSE
