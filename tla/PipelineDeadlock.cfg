SPECIFICATION Spec
CONSTANTS
    srv = srv
    dbt = dbt
    RingSize = 1
    BufferSize = 1
    MaxLogins = 5
INVARIANT NoCircularWait
CHECK_DEADLOCK FALSE
