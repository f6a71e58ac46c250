---------------------------- MODULE MCRedisStore ----------------------------
EXTENDS RedisStore

CONSTANTS v1, v2

\* One value that stays and one that expires.
TwoWrites == {[value |-> v1, ttl |-> 0], [value |-> v2, ttl |-> 1]}
=============================================================================
