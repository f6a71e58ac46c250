----------------------------- MODULE MCLruCache -----------------------------
EXTENDS LruCache

CONSTANTS v1, v2

\* One value that stays and one that expires.
StayAndExpire == {[value |-> v1, ttl |-> 0], [value |-> v2, ttl |-> 1]}
=============================================================================
