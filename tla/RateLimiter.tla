------------------------------ MODULE RateLimiter ------------------------------
(***************************************************************************)
(* create_rate_limiter (app/core/ratelimit.py): the settings decide, once  *)
(* and for all replicas, whether buckets are kept in the process or shared *)
(* in Redis.                                                               *)
(***************************************************************************)
EXTENDS TokenBucket, RedisBucket

VARIABLE backend       \* settings.rate_limit_backend

limiterVars == <<vars, redisVars, backend>>

LimiterInit ==
    /\ Init
    /\ RedisInit
    /\ backend \in {"memory", "redis"}

LimiterNext ==
    /\ UNCHANGED backend
    /\ \/ backend = "memory" /\ Next /\ UNCHANGED redisVars
       \/ backend = "redis" /\ RedisNext /\ UNCHANGED vars

LimiterSpec == LimiterInit /\ [][LimiterNext]_limiterVars
===============================================================================
