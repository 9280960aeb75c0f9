----------------------------- MODULE RedisPorts -----------------------------
(***************************************************************************)
(* The ports of the Redis adapters: what they promise to callers, and that *)
(* the adapters ask a client for each of these operations, see             *)
(* RedisOperations.                                                        *)
(***************************************************************************)
EXTENDS RedisOperations

CountersPort == {"pttl", "incrby", "increx", "set"}
AsyncCountersPort == CountersPort

StringsPort == {"get", "mget", "mset", "keys", "getset", "getdel", "exists", "delete"}
AsyncStringsPort == StringsPort

KeysPort == {"append", "ttl", "type", "scan", "scan_iter"}
AsyncKeysPort == KeysPort

ListsPort == {"llen", "lpop", "lpush", "lrange", "lrem", "lset", "rpop", "rpush"}
AsyncListsPort == ListsPort

SetsPort == {"sscan", "sscan_iter", "sadd", "scard", "sismember", "smembers", "spop",
             "srem", "sunion"}
AsyncSetsPort == SetsPort

SortedSetsPort == {"zadd", "zcard", "zcount", "zpopmax", "zpopmin", "zrange"}
AsyncSortedSetsPort == SortedSetsPort

RanksPort == {"zrevrange", "zrangebyscore", "zrank", "zrem", "zscore", "zunion", "zinter",
              "zincrby"}
AsyncRanksPort == RanksPort

HashesPort == {"hdel", "hexists", "hget", "hgetall", "hkeys", "hlen", "hset", "hmget",
               "hvals"}
AsyncHashesPort == HashesPort

ArraysPort == {"arset", "arget", "arlen", "ardel", "arring"}
AsyncArraysPort == ArraysPort

PubSubPort == {"publish", "pubsub_channels", "pubsub"}
AsyncPubSubPort == PubSubPort

ClusterPort == {"cluster_info", "cluster_nodes", "cluster_slots", "cluster_key_slot",
                "cluster_count_keys_in_slot", "cluster_get_keys_in_slot"}
AsyncClusterPort == ClusterPort

ConnectionPort == {"ping", "flushdb", "get_pipeline", "config_set", "config_get",
                   "search_index"}
AsyncConnectionPort == ConnectionPort

SearchHandlePort == {"create_index", "drop_index", "info", "alter_schema_add",
                     "upsert_hash", "upsert_hash_dto", "upsert_json", "upsert_json_dto",
                     "get_document", "delete_document", "search", "aggregate", "add_alias",
                     "update_alias", "delete_alias"}
AsyncSearchHandlePort == SearchHandlePort

-----------------------------------------------------------------------------
RedisPort ==
    CountersPort \cup StringsPort \cup KeysPort \cup ListsPort \cup SetsPort \cup
    SortedSetsPort \cup RanksPort \cup HashesPort \cup ArraysPort \cup PubSubPort \cup
    ClusterPort \cup ConnectionPort
AsyncRedisPort ==
    AsyncCountersPort \cup AsyncStringsPort \cup AsyncKeysPort \cup AsyncListsPort
    \cup AsyncSetsPort \cup AsyncSortedSetsPort \cup AsyncRanksPort \cup
    AsyncHashesPort \cup AsyncArraysPort \cup AsyncPubSubPort \cup AsyncClusterPort
    \cup AsyncConnectionPort

LOCAL Asked(operations) == UNION {DOMAIN operations[k] : k \in DOMAIN operations}

\* Every operation of the ports is implemented by the adapters and modelled.
\* search_index() asks nobody: it hands out the handle for documents.  The adapters
\* have list_search_indexes(), which no port promises.
ASSUME PortImplemented ==
    LET extra == {"list_search_indexes"} IN
    /\ Asked(Operations) = (RedisPort \ {"search_index"}) \cup SearchHandlePort \cup extra
    /\ Asked(AsyncOperations) =
           (AsyncRedisPort \ {"search_index"}) \cup AsyncSearchHandlePort \cup extra
=============================================================================
