-------------------------- MODULE RedisOperations --------------------------
(***************************************************************************)
(* The operations of the Redis adapters: which of the adapter's clients    *)
(* each one asks, "client" or "read_only_client", and what Redis does when *)
(* it is asked.  Every operation is one request, but for three of the      *)
(* search handles that make several of their kind: get_document() reads    *)
(* the type first, alter_schema_add() may read the index, and upsert_hash() *)
(* writes field by field.                                                  *)
(*                                                                         *)
(*   "write"  changes data, which replicas receive later;                  *)
(*   "read"   answers from the data of the server that is asked;           *)
(*   "set" and "show" change and answer a state that servers keep each     *)
(*            for themselves: parameters, subscriptions;                   *)
(*   "none"   neither: messages, pings, the layout of the cluster.         *)
(*                                                                         *)
(* The async mixins ask the same clients as the sync ones.                 *)
(***************************************************************************)
EXTENDS Tables

LOCAL Ask(c, e, operations) == [o \in operations |-> [client |-> c, effect |-> e]]
Writes(operations) == Ask("client", "write", operations)
Reads(operations) == Ask("read_only_client", "read", operations)
PrimaryReads(operations) == Ask("client", "read", operations)
Others(operations) == Ask("client", "none", operations)

-----------------------------------------------------------------------------
\* Strings, and keys of any type

Counters == Reads({"pttl"}) ++ Writes({"incrby", "increx", "set"})
AsyncCounters == Counters

Strings == Reads({"get", "mget", "keys", "exists"})
           ++ Writes({"mset", "getset", "getdel", "delete"})
AsyncStrings == Strings

Keys == Reads({"ttl", "type", "scan", "scan_iter"}) ++ Writes({"append"})
AsyncKeys == Keys

-----------------------------------------------------------------------------
\* Collections

Lists == Reads({"llen", "lrange"})
         ++ Writes({"lpop", "lpush", "lrem", "lset", "rpop", "rpush"})
AsyncLists == Lists

\* The size and the union of sets are asked of the primary, members are not.
Sets == Reads({"sscan", "sscan_iter", "sismember", "smembers"})
        ++ PrimaryReads({"scard", "sunion"})
        ++ Writes({"sadd", "spop", "srem"})
AsyncSets == Sets

\* Mutant: the rank of a member is asked of a replica.
RanksFromReplica == PrimaryReads({"zrevrange", "zrangebyscore", "zscore", "zunion", "zinter"})
                    ++ Reads({"zrank"}) ++ Writes({"zrem", "zincrby"})

SortedSets == PrimaryReads({"zcard", "zcount", "zrange"}) ++ Writes({"zadd", "zpopmax", "zpopmin"})
AsyncSortedSets == SortedSets
Ranks == PrimaryReads({"zrevrange", "zrangebyscore", "zrank", "zscore", "zunion", "zinter"})
         ++ Writes({"zrem", "zincrby"})
AsyncRanks == Ranks

\* Mutants: the fields of a hash are deleted at a replica, which refuses or, as
\* one that accepts writes, takes it for itself; the size of a hash is asked of
\* the primary.
HashesDeletedAtReplica == Reads({"hexists", "hget", "hgetall", "hkeys", "hlen", "hmget", "hvals"})
                          ++ Writes({"hset"}) ++ Ask("read_only_client", "write", {"hdel"})
HashesKeptAtReplica == Reads({"hexists", "hget", "hgetall", "hkeys", "hlen", "hmget", "hvals"})
                       ++ Writes({"hset"}) ++ Ask("read_only_client", "set", {"hdel"})
HashesMixed == Reads({"hexists", "hget", "hgetall", "hkeys", "hmget", "hvals"})
               ++ PrimaryReads({"hlen"}) ++ Writes({"hdel", "hset"})
Hashes == Reads({"hexists", "hget", "hgetall", "hkeys", "hlen", "hmget", "hvals"})
          ++ Writes({"hdel", "hset"})
AsyncHashes == Hashes

\* RedisSearchHandle, and the list of all indexes: the client is a binary one for the
\* primary.
Indexes == PrimaryReads({"info", "list_search_indexes"})
           ++ Writes({"create_index", "drop_index", "alter_schema_add"})
AsyncIndexes == Indexes
Documents == PrimaryReads({"get_document"})
             ++ Writes({"upsert_hash", "upsert_hash_dto", "upsert_json", "upsert_json_dto",
                        "delete_document"})
AsyncDocuments == Documents
Queries == PrimaryReads({"search", "aggregate"})
           ++ Writes({"add_alias", "update_alias", "delete_alias"})
AsyncQueries == Queries

Arrays == Reads({"arget", "arlen"}) ++ Writes({"arset", "ardel", "arring"})
AsyncArrays == Arrays

-----------------------------------------------------------------------------
\* The server

\* get_pipeline() hands out a pipeline of client; flushdb() empties everything.
Server == Others({"ping"}) ++ Writes({"flushdb", "get_pipeline"})
AsyncServer == Server

\* A parameter is set at the primary and shown by a replica.
Parameters == Ask("client", "set", {"config_set"})
              ++ Ask("read_only_client", "show", {"config_get"})
AsyncParameters == Parameters

PubSub == Others({"publish"}) ++ Ask("client", "set", {"pubsub"})
          ++ Ask("client", "show", {"pubsub_channels"})
AsyncPubSub == PubSub

\* Answered only if client is a RedisCluster.
Cluster == Others({"cluster_info", "cluster_nodes", "cluster_slots", "cluster_key_slot",
                   "cluster_count_keys_in_slot", "cluster_get_keys_in_slot"})
AsyncCluster == Cluster

-----------------------------------------------------------------------------
\* RedisAdapter and AsyncRedisAdapter, by the kind of state that is concerned

Operations ==
    [strings     |-> Counters ++ Strings ++ Keys ++ Server,
     lists       |-> Lists ++ Server,
     sets        |-> Sets ++ Server,
     sorted_sets |-> SortedSets ++ Ranks ++ Server,
     hashes      |-> Hashes ++ Server,
     arrays      |-> Arrays ++ Server,
     documents   |-> Indexes ++ Documents ++ Queries,
     parameters  |-> Parameters,
     channels    |-> PubSub,
     topology    |-> Cluster]
AsyncOperations ==
    [strings     |-> AsyncCounters ++ AsyncStrings ++ AsyncKeys ++ AsyncServer,
     lists       |-> AsyncLists ++ AsyncServer,
     sets        |-> AsyncSets ++ AsyncServer,
     sorted_sets |-> AsyncSortedSets ++ AsyncRanks ++ AsyncServer,
     hashes      |-> AsyncHashes ++ AsyncServer,
     arrays      |-> AsyncArrays ++ AsyncServer,
     documents   |-> AsyncIndexes ++ AsyncDocuments ++ AsyncQueries,
     parameters  |-> AsyncParameters,
     channels    |-> AsyncPubSub,
     topology    |-> AsyncCluster]
=============================================================================
