---------------------------- MODULE AdapterPorts ----------------------------
(***************************************************************************)
(* The ports of the adapters to Kafka, ScyllaDB, Temporal, MinIO, Vault    *)
(* and mail: the operations they promise to callers.  The modules that     *)
(* check an adapter compare its operations with its port.                  *)
(***************************************************************************)

-----------------------------------------------------------------------------
\* Kafka, besides topics

KafkaConsumerPort == {"batch_consume", "poll", "commit", "subscribe", "assign", "close"}
AsyncKafkaConsumerPort == KafkaConsumerPort

KafkaProducerPort == {"produce", "flush", "validate_healthiness", "list_topics", "close"}
AsyncKafkaProducerPort == KafkaProducerPort

-----------------------------------------------------------------------------
\* ScyllaDB

ScyllaDBStatements == {"execute", "prepare", "execute_prepared", "create_keyspace",
                       "drop_keyspace", "use_keyspace", "create_table", "drop_table"}
AsyncScyllaDBStatements == ScyllaDBStatements

ScyllaDBRows == {"insert", "select", "update", "delete", "batch_execute"}
AsyncScyllaDBRows == ScyllaDBRows

ScyllaDBState == {"get_session", "is_connected", "health_check", "count", "exists",
                  "get_pool_stats"}
AsyncScyllaDBState == ScyllaDBState

ScyllaDBPort == ScyllaDBStatements \cup ScyllaDBRows \cup ScyllaDBState
AsyncScyllaDBPort ==
    AsyncScyllaDBStatements \cup AsyncScyllaDBRows \cup AsyncScyllaDBState

-----------------------------------------------------------------------------
\* Temporal

WorkflowPort == {"start_workflow", "execute_workflow", "get_workflow_handle",
                 "cancel_workflow", "terminate_workflow"}

RunningWorkflowPort == {"signal_workflow", "query_workflow", "list_workflows",
                        "describe_workflow"}

SchedulePort == {"close", "create_schedule", "stop_schedule"}

TemporalPort == WorkflowPort \cup RunningWorkflowPort \cup SchedulePort

WorkerPort == {"start_worker", "stop_worker", "shutdown_all_workers"}

-----------------------------------------------------------------------------
\* MinIO

MinioBucketPort == {"bucket_exists", "make_bucket", "remove_bucket", "list_buckets"}

MinioObjectPort == {"put_object", "get_object", "remove_object", "remove_objects",
                    "object_exists", "list_objects", "stat_object", "presigned_get_object",
                    "presigned_put_object"}

MinioPolicyPort == {"set_bucket_policy", "get_bucket_policy", "copy_object",
                    "put_object_stream", "get_object_stream"}

MinioTagPort == {"set_object_tags", "remove_object_tags", "get_object_tags",
                 "set_bucket_lifecycle", "get_bucket_lifecycle", "delete_bucket_lifecycle"}

MinioVersionPort == {"set_bucket_versioning", "get_bucket_versioning",
                     "list_object_versions", "remove_object_version"}

MinioPort == MinioBucketPort \cup MinioObjectPort \cup MinioPolicyPort
             \cup MinioTagPort \cup MinioVersionPort

-----------------------------------------------------------------------------
\* Vault and email

VaultPort == {"read_secret", "write_secret", "delete_secret", "list_secrets",
              "get_dynamic_credentials", "renew_lease", "revoke_lease", "encrypt",
              "decrypt"}

EmailPort == {"send_email"}
=============================================================================
