--------------------------- MODULE AdapterCaches ---------------------------
(***************************************************************************)
(* Which methods of the MinIO, Vault and Keycloak adapters are cached, and *)
(* what their writes do: the cached answers a write changes on the server, *)
(* and the caches it clears afterwards, in order.                          *)
(*                                                                         *)
(* The order of clear_all_caches() is that of dir().  Keycloak's is the    *)
(* sync adapter; the async one uses another cache.  Its table has all      *)
(* writes to users, roles and clients.  The other mixins (groups, scopes,  *)
(* realms, authorization, flows, ...) cache nothing and clear nothing: what *)
(* they change of an answer here, as the permissions of a token, changes   *)
(* like the work of another client.                                        *)
(***************************************************************************)
EXTENDS Tables

Cache(maxsize, ttl) == [size |-> maxsize, ttl |-> ttl]
Writes(changed, cleared) == [changes |-> changed, clears |-> cleared]

-----------------------------------------------------------------------------
\* MinIO

BucketReads == [bucket_exists |-> Cache(100, 300)]
BucketListing == [list_buckets |-> Cache(1, 300)]
ObjectReads == [object_exists |-> Cache(100, 300),
                list_objects  |-> Cache(100, 300),
                stat_object   |-> Cache(100, 300)]
PolicyReads == [get_bucket_policy |-> Cache(100, 300)]
VersionReads == [get_bucket_versioning |-> Cache(100, 300),
                 list_object_versions  |-> Cache(100, 300)]

MinioReads == BucketReads ++ BucketListing ++ ObjectReads ++ PolicyReads ++ VersionReads

\* Asked anew by every call.
Downloads == {"get_object", "get_object_stream"}
Presigned == {"presigned_get_object", "presigned_put_object"}
TagReads == {"get_object_tags"}
LifecycleReads == {"get_bucket_lifecycle"}

\* clear_all_caches()
AllMinio == <<"bucket_exists", "get_bucket_policy", "get_bucket_versioning", "list_buckets",
              "list_object_versions", "list_objects", "object_exists", "stat_object">>

ClearObjectCaches == <<"list_objects", "object_exists">>

ObjectAnswers == {"object_exists", "list_objects", "stat_object", "list_object_versions"}

make_bucket == Writes({"bucket_exists", "list_buckets"}, AllMinio)
remove_bucket == Writes({"bucket_exists", "list_buckets", "list_objects", "get_bucket_policy",
                         "get_bucket_versioning", "list_object_versions"}, AllMinio)
put_object == Writes(ObjectAnswers, ClearObjectCaches)
remove_object == Writes(ObjectAnswers, ClearObjectCaches)
remove_objects == Writes(ObjectAnswers, ClearObjectCaches)
copy_object == Writes(ObjectAnswers, ClearObjectCaches)
put_object_stream == Writes(ObjectAnswers, ClearObjectCaches)
remove_object_version == Writes(ObjectAnswers, ClearObjectCaches)
set_bucket_policy == Writes({"get_bucket_policy"}, << >>)
set_bucket_versioning == Writes({"get_bucket_versioning"}, << >>)
set_object_tags == Writes({}, << >>)
remove_object_tags == Writes({}, << >>)
set_bucket_lifecycle == Writes({}, << >>)
delete_bucket_lifecycle == Writes({}, << >>)

MinioWrites ==
    [make_bucket             |-> make_bucket,
     remove_bucket           |-> remove_bucket,
     put_object              |-> put_object,
     remove_object           |-> remove_object,
     remove_objects          |-> remove_objects,
     copy_object             |-> copy_object,
     put_object_stream       |-> put_object_stream,
     remove_object_version   |-> remove_object_version,
     set_bucket_policy       |-> set_bucket_policy,
     set_bucket_versioning   |-> set_bucket_versioning,
     set_object_tags         |-> set_object_tags,
     remove_object_tags      |-> remove_object_tags,
     set_bucket_lifecycle    |-> set_bucket_lifecycle,
     delete_bucket_lifecycle |-> delete_bucket_lifecycle]

-----------------------------------------------------------------------------
\* Vault, with a SECRET_CACHE_TTL of 300 seconds; each adapter has its own cache

VaultReads == [read_secret |-> Cache(100, 300)]

clear_secret_cache == <<"read_secret">>

write_secret == Writes({"read_secret"}, clear_secret_cache)
delete_secret == Writes({"read_secret"}, clear_secret_cache)

VaultWrites == [write_secret |-> write_secret, delete_secret |-> delete_secret]

\* Requests that the cache has no part in.
Leases == {"list_secrets", "get_dynamic_credentials", "renew_lease", "revoke_lease"}
Transit == {"encrypt", "decrypt"}

-----------------------------------------------------------------------------
\* Keycloak

UserReads == [get_user_by_id       |-> Cache(100, 300),
              get_user_by_username |-> Cache(100, 300),
              get_user_by_email    |-> Cache(100, 300),
              search_users         |-> Cache(50, 30)]
RoleReads == [get_user_roles            |-> Cache(100, 300),
              get_client_roles_for_user |-> Cache(100, 300),
              get_realm_roles           |-> Cache(1, 300),
              get_realm_role            |-> Cache(1, 300)]
ClientReads == [get_service_account_id |-> Cache(1, 3600),
                get_client_secret      |-> Cache(50, 3600),
                get_client_id          |-> Cache(50, 3600)]
\* _get_userinfo_cached() is decorated as well, but get_userinfo() calls the function
\* it wraps: that cache stays empty.
TokenReads == [get_public_key          |-> Cache(1, 3600),
               get_well_known_config   |-> Cache(1, 3600),
               get_certs               |-> Cache(1, 3600),
               check_permissions_batch |-> Cache(200, 30)]

\* clear_all_caches()
AllKeycloak == <<"check_permissions_batch", "get_certs", "get_client_id",
                 "get_client_roles_for_user", "get_client_secret", "get_public_key",
                 "get_realm_role", "get_realm_roles", "get_service_account_id",
                 "get_user_by_email", "get_user_by_id", "get_user_by_username",
                 "get_user_roles", "get_well_known_config", "search_users">>

UserAnswers == {"get_user_by_id", "get_user_by_username", "get_user_by_email", "search_users"}

create_user == Writes(UserAnswers, AllKeycloak)
update_user == Writes(UserAnswers, AllKeycloak)
\* A temporary password is a required action of the user.
reset_password == Writes(UserAnswers, << >>)
\* The sessions end, and the user's tokens are void from now on.
clear_user_sessions == Writes(UserAnswers \cup {"check_permissions_batch"}, << >>)
delete_user == Writes(UserAnswers \cup {"get_user_roles", "get_client_roles_for_user"},
                      <<"get_user_by_username">>)
assign_realm_role == Writes({"get_user_roles"}, <<"get_user_roles">>)
remove_realm_role == Writes({"get_user_roles"}, <<"get_user_roles">>)
assign_client_role == Writes({"get_client_roles_for_user"}, <<"get_client_roles_for_user">>)
remove_client_role == Writes({"get_client_roles_for_user"}, <<"get_client_roles_for_user">>)
create_realm_role == Writes({"get_realm_roles", "get_realm_role"}, <<"get_realm_roles">>)
create_client_role == Writes({}, <<"get_client_roles_for_user">>)
delete_realm_role == Writes({"get_realm_roles", "get_realm_role", "get_user_roles"},
                            <<"get_realm_roles", "get_user_roles">>)
\* A role that gets its first children is shown as a composite.
add_realm_roles_to_composite ==
    Writes({"get_realm_roles", "get_realm_role", "get_user_roles"}, << >>)
add_client_roles_to_composite == Writes({"get_client_roles_for_user"}, << >>)
create_client == Writes({"get_client_id", "get_client_secret", "get_service_account_id"}, << >>)

-----------------------------------------------------------------------------
CachedReads == MinioReads ++ VaultReads ++ UserReads ++ RoleReads ++ ClientReads ++ TokenReads

AdapterWrites == {MinioWrites[w] : w \in DOMAIN MinioWrites}
                 \cup {VaultWrites[w] : w \in DOMAIN VaultWrites}
                 \cup {create_user, update_user, reset_password, clear_user_sessions,
                       delete_user, assign_realm_role, remove_realm_role,
                       assign_client_role, remove_client_role, create_realm_role,
                       create_client_role, delete_realm_role, add_realm_roles_to_composite,
                       add_client_roles_to_composite, create_client}
=============================================================================
