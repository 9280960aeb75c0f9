------------------------- MODULE KeycloakOperations -------------------------
(***************************************************************************)
(* The operations of the Keycloak adapters, each with the plans it may     *)
(* follow: what it does, step by step.                                     *)
(*                                                                         *)
(* "request" uses the shared admin client, fetched from the admin_adapter  *)
(* property anew for every step, "openid" and "uma" one call of the        *)
(* clients for tokens and for user-managed access, whose realm is never    *)
(* set.                                                                    *)
(* "all" is clear_all_caches(), which reads every attribute of the         *)
(* adapter, the property among them.  "origin", "switch", "answer" and     *)
(* "restore" read or set the realm name of the client's connection.        *)
(* Clearing the cache of one method does not touch a client and is not a   *)
(* step; a method whose answer is cached makes no step at all.  A request  *)
(* that is not made, because an earlier one was refused or found nothing,  *)
(* ends the plan early.                                                    *)
(*                                                                         *)
(* The async mixins make the same requests as the sync ones and await      *)
(* each.                                                                   *)
(***************************************************************************)
EXTENDS Naturals, Tables

CONSTANT MaxChildren  \* bound on the roles that are added to a composite at once

ASSUME MaxChildrenAssumption == MaxChildren \in Nat

Requests(n) == [i \in 1..n |-> "request"]
Single(operations) == [o \in operations |-> {Requests(1)}]
OpenId(operations) == [o \in operations |-> {<<"openid">>}]
Uma(operations) == [o \in operations |-> {<<"uma">>}]

-----------------------------------------------------------------------------
\* Tokens.  validate_token() and the checks answer False when the call fails.

Tokens == OpenId({"get_public_key", "get_token", "refresh_token", "validate_token"})
AsyncTokens == Tokens

Endpoints == OpenId({"get_userinfo", "get_well_known_config", "get_certs"})
AsyncEndpoints == Endpoints

Exchanges == OpenId({"get_token_from_code", "get_client_credentials_token", "logout",
                     "introspect_token", "get_token_info"})
AsyncExchanges == Exchanges

PermissionChecks == OpenId({"check_permissions_batch", "check_permissions"})
AsyncPermissionChecks == PermissionChecks

\* By get_userinfo()
RoleChecks == OpenId({"has_role", "has_any_of_roles", "has_all_roles"})
AsyncRoleChecks == RoleChecks

-----------------------------------------------------------------------------
\* User-managed access

ResourceSets == Uma({"resource_set_create", "resource_set_read", "resource_set_update",
                     "resource_set_delete", "resource_set_list", "resource_set_list_ids"})
AsyncResourceSets == ResourceSets

UmaPolicies == Uma({"policy_resource_create", "policy_update", "policy_delete", "policy_query",
                    "permission_ticket_create", "permissions_check"})
AsyncUmaPolicies == UmaPolicies

-----------------------------------------------------------------------------
\* Administration

UserChanges ==
    Single({"get_user_by_id", "get_user_by_username", "get_user_by_email",
            "reset_password"})
    ++ [create_user  |-> {<<"request", "all">>},
        update_user  |-> {<<"request", "all">>}]
AsyncUserChanges == UserChanges

UserSearch ==
    Single({"clear_user_sessions", "delete_user"})
    ++ [search_users |-> {Requests(n) : n \in 1..4}]
AsyncUserSearch == UserSearch

RoleAssignments ==
    Single({"get_user_roles", "get_client_roles_for_user"})
    ++ [assign_realm_role  |-> {Requests(2)},
        remove_realm_role  |-> {Requests(2)},
        assign_client_role |-> {Requests(3)}]
AsyncRoleAssignments == RoleAssignments

RoleChanges ==
    Single({"delete_realm_role", "get_realm_roles", "get_realm_role"})
    ++ [create_realm_role  |-> {Requests(2)},
        create_client_role |-> {Requests(3)},
        remove_client_role |-> {Requests(3)}]
AsyncRoleChanges == RoleChanges

CompositeRoles ==
    Single({"get_composite_realm_roles"})
    ++ [add_realm_roles_to_composite  |-> {Requests(n) : n \in 1..MaxChildren + 1},
        add_client_roles_to_composite |-> {Requests(n) : n \in 1..MaxChildren + 2}]
AsyncCompositeRoles == CompositeRoles

Clients ==
    Single({"get_client_secret", "get_client_id"})
    ++ [get_service_account_id |-> {Requests(1), Requests(2)},
        create_client          |-> {<<"origin", "switch", "request", "answer", "restore">>}]
AsyncClients == Clients

Realms ==
    Single({"create_realm", "get_realm", "update_realm"})
AsyncRealms == Realms

Components ==
    Single({"create_component", "get_component", "get_components",
            "update_component", "delete_component"})
AsyncComponents == Components

Organizations ==
    Single({"get_organizations", "get_organization", "create_organization",
            "update_organization", "delete_organization", "get_organization_idps",
            "get_user_organizations", "get_organization_members",
            "get_organization_members_count", "organization_user_add",
            "organization_user_remove"})
AsyncOrganizations == Organizations

GroupMembers ==
    Single({"create_group", "update_group", "delete_group", "get_group",
            "get_group_by_path", "get_group_children", "get_groups",
            "get_subgroups", "groups_count", "group_user_add", "group_user_remove",
            "group_set_permissions", "get_group_members"})
AsyncGroupMembers == GroupMembers

GroupRoles ==
    Single({"get_group_client_roles", "get_group_realm_roles",
            "assign_group_client_roles", "assign_group_realm_roles",
            "delete_group_client_roles", "delete_group_realm_roles",
            "get_composite_client_roles_of_group", "get_client_role_groups",
            "get_realm_role_groups"})
AsyncGroupRoles == GroupRoles

AuthFlows ==
    Single({"create_authentication_flow", "copy_authentication_flow",
            "get_authentication_flows", "get_authentication_flow_for_id",
            "delete_authentication_flow", "get_authentication_flow_executions",
            "get_authentication_flow_execution",
            "create_authentication_flow_execution",
            "update_authentication_flow_executions",
            "create_authentication_flow_subflow",
            "delete_authentication_flow_execution", "change_execution_priority",
            "update_authentication_flow", "get_authenticator_providers",
            "get_authenticator_provider_config_description",
            "get_authenticator_config", "update_authenticator_config",
            "delete_authenticator_config", "create_execution_config"})
AsyncAuthFlows == AuthFlows

Policies ==
    Single({"create_client_authz_resource", "get_client_authz_resources",
            "get_client_authz_resource", "update_client_authz_resource",
            "delete_client_authz_resource", "create_client_authz_scopes",
            "get_client_authz_scopes", "create_client_authz_role_based_policy",
            "create_client_authz_client_policy", "create_client_authz_policy",
            "get_client_authz_policies", "get_client_authz_policy",
            "delete_client_authz_policy"})
AsyncPolicies == Policies

Permissions ==
    Single({"create_client_authz_resource_based_permission",
            "create_client_authz_scope_permission", "get_client_authz_permissions",
            "get_client_authz_scope_permission",
            "update_client_authz_scope_permission",
            "update_client_authz_resource_permission",
            "get_client_authz_permission_associated_policies",
            "get_client_authz_settings", "get_client_authz_client_policies",
            "get_client_authz_policy_resources", "get_client_authz_policy_scopes",
            "import_client_authz_config"})
AsyncPermissions == Permissions

ScopesAndMappers ==
    Single({"get_client_scopes", "get_client_scope", "get_client_scope_by_name",
            "create_client_scope", "update_client_scope", "delete_client_scope",
            "add_mapper_to_client_scope", "get_mappers_from_client_scope",
            "update_mapper_in_client_scope", "delete_mapper_from_client_scope",
            "add_mapper_to_client", "get_mappers_from_client",
            "update_client_mapper", "remove_client_mapper"})
AsyncScopesAndMappers == ScopesAndMappers

DefaultScopes ==
    Single({"get_client_default_client_scopes", "add_client_default_client_scope",
            "delete_client_default_client_scope",
            "get_client_optional_client_scopes", "add_client_optional_client_scope",
            "delete_client_optional_client_scope",
            "get_default_default_client_scopes", "add_default_default_client_scope",
            "delete_default_default_client_scope",
            "get_default_optional_client_scopes",
            "add_default_optional_client_scope",
            "delete_default_optional_client_scope"})
AsyncDefaultScopes == DefaultScopes

-----------------------------------------------------------------------------
Operations == Joined(
    {Tokens, Endpoints, Exchanges, PermissionChecks, RoleChecks, ResourceSets, UmaPolicies,
     UserChanges, UserSearch, RoleAssignments, RoleChanges, CompositeRoles, Clients, Realms,
     Components, Organizations, GroupMembers, GroupRoles, AuthFlows, Policies, Permissions,
     ScopesAndMappers, DefaultScopes})

AsyncOperations == Joined(
    {AsyncTokens, AsyncEndpoints, AsyncExchanges, AsyncPermissionChecks, AsyncRoleChecks,
     AsyncResourceSets, AsyncUmaPolicies, AsyncUserChanges, AsyncUserSearch,
     AsyncRoleAssignments, AsyncRoleChanges, AsyncCompositeRoles, AsyncClients, AsyncRealms,
     AsyncComponents, AsyncOrganizations, AsyncGroupMembers, AsyncGroupRoles, AsyncAuthFlows,
     AsyncPolicies, AsyncPermissions, AsyncScopesAndMappers, AsyncDefaultScopes})

\* Operations with the same plan are the same to the client.
PlansOf(operations) == UNION {operations[o] : o \in DOMAIN operations}
=============================================================================
