---------------------------- MODULE KeycloakPorts ----------------------------
(***************************************************************************)
(* The ports of the Keycloak adapters: what they promise to callers, one   *)
(* set of operations for each mixin of the port, and that the adapters     *)
(* have a plan for each of them and nothing else, see KeycloakOperations.  *)
(***************************************************************************)
EXTENDS KeycloakOperations

AuthPort == {"get_token", "refresh_token", "validate_token", "get_userinfo",
             "get_token_info", "introspect_token", "get_client_credentials_token", "logout",
             "get_public_key", "get_well_known_config", "get_certs", "get_token_from_code",
             "check_permissions", "check_permissions_batch"}
AsyncAuthPort == AuthPort

UsersPort == {"get_user_by_id", "get_user_by_username", "get_user_by_email", "create_user",
              "update_user", "reset_password", "search_users", "clear_user_sessions",
              "delete_user"}
AsyncUsersPort == UsersPort

RolesPort == {"get_user_roles", "get_client_roles_for_user", "has_role", "has_any_of_roles",
              "has_all_roles", "assign_realm_role", "remove_realm_role",
              "assign_client_role", "remove_client_role", "get_realm_role",
              "get_realm_roles", "create_realm_role", "delete_realm_role",
              "create_client_role", "add_realm_roles_to_composite",
              "add_client_roles_to_composite", "get_composite_realm_roles"}
AsyncRolesPort == RolesPort

GroupsPort == {"create_group", "update_group", "delete_group", "get_group",
               "get_group_by_path", "get_group_children", "get_groups", "get_subgroups",
               "groups_count", "group_user_add", "group_user_remove",
               "group_set_permissions", "get_group_members", "get_group_client_roles",
               "get_group_realm_roles", "assign_group_client_roles",
               "assign_group_realm_roles", "delete_group_client_roles",
               "delete_group_realm_roles", "get_composite_client_roles_of_group",
               "get_client_role_groups", "get_realm_role_groups"}
AsyncGroupsPort == GroupsPort

OrganizationsPort == {"get_organizations", "get_organization", "create_organization",
                      "update_organization", "delete_organization", "get_organization_idps",
                      "get_user_organizations", "get_organization_members",
                      "get_organization_members_count", "organization_user_add",
                      "organization_user_remove"}
AsyncOrganizationsPort == OrganizationsPort

ClientsPort == {"get_client_id", "get_client_secret", "get_service_account_id",
                "create_client"}
AsyncClientsPort == ClientsPort

ClientScopesPort == {"get_client_scopes", "get_client_scope", "get_client_scope_by_name",
                     "create_client_scope", "update_client_scope", "delete_client_scope",
                     "add_mapper_to_client_scope", "get_mappers_from_client_scope",
                     "update_mapper_in_client_scope", "delete_mapper_from_client_scope",
                     "add_mapper_to_client", "get_mappers_from_client",
                     "update_client_mapper", "remove_client_mapper",
                     "get_client_default_client_scopes", "add_client_default_client_scope",
                     "delete_client_default_client_scope",
                     "get_client_optional_client_scopes",
                     "add_client_optional_client_scope",
                     "delete_client_optional_client_scope",
                     "get_default_default_client_scopes",
                     "add_default_default_client_scope",
                     "delete_default_default_client_scope",
                     "get_default_optional_client_scopes",
                     "add_default_optional_client_scope",
                     "delete_default_optional_client_scope"}
AsyncClientScopesPort == ClientScopesPort

AuthzPort == {"create_client_authz_resource", "get_client_authz_resources",
              "get_client_authz_resource", "update_client_authz_resource",
              "delete_client_authz_resource", "create_client_authz_scopes",
              "get_client_authz_scopes", "create_client_authz_role_based_policy",
              "create_client_authz_client_policy", "create_client_authz_policy",
              "get_client_authz_policies", "get_client_authz_policy",
              "delete_client_authz_policy", "create_client_authz_resource_based_permission",
              "create_client_authz_scope_permission", "get_client_authz_permissions",
              "get_client_authz_scope_permission", "update_client_authz_scope_permission",
              "update_client_authz_resource_permission",
              "get_client_authz_permission_associated_policies",
              "get_client_authz_settings", "get_client_authz_client_policies",
              "get_client_authz_policy_resources", "get_client_authz_policy_scopes",
              "import_client_authz_config"}
AsyncAuthzPort == AuthzPort

AuthFlowsPort == {"create_authentication_flow", "copy_authentication_flow",
                  "get_authentication_flows", "get_authentication_flow_for_id",
                  "delete_authentication_flow", "get_authentication_flow_executions",
                  "get_authentication_flow_execution",
                  "create_authentication_flow_execution",
                  "update_authentication_flow_executions",
                  "create_authentication_flow_subflow",
                  "delete_authentication_flow_execution", "change_execution_priority",
                  "update_authentication_flow", "get_authenticator_providers",
                  "get_authenticator_provider_config_description",
                  "get_authenticator_config", "update_authenticator_config",
                  "delete_authenticator_config", "create_execution_config"}
AsyncAuthFlowsPort == AuthFlowsPort

RealmsPort == {"create_realm", "get_realm", "update_realm"}
AsyncRealmsPort == RealmsPort

ComponentsPort == {"create_component", "get_component", "get_components",
                   "update_component", "delete_component"}
AsyncComponentsPort == ComponentsPort

ResourceSetsPort == {"resource_set_create", "resource_set_read", "resource_set_update",
                     "resource_set_delete", "resource_set_list", "resource_set_list_ids"}
AsyncResourceSetsPort == ResourceSetsPort

UmaPoliciesPort == {"policy_resource_create", "policy_update", "policy_delete",
                    "policy_query", "permission_ticket_create", "permissions_check"}
AsyncUmaPoliciesPort == UmaPoliciesPort

-----------------------------------------------------------------------------
KeycloakPort ==
    AuthPort \cup UsersPort \cup RolesPort \cup GroupsPort \cup OrganizationsPort \cup
    ClientsPort \cup ClientScopesPort \cup AuthzPort \cup AuthFlowsPort \cup
    RealmsPort \cup ComponentsPort \cup ResourceSetsPort \cup UmaPoliciesPort
AsyncKeycloakPort ==
    AsyncAuthPort \cup AsyncUsersPort \cup AsyncRolesPort \cup AsyncGroupsPort \cup
    AsyncOrganizationsPort \cup AsyncClientsPort \cup AsyncClientScopesPort \cup
    AsyncAuthzPort \cup AsyncAuthFlowsPort \cup AsyncRealmsPort \cup
    AsyncComponentsPort \cup AsyncResourceSetsPort \cup AsyncUmaPoliciesPort

\* Every operation of the ports is implemented by the adapters and modelled.
ASSUME PortImplemented == /\ DOMAIN Operations = KeycloakPort
                          /\ DOMAIN AsyncOperations = AsyncKeycloakPort
=============================================================================
