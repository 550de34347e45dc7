------------------------ MODULE ManagementAccessOps ------------------------
(***************************************************************************)
(* The operations of the management API on who may do what                 *)
(* (management_ops.cpp), one definition each: the method, the identifiers  *)
(* its path takes from the handle's scope or the client, the body it       *)
(* writes and what it reads.                                               *)
(***************************************************************************)
EXTENDS ManagementBodies

NoBody == Body({}, {})
Nothing == [shape |-> "nothing"]
One(body) == [shape |-> "one", of |-> body]
PageOf(body) == [shape |-> "page", of |-> body]
ListOf(body) == [shape |-> "list", of |-> body]

Op(method, scope, body, answer) ==
    [method |-> method, scope |-> scope, body |-> body, answer |-> answer]
-----------------------------------------------------------------------------
OrganizationsList == Op("GET", {}, NoBody, PageOf(Organization))
OrganizationsGet == Op("GET", {"org"}, NoBody, One(Organization))
OrganizationsUpdate == Op("PUT", {"org"}, UpdateOrganizationRequest, One(Organization))

TenantsList == Op("GET", {"org"}, NoBody, PageOf(Tenant))
TenantsCreate == Op("POST", {"org"}, CreateTenantRequest, One(Tenant))
TenantsGet == Op("GET", {"org"}, NoBody, One(Tenant))
TenantsUpdate == Op("PUT", {"org"}, UpdateTenant, One(Tenant))
TenantsDelete == Op("DELETE", {"org"}, NoBody, Nothing)
TenantsExportAudit == Op("POST", {"org"}, NoBody, Nothing)

UsersList == Op("GET", {}, NoBody, PageOf(UserResponse))
UsersCreate == Op("POST", {}, CreateUserRequest, One(UserResponse))
UsersGet == Op("GET", {}, NoBody, One(UserResponse))
UsersUpdate == Op("PUT", {}, UpdateUserRequest, One(UserResponse))
UsersDelete == Op("DELETE", {}, NoBody, Nothing)
UsersListMfaMethods == Op("GET", {}, NoBody, ListOf(MfaMethodResponse))
UsersDeleteMfaMethod == Op("DELETE", {}, NoBody, Nothing)
UsersResetMfa == Op("POST", {}, NoBody, Nothing)
UsersUnlock == Op("POST", {}, NoBody, One(UserResponse))
UsersListRoles == Op("GET", {}, NoBody, ListOf(RoleAssignment))
UsersListSessions == Op("GET", {}, NoBody, ListOf(SessionResponse))

GroupsList == Op("GET", {}, NoBody, PageOf(Group))
GroupsCreate == Op("POST", {}, CreateGroupRequest, One(Group))
GroupsGet == Op("GET", {}, NoBody, One(Group))
GroupsUpdate == Op("PUT", {}, UpdateGroup, One(Group))
GroupsDelete == Op("DELETE", {}, NoBody, Nothing)
GroupsListMembers == Op("GET", {}, NoBody, PageOf(UserResponse))
GroupsAddMember == Op("POST", {}, AddMemberRequest, Nothing)
GroupsRemoveMember == Op("DELETE", {}, NoBody, Nothing)
GroupsListRoles == Op("GET", {}, NoBody, ListOf(RoleAssignment))
GroupsListServiceAccounts == Op("GET", {}, NoBody, PageOf(ServiceAccountResponse))
GroupsAddServiceAccount == Op("POST", {}, AddServiceAccountMemberRequest, Nothing)
GroupsRemoveServiceAccount == Op("DELETE", {}, NoBody, Nothing)

RolesList == Op("GET", {}, NoBody, PageOf(Role))
RolesCreate == Op("POST", {}, CreateRoleRequest, One(Role))
RolesGet == Op("GET", {}, NoBody, One(Role))
RolesUpdate == Op("PUT", {}, UpdateRole, One(Role))
RolesDelete == Op("DELETE", {}, NoBody, Nothing)
RolesListUsers == Op("GET", {}, NoBody, ListOf(RoleUserAssignment))
RolesAssignToUser == Op("POST", {}, AssignRoleToUserRequest, Nothing)
RolesUnassignFromUser == Op("DELETE", {}, NoBody, Nothing)
RolesListGroups == Op("GET", {}, NoBody, ListOf(RoleGroupAssignment))
RolesAssignToGroup == Op("POST", {}, AssignRoleToGroupRequest, Nothing)
RolesUnassignFromGroup == Op("DELETE", {}, NoBody, Nothing)
RolesListPermissions == Op("GET", {}, NoBody, ListOf(ResolvedPermissionGrant))
RolesGrantPermission == Op("POST", {}, GrantPermissionRequest, Nothing)
RolesRevokePermission == Op("DELETE", {}, NoBody, Nothing)
RolesListServiceAccounts == Op("GET", {}, NoBody, ListOf(RoleServiceAccountAssignment))
RolesAssignToServiceAccount == Op("POST", {}, AssignRoleToServiceAccountRequest, Nothing)
RolesUnassignFromServiceAccount == Op("DELETE", {}, NoBody, Nothing)

PermissionsList == Op("GET", {}, NoBody, PageOf(Permission))
PermissionsCreate == Op("POST", {}, CreatePermissionRequest, One(Permission))
PermissionsGet == Op("GET", {}, NoBody, One(Permission))
PermissionsUpdate == Op("PUT", {}, UpdatePermissionRequest, One(Permission))
PermissionsDelete == Op("DELETE", {}, NoBody, Nothing)

ResourcesList == Op("GET", {}, NoBody, PageOf(Resource))
ResourcesCreate == Op("POST", {}, CreateResourceRequest, One(Resource))
ResourcesGet == Op("GET", {}, NoBody, One(Resource))
ResourcesUpdate == Op("PUT", {}, UpdateResourceRequest, One(Resource))
ResourcesDelete == Op("DELETE", {}, NoBody, Nothing)
ResourcesListChildren == Op("GET", {}, NoBody, ListOf(Resource))
ResourcesListAncestors == Op("GET", {}, NoBody, ListOf(Resource))

ScopesList == Op("GET", {}, NoBody, ListOf(Scope))
ScopesCreate == Op("POST", {}, CreateScopeRequest, One(Scope))
ScopesGet == Op("GET", {}, NoBody, One(Scope))
ScopesUpdate == Op("PUT", {}, UpdateScopeRequest, One(Scope))
ScopesDelete == Op("DELETE", {}, NoBody, Nothing)

ServiceAccountsList == Op("GET", {}, NoBody, PageOf(ServiceAccountResponse))
ServiceAccountsCreate ==
    Op("POST", {}, CreateServiceAccountRequest, One(ServiceAccountCreatedResponse))
ServiceAccountsGet == Op("GET", {}, NoBody, One(ServiceAccountResponse))
ServiceAccountsUpdate == Op("PUT", {}, UpdateServiceAccount, One(ServiceAccountResponse))
ServiceAccountsDelete == Op("DELETE", {}, NoBody, Nothing)
ServiceAccountsRotateSecret == Op("POST", {}, NoBody, One(RotateSecretResponse))
ServiceAccountsBindCertificate == Op("POST", {}, BindCertificate, Nothing)
ServiceAccountsListRoles == Op("GET", {}, NoBody, ListOf(RoleAssignment))
ServiceAccountsListGroups == Op("GET", {}, NoBody, ListOf(Group))
=============================================================================
