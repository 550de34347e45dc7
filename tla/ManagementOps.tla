--------------------------- MODULE ManagementOps ---------------------------
(***************************************************************************)
(* The other operations of the management API (management_ops.cpp), in the *)
(* form of ManagementAccessOps, and the set of all.                        *)
(***************************************************************************)
EXTENDS ManagementAccessOps

CertificatesList == Op("GET", {}, NoBody, PageOf(Certificate))
CertificatesGenerate == Op("POST", {}, CreateCertificateRequest, One(GeneratedCertificate))
CertificatesSignCsr == Op("POST", {}, SignCertificateCsrRequest, One(Certificate))
CertificatesGet == Op("GET", {}, NoBody, One(Certificate))
CertificatesRevoke == Op("POST", {}, NoBody, Nothing)

CaCertificatesList == Op("GET", {"org"}, NoBody, PageOf(CaCertificate))
CaCertificatesGenerate ==
    Op("POST", {"org"}, CreateCaCertificateRequest, One(GeneratedCaCertificate))
CaCertificatesImportCa == Op("POST", {"org"}, ImportCaCertificateRequest, One(CaCertificate))
CaCertificatesGet == Op("GET", {"org"}, NoBody, One(CaCertificate))
CaCertificatesRevoke == Op("POST", {"org"}, NoBody, Nothing)
CaCertificatesMigrateCustody == Op("POST", {"org"}, NoBody, One(MigrateCustodyResponse))
CaCertificatesSetMtlsTrustAnchor ==
    Op("PUT", {"org"}, SetMtlsTrustAnchor, One(MtlsTrustAnchorResponse))
CaCertificatesListSigningCas == Op("GET", {"org"}, NoBody, PageOf(CaCertificate))
CaCertificatesGenerateSigningCa ==
    Op("POST", {"org"}, CreateIntermediateCaRequest, One(GeneratedCaCertificate))
CaCertificatesSignSigningCaCsr ==
    Op("POST", {"org"}, SignIntermediateCsrRequest, One(CaCertificate))

PgpKeysList == Op("GET", {}, NoBody, PageOf(PgpKey))
PgpKeysGenerate == Op("POST", {}, CreatePgpKeyRequest, One(GeneratedPgpKey))
PgpKeysGet == Op("GET", {}, NoBody, One(PgpKey))
PgpKeysRevoke == Op("POST", {}, NoBody, Nothing)
PgpKeysEncrypt == Op("POST", {}, EncryptRequest, One(EncryptedExport))
PgpKeysSignAuditBatch == Op("POST", {}, SignAuditBatchRequest, One(SignedAuditBatch))

WebhooksList == Op("GET", {}, NoBody, PageOf(WebhookResponse))
WebhooksCreate == Op("POST", {}, CreateWebhookRequest, One(WebhookResponse))
WebhooksGet == Op("GET", {}, NoBody, One(WebhookResponse))
WebhooksUpdate == Op("PUT", {}, UpdateWebhookRequest, One(WebhookResponse))
WebhooksDelete == Op("DELETE", {}, NoBody, Nothing)

Oauth2ClientsList == Op("GET", {}, NoBody, PageOf(OAuth2ClientResponse))
Oauth2ClientsCreate ==
    Op("POST", {}, CreateOAuth2ClientRequest, One(OAuth2ClientCreatedResponse))
Oauth2ClientsGet == Op("GET", {}, NoBody, One(OAuth2ClientResponse))
Oauth2ClientsUpdate == Op("PUT", {}, UpdateOAuth2ClientRequest, One(OAuth2ClientResponse))
Oauth2ClientsDelete == Op("DELETE", {}, NoBody, Nothing)
Oauth2ClientsCreateRegistrationToken ==
    Op("POST", {}, CreateRegistrationTokenRequest, One(CreateRegistrationTokenResponse))
Oauth2ClientsListRegistrationTokens == Op("GET", {}, NoBody, ListOf(RegistrationTokenResponse))

FederationListConfigs == Op("GET", {}, NoBody, PageOf(FederationConfigResponse))
FederationCreateConfig ==
    Op("POST", {}, CreateFederationConfigRequest, One(FederationConfigResponse))
FederationGetConfig == Op("GET", {}, NoBody, One(FederationConfigResponse))
FederationUpdateConfig ==
    Op("PUT", {}, UpdateFederationConfigRequest, One(FederationConfigResponse))
FederationDeleteConfig == Op("DELETE", {}, NoBody, Nothing)
FederationListUserLinks == Op("GET", {}, NoBody, ListOf(FederationLinkResponse))
FederationDeleteLink == Op("DELETE", {}, NoBody, Nothing)
FederationOidcAuthorize == Op("POST", {}, OidcAuthorizeRequest, One(OidcAuthorizeResponse))
FederationOidcCallback == Op("POST", {}, OidcCallbackRequest, One(OidcCallbackResponse))

NotificationRulesList == Op("GET", {}, NoBody, PageOf(NotificationRuleResponse))
NotificationRulesCreate ==
    Op("POST", {}, CreateNotificationRuleRequest, One(NotificationRuleResponse))
NotificationRulesGet == Op("GET", {}, NoBody, One(NotificationRuleResponse))
NotificationRulesUpdate ==
    Op("PUT", {}, UpdateNotificationRuleRequest, One(NotificationRuleResponse))
NotificationRulesDelete == Op("DELETE", {}, NoBody, Nothing)

EmailConfigGetOrg == Op("GET", {"org"}, NoBody, One(EmailConfig))
EmailConfigSetOrg == Op("PUT", {"org"}, SetOrgEmailConfig, One(EmailConfig))
EmailConfigDeleteOrg == Op("DELETE", {"org"}, NoBody, Nothing)
EmailConfigTestOrg == Op("POST", {"org"}, NoBody, One(EmailTestResult))
EmailConfigGetTenant == Op("GET", {"tenant"}, NoBody, One(EmailConfigOverride))
EmailConfigSetTenant == Op("PUT", {"tenant"}, EmailConfigOverride, One(EmailConfigOverride))
EmailConfigDeleteTenant == Op("DELETE", {"tenant"}, NoBody, Nothing)
EmailConfigTestTenant == Op("POST", {"tenant"}, NoBody, One(EmailTestResult))

DirectoryGet == Op("GET", {"tenant"}, NoBody, One(DirectoryConfig))
DirectorySet == Op("PUT", {"tenant"}, SetDirectoryConfig, One(DirectoryConfig))
DirectoryUpdate == Op("PATCH", {"tenant"}, UpdateDirectoryConfig, One(DirectoryConfig))
DirectoryDelete == Op("DELETE", {"tenant"}, NoBody, Nothing)
DirectoryLinkAccount == Op("POST", {"tenant"}, LinkDirectoryAccount, One(DirectoryLinkResult))
DirectoryGetSyncStatus == Op("GET", {"tenant"}, NoBody, One(DirectorySyncStatus))

SamlGetIdp == Op("GET", {"tenant"}, NoBody, One(SamlIdpInfo))
SamlListServiceProviders == Op("GET", {"tenant"}, NoBody, PageOf(SamlServiceProvider))
SamlCreateServiceProvider ==
    Op("POST", {"tenant"}, SamlServiceProviderInput, One(SamlServiceProvider))
SamlGetServiceProvider == Op("GET", {"tenant"}, NoBody, One(SamlServiceProvider))
SamlUpdateServiceProvider ==
    Op("PUT", {"tenant"}, SamlServiceProviderInput, One(SamlServiceProvider))
SamlDeleteServiceProvider == Op("DELETE", {"tenant"}, NoBody, Nothing)
SamlParseSpMetadata == Op("POST", {"tenant"}, ParseSamlSpMetadata, One(SamlSpMetadataDraft))
SamlListIdpCredentials == Op("GET", {"tenant"}, NoBody, ListOf(SamlIdpCredential))
SamlIssueIdpCredential == Op("POST", {"tenant"}, IssueSamlIdpCredential, One(SamlIdpCredential))
SamlPromoteIdpCredential == Op("POST", {"tenant"}, NoBody, One(SamlIdpCredentialPromotion))
SamlRetireIdpCredential == Op("POST", {"tenant"}, NoBody, One(SamlIdpCredential))

SsfListStreams == Op("GET", {"tenant"}, NoBody, PageOf(SsfStream))
SsfCreateStream == Op("POST", {"tenant"}, SsfStreamInput, One(SsfStream))
SsfGetStream == Op("GET", {"tenant"}, NoBody, One(SsfStream))
SsfUpdateStream == Op("PUT", {"tenant"}, SsfStreamInput, One(SsfStream))
SsfDeleteStream == Op("DELETE", {"tenant"}, NoBody, Nothing)

ScimTargetsList == Op("GET", {}, NoBody, PageOf(ScimTargetResponse))
ScimTargetsCreate == Op("POST", {}, ScimTargetInput, One(ScimTargetResponse))
ScimTargetsGet == Op("GET", {}, NoBody, One(ScimTargetResponse))
ScimTargetsUpdate == Op("PUT", {}, ScimTargetInput, One(ScimTargetResponse))
ScimTargetsDelete == Op("DELETE", {}, NoBody, Nothing)
ScimTargetsReconcile == Op("POST", {}, NoBody, One(ScimReconcileAccepted))

NetworkListSegments == Op("GET", {}, NoBody, PageOf(NetworkSegmentResponse))
NetworkCreateSegment == Op("POST", {}, CreateNetworkSegmentRequest, One(NetworkSegmentResponse))
NetworkGetSegment == Op("GET", {}, NoBody, One(NetworkSegmentResponse))
NetworkReplaceSegment ==
    Op("PUT", {}, ReplaceNetworkSegmentRequest, One(NetworkSegmentResponse))
NetworkDeleteSegment == Op("DELETE", {}, NoBody, Nothing)
NetworkListProfiles == Op("GET", {}, NoBody, PageOf(NetworkReplyProfile))
NetworkCreateProfile ==
    Op("POST", {}, CreateNetworkReplyProfileRequest, One(NetworkReplyProfile))
NetworkGetProfile == Op("GET", {}, NoBody, One(NetworkReplyProfile))
NetworkReplaceProfile ==
    Op("PUT", {}, ReplaceNetworkReplyProfileRequest, One(NetworkReplyProfile))
NetworkDeleteProfile == Op("DELETE", {}, NoBody, Nothing)
NetworkGetPolicy == Op("GET", {}, NoBody, One(NetworkPolicyResponse))
NetworkReplacePolicy == Op("PUT", {}, ReplaceNetworkPolicyRequest, One(NetworkPolicyResponse))

SettingsGetOrg == Op("GET", {"org"}, NoBody, One(SecuritySettings))
SettingsSetOrg == Op("PUT", {"org"}, SetOrgSettings, One(SecuritySettings))
SettingsGetEffective == Op("GET", {}, NoBody, One(SecuritySettings))
SettingsSetEffective == Op("PUT", {}, TenantSettingsOverride, One(SecuritySettings))
SettingsGetTenantOverride == Op("GET", {"tenant"}, NoBody, One(TenantSettingsOverride))
SettingsSetTenantOverride ==
    Op("PUT", {"tenant"}, TenantSettingsOverride, One(TenantSettingsOverride))
SettingsDeleteTenantOverride == Op("DELETE", {"tenant"}, NoBody, Nothing)

ScimTokensList == Op("GET", {}, NoBody, ListOf(ScimTokenResponse))
ScimTokensCreate == Op("POST", {}, CreateScimTokenRequest, One(CreateScimTokenResponse))
ScimTokensRevoke == Op("DELETE", {}, NoBody, Nothing)

ReactorsList == Op("GET", {}, NoBody, PageOf(ReactorResponse))
ReactorsCreate == Op("POST", {}, CreateReactorRequest, One(ReactorResponse))
ReactorsGet == Op("GET", {}, NoBody, One(ReactorResponse))
ReactorsUpdate == Op("PUT", {}, UpdateReactorRequest, One(ReactorResponse))
ReactorsDelete == Op("DELETE", {}, NoBody, Nothing)
ReactorsListEvents == Op("GET", {}, NoBody, ListOf(ReactorEventDescriptor))

WebauthnPolicyGet == Op("GET", {"tenant"}, NoBody, One(PolicyResponse))
WebauthnPolicySet ==
    Op("PUT", {"tenant"}, WebauthnAttestationPolicy, One(WebauthnAttestationPolicy))
WebauthnPolicyComplianceReport == Op("GET", {"tenant"}, NoBody, ListOf(ComplianceReportEntry))

AuditList == Op("GET", {}, NoBody, PageOf(AuditLogEntry))
AuditListSystem == Op("GET", {}, NoBody, PageOf(AuditLogEntry))

PrivacyRequestExport == Op("POST", {}, NoBody, Nothing)
PrivacyDownloadExport == Op("GET", {}, NoBody, Nothing)
PrivacyRequestDelete == Op("POST", {}, NoBody, Nothing)
PrivacyCancelDelete == Op("GET", {}, NoBody, Nothing)
PrivacyListConsents == Op("GET", {}, NoBody, ListOf(ConsentView))
PrivacyGrantScopeConsent == Op("POST", {}, GrantScopeConsent, Nothing)
PrivacyWithdrawScopeConsent == Op("DELETE", {}, NoBody, Nothing)

PlatformHealth == Op("GET", {}, NoBody, One(HealthResponse))
PlatformReady == Op("GET", {}, NoBody, One(ReadyResponse))
PlatformMdsStatus == Op("GET", {}, NoBody, One(MdsStatusResponse))
PlatformMdsRefresh == Op("POST", {}, NoBody, One(MdsRefreshOutcome))

\* Every operation.
Operations ==
    {OrganizationsList, OrganizationsGet, OrganizationsUpdate, TenantsList, TenantsCreate,
     TenantsGet, TenantsUpdate, TenantsDelete, TenantsExportAudit, UsersList, UsersCreate,
     UsersGet, UsersUpdate, UsersDelete, UsersListMfaMethods, UsersDeleteMfaMethod,
     UsersResetMfa, UsersUnlock, UsersListRoles, UsersListSessions, GroupsList,
     GroupsCreate, GroupsGet, GroupsUpdate, GroupsDelete, GroupsListMembers,
     GroupsAddMember, GroupsRemoveMember, GroupsListRoles, GroupsListServiceAccounts,
     GroupsAddServiceAccount, GroupsRemoveServiceAccount, RolesList, RolesCreate, RolesGet,
     RolesUpdate, RolesDelete, RolesListUsers, RolesAssignToUser, RolesUnassignFromUser,
     RolesListGroups, RolesAssignToGroup, RolesUnassignFromGroup, RolesListPermissions,
     RolesGrantPermission, RolesRevokePermission, RolesListServiceAccounts,
     RolesAssignToServiceAccount, RolesUnassignFromServiceAccount, PermissionsList,
     PermissionsCreate, PermissionsGet, PermissionsUpdate, PermissionsDelete, ResourcesList,
     ResourcesCreate, ResourcesGet, ResourcesUpdate, ResourcesDelete, ResourcesListChildren,
     ResourcesListAncestors, ScopesList, ScopesCreate, ScopesGet, ScopesUpdate,
     ScopesDelete, ServiceAccountsList, ServiceAccountsCreate, ServiceAccountsGet,
     ServiceAccountsUpdate, ServiceAccountsDelete, ServiceAccountsRotateSecret,
     ServiceAccountsBindCertificate, ServiceAccountsListRoles, ServiceAccountsListGroups,
     CertificatesList, CertificatesGenerate, CertificatesSignCsr, CertificatesGet,
     CertificatesRevoke, CaCertificatesList, CaCertificatesGenerate, CaCertificatesImportCa,
     CaCertificatesGet, CaCertificatesRevoke, CaCertificatesMigrateCustody,
     CaCertificatesSetMtlsTrustAnchor, CaCertificatesListSigningCas,
     CaCertificatesGenerateSigningCa, CaCertificatesSignSigningCaCsr, PgpKeysList,
     PgpKeysGenerate, PgpKeysGet, PgpKeysRevoke, PgpKeysEncrypt, PgpKeysSignAuditBatch,
     WebhooksList, WebhooksCreate, WebhooksGet, WebhooksUpdate, WebhooksDelete,
     Oauth2ClientsList, Oauth2ClientsCreate, Oauth2ClientsGet, Oauth2ClientsUpdate,
     Oauth2ClientsDelete, Oauth2ClientsCreateRegistrationToken,
     Oauth2ClientsListRegistrationTokens, FederationListConfigs, FederationCreateConfig,
     FederationGetConfig, FederationUpdateConfig, FederationDeleteConfig,
     FederationListUserLinks, FederationDeleteLink, FederationOidcAuthorize,
     FederationOidcCallback, NotificationRulesList, NotificationRulesCreate,
     NotificationRulesGet, NotificationRulesUpdate, NotificationRulesDelete,
     EmailConfigGetOrg, EmailConfigSetOrg, EmailConfigDeleteOrg, EmailConfigTestOrg,
     EmailConfigGetTenant, EmailConfigSetTenant, EmailConfigDeleteTenant,
     EmailConfigTestTenant, DirectoryGet, DirectorySet, DirectoryUpdate, DirectoryDelete,
     DirectoryLinkAccount, DirectoryGetSyncStatus, SamlGetIdp, SamlListServiceProviders,
     SamlCreateServiceProvider, SamlGetServiceProvider, SamlUpdateServiceProvider,
     SamlDeleteServiceProvider, SamlParseSpMetadata, SamlListIdpCredentials,
     SamlIssueIdpCredential, SamlPromoteIdpCredential, SamlRetireIdpCredential,
     SsfListStreams, SsfCreateStream, SsfGetStream, SsfUpdateStream, SsfDeleteStream,
     ScimTargetsList, ScimTargetsCreate, ScimTargetsGet, ScimTargetsUpdate,
     ScimTargetsDelete, ScimTargetsReconcile, NetworkListSegments, NetworkCreateSegment,
     NetworkGetSegment, NetworkReplaceSegment, NetworkDeleteSegment, NetworkListProfiles,
     NetworkCreateProfile, NetworkGetProfile, NetworkReplaceProfile, NetworkDeleteProfile,
     NetworkGetPolicy, NetworkReplacePolicy, SettingsGetOrg, SettingsSetOrg,
     SettingsGetEffective, SettingsSetEffective, SettingsGetTenantOverride,
     SettingsSetTenantOverride, SettingsDeleteTenantOverride, ScimTokensList,
     ScimTokensCreate, ScimTokensRevoke, ReactorsList, ReactorsCreate, ReactorsGet,
     ReactorsUpdate, ReactorsDelete, ReactorsListEvents, WebauthnPolicyGet,
     WebauthnPolicySet, WebauthnPolicyComplianceReport, AuditList, AuditListSystem,
     PrivacyRequestExport, PrivacyDownloadExport, PrivacyRequestDelete, PrivacyCancelDelete,
     PrivacyListConsents, PrivacyGrantScopeConsent, PrivacyWithdrawScopeConsent,
     PlatformHealth, PlatformReady, PlatformMdsStatus, PlatformMdsRefresh}
=============================================================================
