------------------------- MODULE ManagementBodies -------------------------
(***************************************************************************)
(* The bodies of the management API, one definition per schema: what the   *)
(* from_json of management_models.cpp does with each member.  A required   *)
(* member must be there to be read (`j.at'); an optional one is read when  *)
(* it is there and not null.  An enumeration is the set of the values that *)
(* the SDK knows, of the member or of the elements of a member that is a   *)
(* list.                                                                   *)
(***************************************************************************)
EXTENDS ManagementEnums, FiniteSets

Body(required, optional) ==
    [required |-> required, optional |-> optional, nullable |-> {}, defaulted |-> {},
     raw |-> {}, dropped |-> {}, enums |-> <<>>]

\* Members that are enumerations, or lists of one.
Enums(body, enums) == [body EXCEPT !.enums = enums]

\* Optional members for which null is a value of its own.
Nullable(body, members) == [body EXCEPT !.nullable = members]

\* Members that are false when they are not there to be read.
Defaulted(body, members) == [body EXCEPT !.defaulted = members]

\* Members that are kept as JSON text.
Raw(body, members) == [body EXCEPT !.raw = members]

\* A tagged union: the tag is read, and the whole object is kept as JSON text,
\* the members of its variant (`rest') among them.
OpenUnion(tag) == Nullable(Raw(Body({tag}, {}), {"rest"}), {"rest"})

\* Mutant: a known union keeps every member it was read with.
UnionKeepsSecrets(tag, variants) ==
    [OpenUnion(tag) EXCEPT !.enums = [t \in {tag} |-> variants],
                           !.optional = {"stray_secret"}]

\* One whose variants the SDK knows, and of which no secret is kept.
Union(tag, variants) ==
    [OpenUnion(tag) EXCEPT !.enums = [t \in {tag} |-> variants],
                           !.optional = {"stray_secret"}, !.dropped = {"stray_secret"}]

Members(body) == body.required \cup body.optional \cup body.nullable
-----------------------------------------------------------------------------
\* The schemas.

AcsEndpoint ==
    Enums(Body({"binding", "index", "url"}, {"is_default"}), [binding |-> SamlBinding])
AddMemberRequest == Body({"user_id"}, {})
AddServiceAccountMemberRequest == Body({"service_account_id"}, {})
ApiProviderConfig == Body({}, {"api_url"})
AssignRoleToGroupRequest == Body({"group_id"}, {"inherit", "resource_id", "tenant_scope"})
AssignRoleToServiceAccountRequest ==
    Body({"service_account_id"}, {"inherit", "resource_id", "tenant_scope"})
AssignRoleToUserRequest == Body({"user_id"}, {"inherit", "resource_id", "tenant_scope"})
AttributeMapping ==
    Enums(Body({"saml_name", "source"}, {"name_format"}), [source |-> AttributeSource])
AuditLogEntry ==
    Enums(Raw(Body({"action", "actor_id", "actor_type", "id", "metadata", "outcome",
        "tenant_id", "timestamp"}, {"ip_address", "resource_id"}), {"metadata"}),
        [actor_type |-> ActorType, outcome |-> AuditOutcome])
BindCertificate == Body({"certificate_id"}, {})
CaCertificate ==
    Enums(Body({"created_at", "fingerprint", "id", "key_algorithm", "not_after",
        "not_before", "organization_id", "public_cert_pem", "status", "subject"},
        {"chain_pem", "key_custody", "key_locator", "mtls_trust_anchor", "parent_ca_id",
        "tenant_id"}), [key_algorithm |-> KeyAlgorithm, status |-> CertificateStatus])
Certificate ==
    Enums(Raw(Body({"cert_type", "created_at", "fingerprint", "id", "issuer_ca_id",
        "key_algorithm", "metadata", "not_after", "not_before", "public_cert_pem", "status",
        "subject", "tenant_id"}, {"user_id", "bound_service_account_id"}), {"metadata"}),
        [cert_type |-> CertificateType, key_algorithm |-> KeyAlgorithm, status |->
        CertificateStatus])
CertificatePolicy ==
    Body({"default_cert_validity_days", "max_cert_validity_days"},
        {"server_cert_allowed_names"})
CimdPolicy ==
    Body({}, {"allow_http", "confidential_only", "enabled", "max_cache_secs",
        "max_metadata_bytes", "min_cache_secs", "restrict_same_domain",
        "trusted_client_id_domains", "trusted_redirect_domains"})
ComplianceReportEntry ==
    Body({"compliant", "credential_id", "name", "user_id"}, {"aaguid", "authenticator_name",
        "reason"})
ConsentView == Body({"accepted_at", "consent_type", "version", "withdrawable"}, {})
CreateCaCertificateRequest ==
    Enums(Body({"key_algorithm", "subject", "validity_days"}, {"intermediate_subject",
        "intermediate_validity_days", "issue_from_root"}), [key_algorithm |-> KeyAlgorithm])
SubjectAltName == Body({}, {"dns", "ip"})
CreateCertificateRequest ==
    Enums(Raw(Body({"cert_type", "issuer_ca_id", "key_algorithm", "subject",
        "validity_days"}, {"metadata", "user_id", "subject_alt_names"}), {"metadata"}),
        [cert_type |-> CertificateType, key_algorithm |-> KeyAlgorithm])
NativeLoginTrustRequest == Body({}, {"client_ids", "enabled", "max_token_age_secs"})
TokenExchangeTrustRequest ==
    Raw(Body({}, {"accepted_audiences", "enabled", "max_lifetime_secs",
        "max_token_age_secs", "scope_map", "subject_mapping"}), {"scope_map"})
CreateFederationConfigRequest ==
    Raw(Body({"client_id", "client_secret", "protocol", "provider"},
        {"allow_sha1_signatures", "allow_tenant_inheritance", "allowed_algorithms",
        "allowed_issuer_tenants", "apple_key_id", "apple_team_id", "attribute_map",
        "authorization_endpoint", "button_icon", "idp_metadata_signing_cert_pem",
        "idp_signing_cert_pem", "metadata_url", "native_login", "provider_kind",
        "provider_slug", "require_pkce", "scopes", "token_endpoint", "token_exchange",
        "userinfo_endpoint"}), {"attribute_map"})
CreateGroupRequest == Raw(Body({"description", "name"}, {"metadata"}), {"metadata"})
CreateIntermediateCaRequest ==
    Enums(Body({"key_algorithm", "parent_ca_id", "subject", "validity_days"}, {}),
        [key_algorithm |-> KeyAlgorithm])
NetworkReplyProfileInput ==
    Enums(Body({"session_timeout_secs"}, {"dictionary", "filter_id", "idle_timeout_secs",
        "service_type", "termination_action"}), [service_type |-> RadiusServiceType,
        termination_action |-> RadiusTerminationAction])
CreateNetworkReplyProfileRequest == Body({"profile", "segment_id", "segment_version"}, {})
CreateNetworkSegmentRequest ==
    Enums(Body({"kind", "name", "site_key", "vlan_id"}, {"enabled", "filter_ids", "rank"}),
        [kind |-> NetworkSegmentKind])
CreateNotificationRuleRequest ==
    Enums(Body({"description", "events", "name", "recipient_emails"}, {"window_minutes"}),
        [events |-> NotificationEventType])
CreateOAuth2ClientRequest ==
    Enums(Body({"grant_types", "name", "redirect_uris", "scopes"}, {"allowed_resources",
        "authn_request_params", "backchannel_authentication_request_signing_alg",
        "backchannel_client_notification_endpoint", "backchannel_logout_uri",
        "backchannel_token_delivery_mode", "backchannel_user_code_parameter", "browser_sso",
        "default_idp", "dpop_bound_access_tokens", "dpop_require_nonce", "jwks", "jwks_uri",
        "post_logout_redirect_uris", "profile", "require_par",
        "self_signed_tls_client_auth_thumbprints", "tls_client_auth_san_dns",
        "tls_client_auth_san_uri", "tls_client_auth_subject_dn",
        "tls_client_certificate_bound_access_tokens", "token_endpoint_auth_method"}),
        [authn_request_params |-> AuthnRequestParamsMode, profile |-> ClientProfile,
        token_endpoint_auth_method |-> ClientAuthMethod])
CreatePermissionRequest == Body({"action", "description"}, {})
CreatePgpKeyRequest ==
    Enums(Body({"algorithm", "email", "name", "purpose"}, {}), [algorithm |->
        PgpKeyAlgorithm, purpose |-> PgpKeyPurpose])
CreateReactorRequest ==
    Enums(Body({"events", "mode", "name"}, {"description", "enabled", "failure_policy",
        "priority", "timeout_ms"}), [failure_policy |-> FailurePolicy, mode |->
        ReactorMode])
CreateRegistrationTokenRequest == Body({"name"}, {"expires_in_hours"})
RegistrationTokenResponse ==
    Body({"created_at", "created_by", "expires_at", "id", "name", "tenant_id"}, {"used_at",
        "used_by_client_id"})
CreateRegistrationTokenResponse == Body({"initial_access_token", "token"}, {})
CreateResourceRequest ==
    Raw(Body({"name", "resource_type"}, {"metadata", "parent_id"}), {"metadata"})
CreateRoleRequest == Body({"description", "is_global", "name"}, {})
CreateScimTokenRequest == Body({"name", "user_id"}, {"expires_in_days"})
CreateScimTokenResponse ==
    Enums(Body({"created_at", "created_by", "expires_at", "id", "name", "status",
        "tenant_id", "user_id", "provisioning_token"}, {"last_used_at", "revoked_at"}),
        [status |-> ScimTokenStatus])
CreateScopeRequest == Body({"description", "name"}, {})
CreateServiceAccountRequest == Body({"name"}, {"description"})
CreateTenantRequest == Raw(Body({"name", "slug"}, {"metadata"}), {"metadata"})
OpaqueEnrollment == Body({"opaque_session", "registration_record"}, {})
CreateUserRequest ==
    Raw(Body({"email", "password", "username"}, {"metadata", "opaque"}), {"metadata"})
RetryPolicy == Body({"backoff_multiplier", "initial_delay_secs", "max_retries"}, {})
CreateWebhookRequest == Body({"events", "secret", "url"}, {"retry_policy"})
GroupMapping == Body({"directory_group_dn", "group_id"}, {})
UserAttributeMap == Body({"display_name", "email", "external_id", "username"}, {})
DirectoryConfig ==
    Enums(Body({"base_dn", "bind_dn", "created_at", "enabled", "group_mappings",
        "group_member_attribute", "group_nesting_depth", "id", "jit_provisioning", "kind",
        "start_tls", "sync_interval_secs", "tenant_id", "trust_anchors_pem", "updated_at",
        "url", "user_attribute_map", "user_filter"}, {"group_base_dn", "group_filter"}),
        [kind |-> DirectoryKind])
DirectoryLinkResult ==
    Body({"certificates_revoked", "directory_external_id", "user_id", "was_already_linked",
        "webauthn_credentials_deleted"}, {})
DirectorySyncStatus ==
    Body({"full_required", "has_watermark"}, {"last_attempt_at", "last_full_run_at",
        "last_result"})
ProviderConfig == OpenUnion("kind")
EmailConfig ==
    Enums(Body({"created_at", "enabled", "from_email", "from_name", "id", "provider",
        "scope", "scope_id", "updated_at"}, {"reply_to"}), [scope |-> SettingsScope])
EmailConfigOverride == Body({}, {"enabled", "from_email", "from_name", "provider", "reply_to"})
EmailTestResult == Body({"provider", "to"}, {"message_id"})
EmailVerificationPolicy ==
    Body({"email_verification_grace_period_hours", "email_verification_required"}, {})
EncryptRequest == Body({"data_base64"}, {})
EncryptedExport == Body({"ciphertext_armored", "recipient_key_id"}, {})
NativeLoginTrustResponse == Body({"client_ids", "enabled", "max_token_age_secs"}, {})
TokenExchangeTrustResponse ==
    Raw(Body({"accepted_audiences", "enabled", "max_token_age_secs", "scope_map",
        "subject_mapping"}, {"max_lifetime_secs"}), {"scope_map"})
FederationConfigResponse ==
    Raw(Defaulted(Body({"allow_tenant_inheritance", "allowed_algorithms",
        "allowed_issuer_tenants", "attribute_map", "client_id", "created_at",
        "effective_scopes", "enabled", "has_bundled_mark", "id", "mints_client_secret",
        "native_login", "pkce_required", "protocol", "provider", "provider_kind", "scopes",
        "tenant_id", "token_exchange", "updated_at"}, {"allow_sha1_signatures",
        "apple_key_id", "apple_team_id", "authorization_endpoint", "button_icon",
        "idp_metadata_signing_cert_pem", "metadata_url", "provider_slug", "token_endpoint",
        "userinfo_endpoint"}), {"allow_sha1_signatures"}), {"attribute_map"})
FederationLinkResponse ==
    Body({"created_at", "external_subject", "federation_config_id", "id", "tenant_id",
        "updated_at", "user_id"}, {"external_email"})
GeneratedCaCertificate ==
    Enums(Body({"created_at", "fingerprint", "id", "key_algorithm", "not_after",
        "not_before", "organization_id", "public_cert_pem", "status", "subject"},
        {"chain_pem", "key_custody", "key_locator", "mtls_trust_anchor", "parent_ca_id",
        "tenant_id", "private_key_pem"}), [key_algorithm |-> KeyAlgorithm, status |->
        CertificateStatus])
GeneratedCertificate ==
    Enums(Raw(Body({"cert_type", "created_at", "fingerprint", "id", "issuer_ca_id",
        "key_algorithm", "metadata", "not_after", "not_before", "public_cert_pem", "status",
        "subject", "tenant_id", "private_key_pem"}, {"user_id", "chain_pem"}),
        {"metadata"}), [cert_type |-> CertificateType, key_algorithm |-> KeyAlgorithm,
        status |-> CertificateStatus])
GeneratedPgpKey ==
    Enums(Body({"algorithm", "created_at", "fingerprint", "id", "name",
        "public_key_armored", "purpose", "status", "tenant_id"}, {"private_key_armored"}),
        [algorithm |-> PgpKeyAlgorithm, purpose |-> PgpKeyPurpose, status |-> PgpKeyStatus])
GrantPermissionRequest ==
    Enums(Body({"permission_id"}, {"effect", "scope_ids"}), [effect |-> PermissionEffect])
GrantScopeConsent == Body({"client_id", "scopes"}, {})
GrantedScope == Body({"id", "name", "resource_id"}, {})
Group ==
    Raw(Body({"created_at", "description", "id", "metadata", "name", "tenant_id",
        "updated_at"}, {}), {"metadata"})
HealthResponse == Body({"profile", "status"}, {"unavailable"})
ImportCaCertificateRequest == Body({"public_cert_pem"}, {"private_key_pem"})
IssueSamlIdpCredential ==
    Enums(Body({"issuer_ca_id", "slot"}, {"validity_days"}), [slot |-> SamlIdpSlot])
LinkDirectoryAccount == Body({"user_id"}, {})
LockoutPolicy ==
    Body({"lockout_backoff_multiplier", "lockout_duration_secs",
        "max_failed_login_attempts", "max_lockout_duration_secs"}, {})
MdsRefreshOutcome == OpenUnion("outcome")
MdsStatusResponse == Body({"entry_count", "stale"}, {"last_refreshed_at", "next_update", "no"})
MfaMethodResponse ==
    Enums(Body({"created_at", "method_id", "method_type", "name"}, {"last_used_at"}),
        [method_type |-> MfaMethodType])
MfaPolicy == Body({"mfa_challenge_lifetime_secs", "mfa_enforced"}, {})
MigrateCustodyResponse ==
    Body({"ca_certificate_id", "key_custody", "previous_custody"}, {"key_locator"})
MtlsTrustAnchorResponse ==
    Body({"ca_certificate_id", "message", "mtls_trust_anchor", "restart_required"},
        {"trusted_anchors"})
NetworkPolicyResponse ==
    Body({"session_timeout_max_secs", "tenant_id", "version"}, {"updated_at", "updated_by"})
NetworkReplyProfile ==
    Enums(Body({"created_at", "created_by", "dictionary", "segment_id",
        "session_timeout_clamped", "session_timeout_secs", "tenant_id",
        "termination_action", "updated_at", "updated_by", "version"}, {"filter_id",
        "idle_timeout_secs", "service_type"}), [service_type |-> RadiusServiceType,
        termination_action |-> RadiusTerminationAction])
NetworkSegmentResponse ==
    Enums(Body({"created_at", "created_by", "enabled", "filter_ids", "id", "kind", "name",
        "path", "site_key", "tenant_id", "updated_at", "updated_by", "version", "vlan_id"},
        {"rank"}), [kind |-> NetworkSegmentKind])
NotificationPolicy == Body({"admin_notifications_enabled"}, {})
NotificationRuleResponse ==
    Enums(Body({"created_at", "description", "enabled", "events", "id", "name",
        "recipient_emails", "tenant_id", "updated_at", "window_minutes"}, {}), [events |->
        NotificationEventType])
OAuth2ClientCreatedResponse ==
    Body({"client_id", "created_at", "grant_types", "id", "name", "redirect_uris", "scopes",
        "tenant_id", "updated_at"}, {"client_secret"})
OAuth2ClientResponse ==
    Enums(Body({"allowed_resources", "authn_request_params", "browser_sso", "client_id",
        "created_at", "dpop_bound_access_tokens", "dpop_require_nonce", "grant_types", "id",
        "managed_by", "name", "profile", "redirect_uris", "require_par", "scopes",
        "self_signed_tls_client_auth_thumbprints", "tenant_id",
        "tls_client_certificate_bound_access_tokens", "token_endpoint_auth_method",
        "updated_at"}, {"backchannel_authentication_request_signing_alg",
        "backchannel_client_notification_endpoint", "backchannel_token_delivery_mode",
        "default_idp", "jwks", "jwks_uri", "last_authorized_at", "tls_client_auth_san_dns",
        "tls_client_auth_san_uri", "tls_client_auth_subject_dn"}), [authn_request_params |->
        AuthnRequestParamsMode, backchannel_authentication_request_signing_alg |->
        CibaRequestSigningAlg, backchannel_token_delivery_mode |-> CibaDeliveryMode,
        managed_by |-> ManagedBy, profile |-> ClientProfile, token_endpoint_auth_method |->
        ClientAuthMethod])
OAuth2Policy ==
    Enums(Body({}, {"refresh_reuse_response"}), [refresh_reuse_response |->
        RefreshReuseResponse])
OidcAuthorizeRequest == Body({"config_id", "nonce", "redirect_uri", "state"}, {})
OidcAuthorizeResponse == Body({"url"}, {})
OidcCallbackRequest == Body({"code", "config_id", "nonce", "redirect_uri", "state"}, {})
OidcCallbackResponse == Body({"federation_link_id", "newly_provisioned", "user_id"}, {})
OidcPolicy ==
    Body({"sensitive_scopes_enabled"}, {"cimd", "dcr_allowed_redirect_hosts",
        "dcr_allowed_scopes", "dcr_max_clients", "dcr_unused_client_ttl_days",
        "default_locale", "dynamic_registration", "external_client_allowed_resources",
        "saml_idp_enabled", "ssf_enabled", "ssf_inactive_reason"})
OpaquePolicy == Body({"opaque_ksf", "opaque_mode", "opaque_suite"}, {})
Organization ==
    Raw(Body({"created_at", "id", "metadata", "name", "slug", "updated_at"}, {}),
        {"metadata"})
ParseSamlSpMetadata == Body({}, {"metadata_url", "metadata_xml"})
PasswordPolicy ==
    Body({"hibp_check_enabled", "min_length", "password_history_count", "require_digits",
        "require_lowercase", "require_symbols", "require_uppercase"}, {})
Permission == Body({"action", "created_at", "description", "id", "tenant_id", "updated_at"}, {})
PgpKey ==
    Enums(Body({"algorithm", "created_at", "fingerprint", "id", "name",
        "public_key_armored", "purpose", "status", "tenant_id"}, {}), [algorithm |->
        PgpKeyAlgorithm, purpose |-> PgpKeyPurpose, status |-> PgpKeyStatus])
PolicyResponse ==
    Enums(Body({"block_revoked_status", "mode", "require_fido_certified",
        "effective_unknown_aaguid"}, {"allowed_aaguids", "blocked_aaguids",
        "min_certification", "unknown_aaguid"}), [min_certification |-> CertificationLevel,
        mode |-> AttestationMode, unknown_aaguid |-> UnknownAaguidAction,
        effective_unknown_aaguid |-> UnknownAaguidAction])
PrivacyPolicy == Body({"deletion_grace_period_days"}, {})
ReactorEventDescriptor ==
    Enums(Body({"default_failure_policy", "description", "interceptable", "mutable",
        "mutable_fields", "name"}, {}), [default_failure_policy |-> FailurePolicy])
ReactorResponse ==
    Enums(Body({"created_at", "description", "enabled", "events", "failure_policy", "id",
        "mode", "name", "priority", "recent_timeout_count", "recent_veto_count",
        "tenant_id", "timeout_ms", "updated_at"}, {"last_seen_at"}), [failure_policy |->
        FailurePolicy, mode |-> ReactorMode])
ReadyResponse == Body({"database", "status"}, {})
ReplaceNetworkPolicyRequest == Body({"session_timeout_max_secs", "version"}, {})
ReplaceNetworkReplyProfileRequest == Body({"profile", "segment_version", "version"}, {})
ReplaceNetworkSegmentRequest == Body({"enabled", "filter_ids", "version", "vlan_id"}, {"rank"})
ResolvedPermissionGrant ==
    Enums(Body({"effect", "permission", "scope_ids", "scopes"}, {}), [effect |->
        PermissionEffect])
Resource ==
    Raw(Body({"created_at", "id", "metadata", "name", "resource_type", "tenant_id",
        "updated_at"}, {"parent_id", "uma_registered_by"}), {"metadata"})
Role ==
    Body({"created_at", "description", "id", "is_global", "name", "tenant_id",
        "updated_at"}, {})
RoleAssignment == Body({"role"}, {"inherit", "resource_id", "tenant_scope"})
RoleGroupAssignment == Body({"group"}, {"inherit", "resource_id", "tenant_scope"})
ServiceAccountResponse ==
    Enums(Body({"client_id", "created_at", "id", "name", "status", "tenant_id",
        "updated_at"}, {"description"}), [status |-> UserStatus])
RoleServiceAccountAssignment ==
    Body({"service_account"}, {"inherit", "resource_id", "tenant_scope"})
UserResponse ==
    Enums(Raw(Body({"created_at", "email", "email_verified", "failed_login_attempts", "id",
        "is_locked", "metadata", "mfa_enabled", "status", "tenant_id", "updated_at",
        "username"}, {"locked_until"}), {"metadata"}), [status |-> UserStatus])
RoleUserAssignment == Body({"user"}, {"inherit", "resource_id", "tenant_scope"})
RotateSecretResponse == Body({"client_secret"}, {})
SamlIdpCredential ==
    Enums(Body({"certificate_pem", "created_at", "fingerprint", "id", "issuer_ca_id",
        "not_after", "not_before", "serial", "status", "tenant_id"}, {"retired_at"}),
        [status |-> SamlIdpCredentialStatus])
SamlIdpCredentialPromotion == Body({"active"}, {"retired"})
SamlIdpInfo ==
    Nullable(Body({"entity_id", "metadata_served", "metadata_url", "saml_available",
        "saml_idp_enabled", "slo_url", "sso_url", "tenant_id"}, {}),
        {"active_credential_id", "next_credential_id"})
SamlServiceProvider ==
    Enums(Body({"acs_urls", "allow_idp_initiated", "allowed_groups", "attribute_mappings",
        "created_at", "display_name", "enabled", "encrypt_assertions", "entity_id", "id",
        "name_id_format", "sign_responses", "tenant_id", "updated_at",
        "want_authn_requests_signed"}, {"slo_binding", "slo_url", "sp_encryption_cert_pem",
        "sp_signing_cert_pem"}), [name_id_format |-> NameIdFormat, slo_binding |->
        SamlBinding])
SamlServiceProviderInput ==
    Enums(Body({"acs_urls", "display_name", "entity_id"}, {"allow_idp_initiated",
        "allowed_groups", "attribute_mappings", "enabled", "encrypt_assertions",
        "name_id_format", "sign_responses", "slo_binding", "slo_url",
        "sp_encryption_cert_pem", "sp_signing_cert_pem", "want_authn_requests_signed"}),
        [name_id_format |-> NameIdFormat, slo_binding |-> SamlBinding])
SamlSpMetadataDraft ==
    Body({"service_provider", "warnings"}, {"encryption_certificate_fingerprint",
        "signing_certificate_fingerprint"})
ScimReconcileAccepted == Body({"status", "target_id"}, {})
ScimTargetAuth == Union("type", {"bearer", "oauth2_client_credentials"})
ScimTargetDeliveryState ==
    Body({"consecutive_failures", "dead_lettered_total"}, {"last_failure_at",
        "last_failure_reason", "last_reconciled_at", "last_success_at"})
ScimTargetScope == Union("type", {"all_users", "groups"})
ScimTargetInput ==
    Enums(Body({"auth", "base_url", "name", "scope"}, {"credential", "deprovision",
        "enabled", "expected_updated_at", "push_groups", "user_name_from"}), [deprovision
        |-> DeprovisionPolicy, user_name_from |-> UserNameSource])
ScimTargetResponse ==
    Enums(Body({"auth", "base_url", "created_at", "deprovision", "enabled", "id", "name",
        "push_groups", "scope", "tenant_id", "updated_at", "user_name_from"}, {"state"}),
        [deprovision |-> DeprovisionPolicy, user_name_from |-> UserNameSource])
ScimTokenResponse ==
    Enums(Body({"created_at", "created_by", "expires_at", "id", "name", "status",
        "tenant_id", "user_id"}, {"last_used_at", "revoked_at"}), [status |->
        ScimTokenStatus])
Scope ==
    Body({"created_at", "description", "id", "name", "resource_id", "tenant_id",
        "updated_at"}, {})
TokenPolicy == Body({"access_token_lifetime_secs", "refresh_token_lifetime_secs"}, {})
WebauthnPolicy == Body({"webauthn_user_verification"}, {})
SecuritySettings ==
    Enums(Body({"certificate", "created_at", "email", "id", "lockout", "mfa",
        "notification", "oidc", "opaque", "password", "privacy", "scope", "scope_id",
        "token", "updated_at", "webauthn"}, {"oauth2"}), [scope |-> SettingsScope])
ServiceAccountCreatedResponse ==
    Enums(Body({"client_id", "client_secret", "created_at", "id", "name", "status",
        "tenant_id", "updated_at"}, {"description"}), [status |-> UserStatus])
SessionResponse ==
    Body({"amr", "authenticated_at", "created_at", "expires_at", "id",
        "refresh_replay_grace_accepted", "refresh_replay_refused",
        "refresh_replay_verdict"}, {"ip_address", "refresh_replay_at", "user_agent"})
SetDirectoryConfig ==
    Enums(Body({"base_dn", "bind_dn", "enabled", "kind", "start_tls", "url", "user_filter"},
        {"bind_secret", "group_base_dn", "group_filter", "group_mappings",
        "group_member_attribute", "group_nesting_depth", "jit_provisioning",
        "sync_interval_secs", "trust_anchors_pem", "user_attribute_map"}), [kind |->
        DirectoryKind])
SetMtlsTrustAnchor == Body({"enabled"}, {})
SetOrgEmailConfig == Body({"enabled", "from_email", "from_name", "provider"}, {"reply_to"})
SetOrgSettings ==
    Enums(Body({"access_token_lifetime_secs", "admin_notifications_enabled",
        "default_cert_validity_days", "email_verification_grace_period_hours",
        "email_verification_required", "hibp_check_enabled", "lockout_backoff_multiplier",
        "lockout_duration_secs", "max_cert_validity_days", "max_failed_login_attempts",
        "max_lockout_duration_secs", "mfa_challenge_lifetime_secs", "mfa_enforced",
        "min_length", "password_history_count", "refresh_token_lifetime_secs",
        "require_digits", "require_lowercase", "require_symbols", "require_uppercase"},
        {"cimd", "dcr_allowed_redirect_hosts", "dcr_allowed_scopes", "dcr_max_clients",
        "dcr_unused_client_ttl_days", "default_locale", "deletion_grace_period_days",
        "dynamic_registration", "external_client_allowed_resources", "opaque_ksf",
        "opaque_mode", "opaque_suite", "refresh_reuse_response", "saml_idp_enabled",
        "sensitive_scopes_enabled", "server_cert_allowed_names", "ssf_enabled",
        "webauthn_user_verification"}), [refresh_reuse_response |-> RefreshReuseResponse])
SignAuditBatchRequest == Body({"entry_ids"}, {})
SignCertificateCsrRequest ==
    Enums(Raw(Body({"cert_type", "csr_pem", "issuer_ca_id", "validity_days"}, {"metadata",
        "user_id", "subject_alt_names"}), {"metadata"}), [cert_type |-> CertificateType])
SignIntermediateCsrRequest == Body({"csr_pem", "parent_ca_id", "validity_days"}, {})
SignedAuditBatch ==
    Body({"batch_id", "entry_ids", "signature_armored", "signed_at", "signing_key_id",
        "tenant_id"}, {})
SmtpConfig == Body({"host", "port", "starttls", "username"}, {})
SsfStream ==
    Enums(Body({"audience", "authorization_header_set", "created_at", "delivery_method",
        "events_allowed", "events_delivered", "events_requested", "id",
        "receiver_client_id", "status", "status_actor", "subject_format", "tenant_id",
        "transmitter_active", "updated_at"}, {"description", "endpoint_url",
        "last_verification_at", "status_reason", "transmitter_inactive_reason"}),
        [delivery_method |-> SsfDeliveryMethod, status |-> SsfStreamStatus, status_actor |->
        SsfStatusActor, subject_format |-> SsfSubjectFormat])
SsfStreamInput ==
    Enums(Body({"audience", "delivery_method", "events_allowed", "receiver_client_id"},
        {"authorization_header", "clear_authorization_header", "description",
        "endpoint_url", "events_requested", "expected_updated_at", "status",
        "status_reason", "subject_format"}), [delivery_method |-> SsfDeliveryMethod, status
        |-> SsfStreamStatus, subject_format |-> SsfSubjectFormat])
Tenant ==
    Enums(Raw(Body({"created_at", "id", "metadata", "name", "organization_id", "slug",
        "status", "updated_at"}, {"kind"}), {"metadata"}), [kind |-> TenantKind, status |->
        TenantStatus])
TenantSettingsOverride ==
    Enums(Body({}, {"access_token_lifetime_secs", "admin_notifications_enabled", "cimd",
        "dcr_allowed_redirect_hosts", "dcr_allowed_scopes", "dcr_max_clients",
        "dcr_unused_client_ttl_days", "default_cert_validity_days", "default_locale",
        "deletion_grace_period_days", "dynamic_registration",
        "email_verification_grace_period_hours", "email_verification_required",
        "external_client_allowed_resources", "hibp_check_enabled",
        "lockout_backoff_multiplier", "lockout_duration_secs", "max_cert_validity_days",
        "max_failed_login_attempts", "max_lockout_duration_secs",
        "mfa_challenge_lifetime_secs", "mfa_enforced", "min_length", "opaque_ksf",
        "opaque_mode", "opaque_suite", "password_history_count", "refresh_reuse_response",
        "refresh_token_lifetime_secs", "require_digits", "require_lowercase",
        "require_symbols", "require_uppercase", "saml_idp_enabled",
        "sensitive_scopes_enabled", "server_cert_allowed_names", "ssf_enabled",
        "webauthn_user_verification"}), [refresh_reuse_response |-> RefreshReuseResponse])
UpdateDirectoryConfig ==
    Enums(Nullable(Body({}, {"base_dn", "bind_dn", "bind_secret", "enabled",
        "group_mappings", "group_member_attribute", "group_nesting_depth",
        "jit_provisioning", "kind", "start_tls", "sync_interval_secs", "trust_anchors_pem",
        "url", "user_attribute_map", "user_filter"}), {"group_base_dn", "group_filter"}),
        [kind |-> DirectoryKind])
UpdateFederationConfigRequest ==
    Raw(Nullable(Body({}, {"allow_sha1_signatures", "allow_tenant_inheritance",
        "allowed_algorithms", "allowed_issuer_tenants", "attribute_map", "client_id",
        "client_secret", "enabled", "native_login", "provider", "require_pkce", "scopes",
        "token_exchange"}), {"apple_key_id", "apple_team_id", "authorization_endpoint",
        "button_icon", "idp_metadata_signing_cert_pem", "idp_signing_cert_pem",
        "metadata_url", "provider_slug", "token_endpoint", "userinfo_endpoint"}),
        {"attribute_map"})
UpdateGroup == Raw(Body({}, {"description", "metadata", "name"}), {"metadata"})
UpdateNotificationRuleRequest ==
    Enums(Body({}, {"description", "enabled", "events", "name", "recipient_emails",
        "window_minutes"}), [events |-> NotificationEventType])
UpdateOAuth2ClientRequest ==
    Enums(Body({}, {"allowed_resources", "authn_request_params",
        "backchannel_authentication_request_signing_alg",
        "backchannel_client_notification_endpoint", "backchannel_logout_uri",
        "backchannel_token_delivery_mode", "backchannel_user_code_parameter", "browser_sso",
        "default_idp", "dpop_bound_access_tokens", "dpop_require_nonce", "grant_types",
        "jwks", "jwks_uri", "name", "post_logout_redirect_uris", "profile", "redirect_uris",
        "require_par", "scopes", "self_signed_tls_client_auth_thumbprints",
        "tls_client_auth_san_dns", "tls_client_auth_san_uri", "tls_client_auth_subject_dn",
        "tls_client_certificate_bound_access_tokens", "token_endpoint_auth_method"}),
        [authn_request_params |-> AuthnRequestParamsMode, profile |-> ClientProfile,
        token_endpoint_auth_method |-> ClientAuthMethod])
UpdateOrganizationRequest == Raw(Body({}, {"metadata", "name", "slug"}), {"metadata"})
UpdatePermissionRequest == Body({}, {"action", "description"})
UpdateReactorRequest ==
    Enums(Body({}, {"description", "enabled", "events", "failure_policy", "mode", "name",
        "priority", "timeout_ms"}), [failure_policy |-> FailurePolicy, mode |->
        ReactorMode])
UpdateResourceRequest ==
    Raw(Body({}, {"metadata", "name", "parent_id", "resource_type"}), {"metadata"})
UpdateRole == Body({}, {"description", "is_global", "name"})
UpdateScopeRequest == Body({}, {"description", "name"})
UpdateServiceAccount ==
    Enums(Body({}, {"description", "name", "status"}), [status |-> UserStatus])
UpdateTenant ==
    Enums(Raw(Body({}, {"metadata", "name", "slug", "status"}), {"metadata"}), [status |->
        TenantStatus])
UpdateUserRequest ==
    Enums(Raw(Body({}, {"email", "metadata", "status", "username"}), {"metadata"}), [status
        |-> UserStatus])
UpdateWebhookRequest == Body({}, {"enabled", "events", "retry_policy", "secret", "url"})
WebauthnAttestationPolicy ==
    Enums(Body({"block_revoked_status", "mode", "require_fido_certified"},
        {"allowed_aaguids", "blocked_aaguids", "min_certification", "unknown_aaguid"}),
        [min_certification |-> CertificationLevel, mode |-> AttestationMode, unknown_aaguid
        |-> UnknownAaguidAction])
WebhookResponse ==
    Body({"created_at", "enabled", "events", "id", "retry_policy", "tenant_id",
        "updated_at", "url"}, {})

\* Every schema, by its name.
Bodies ==
    [AcsEndpoint |-> AcsEndpoint, AddMemberRequest |-> AddMemberRequest,
     AddServiceAccountMemberRequest |-> AddServiceAccountMemberRequest, ApiProviderConfig
     |-> ApiProviderConfig, AssignRoleToGroupRequest |-> AssignRoleToGroupRequest,
     AssignRoleToServiceAccountRequest |-> AssignRoleToServiceAccountRequest,
     AssignRoleToUserRequest |-> AssignRoleToUserRequest, AttributeMapping |->
     AttributeMapping, AuditLogEntry |-> AuditLogEntry, BindCertificate |-> BindCertificate,
     CaCertificate |-> CaCertificate, Certificate |-> Certificate, CertificatePolicy |->
     CertificatePolicy, CimdPolicy |-> CimdPolicy, ComplianceReportEntry |->
     ComplianceReportEntry, ConsentView |-> ConsentView, CreateCaCertificateRequest |->
     CreateCaCertificateRequest, SubjectAltName |-> SubjectAltName, CreateCertificateRequest
     |-> CreateCertificateRequest, NativeLoginTrustRequest |-> NativeLoginTrustRequest,
     TokenExchangeTrustRequest |-> TokenExchangeTrustRequest, CreateFederationConfigRequest
     |-> CreateFederationConfigRequest, CreateGroupRequest |-> CreateGroupRequest,
     CreateIntermediateCaRequest |-> CreateIntermediateCaRequest, NetworkReplyProfileInput
     |-> NetworkReplyProfileInput, CreateNetworkReplyProfileRequest |->
     CreateNetworkReplyProfileRequest, CreateNetworkSegmentRequest |->
     CreateNetworkSegmentRequest, CreateNotificationRuleRequest |->
     CreateNotificationRuleRequest, CreateOAuth2ClientRequest |-> CreateOAuth2ClientRequest,
     CreatePermissionRequest |-> CreatePermissionRequest, CreatePgpKeyRequest |->
     CreatePgpKeyRequest, CreateReactorRequest |-> CreateReactorRequest,
     CreateRegistrationTokenRequest |-> CreateRegistrationTokenRequest,
     RegistrationTokenResponse |-> RegistrationTokenResponse,
     CreateRegistrationTokenResponse |-> CreateRegistrationTokenResponse,
     CreateResourceRequest |-> CreateResourceRequest, CreateRoleRequest |->
     CreateRoleRequest, CreateScimTokenRequest |-> CreateScimTokenRequest,
     CreateScimTokenResponse |-> CreateScimTokenResponse, CreateScopeRequest |->
     CreateScopeRequest, CreateServiceAccountRequest |-> CreateServiceAccountRequest,
     CreateTenantRequest |-> CreateTenantRequest, OpaqueEnrollment |-> OpaqueEnrollment,
     CreateUserRequest |-> CreateUserRequest, RetryPolicy |-> RetryPolicy,
     CreateWebhookRequest |-> CreateWebhookRequest, GroupMapping |-> GroupMapping,
     UserAttributeMap |-> UserAttributeMap, DirectoryConfig |-> DirectoryConfig,
     DirectoryLinkResult |-> DirectoryLinkResult, DirectorySyncStatus |->
     DirectorySyncStatus, ProviderConfig |-> ProviderConfig, EmailConfig |-> EmailConfig,
     EmailConfigOverride |-> EmailConfigOverride, EmailTestResult |-> EmailTestResult,
     EmailVerificationPolicy |-> EmailVerificationPolicy, EncryptRequest |-> EncryptRequest,
     EncryptedExport |-> EncryptedExport, NativeLoginTrustResponse |->
     NativeLoginTrustResponse, TokenExchangeTrustResponse |-> TokenExchangeTrustResponse,
     FederationConfigResponse |-> FederationConfigResponse, FederationLinkResponse |->
     FederationLinkResponse, GeneratedCaCertificate |-> GeneratedCaCertificate,
     GeneratedCertificate |-> GeneratedCertificate, GeneratedPgpKey |-> GeneratedPgpKey,
     GrantPermissionRequest |-> GrantPermissionRequest, GrantScopeConsent |->
     GrantScopeConsent, GrantedScope |-> GrantedScope, Group |-> Group, HealthResponse |->
     HealthResponse, ImportCaCertificateRequest |-> ImportCaCertificateRequest,
     IssueSamlIdpCredential |-> IssueSamlIdpCredential, LinkDirectoryAccount |->
     LinkDirectoryAccount, LockoutPolicy |-> LockoutPolicy, MdsRefreshOutcome |->
     MdsRefreshOutcome, MdsStatusResponse |-> MdsStatusResponse, MfaMethodResponse |->
     MfaMethodResponse, MfaPolicy |-> MfaPolicy, MigrateCustodyResponse |->
     MigrateCustodyResponse, MtlsTrustAnchorResponse |-> MtlsTrustAnchorResponse,
     NetworkPolicyResponse |-> NetworkPolicyResponse, NetworkReplyProfile |->
     NetworkReplyProfile, NetworkSegmentResponse |-> NetworkSegmentResponse,
     NotificationPolicy |-> NotificationPolicy, NotificationRuleResponse |->
     NotificationRuleResponse, OAuth2ClientCreatedResponse |-> OAuth2ClientCreatedResponse,
     OAuth2ClientResponse |-> OAuth2ClientResponse, OAuth2Policy |-> OAuth2Policy,
     OidcAuthorizeRequest |-> OidcAuthorizeRequest, OidcAuthorizeResponse |->
     OidcAuthorizeResponse, OidcCallbackRequest |-> OidcCallbackRequest,
     OidcCallbackResponse |-> OidcCallbackResponse, OidcPolicy |-> OidcPolicy, OpaquePolicy
     |-> OpaquePolicy, Organization |-> Organization, ParseSamlSpMetadata |->
     ParseSamlSpMetadata, PasswordPolicy |-> PasswordPolicy, Permission |-> Permission,
     PgpKey |-> PgpKey, PolicyResponse |-> PolicyResponse, PrivacyPolicy |-> PrivacyPolicy,
     ReactorEventDescriptor |-> ReactorEventDescriptor, ReactorResponse |-> ReactorResponse,
     ReadyResponse |-> ReadyResponse, ReplaceNetworkPolicyRequest |->
     ReplaceNetworkPolicyRequest, ReplaceNetworkReplyProfileRequest |->
     ReplaceNetworkReplyProfileRequest, ReplaceNetworkSegmentRequest |->
     ReplaceNetworkSegmentRequest, ResolvedPermissionGrant |-> ResolvedPermissionGrant,
     Resource |-> Resource, Role |-> Role, RoleAssignment |-> RoleAssignment,
     RoleGroupAssignment |-> RoleGroupAssignment, ServiceAccountResponse |->
     ServiceAccountResponse, RoleServiceAccountAssignment |-> RoleServiceAccountAssignment,
     UserResponse |-> UserResponse, RoleUserAssignment |-> RoleUserAssignment,
     RotateSecretResponse |-> RotateSecretResponse, SamlIdpCredential |-> SamlIdpCredential,
     SamlIdpCredentialPromotion |-> SamlIdpCredentialPromotion, SamlIdpInfo |-> SamlIdpInfo,
     SamlServiceProvider |-> SamlServiceProvider, SamlServiceProviderInput |->
     SamlServiceProviderInput, SamlSpMetadataDraft |-> SamlSpMetadataDraft,
     ScimReconcileAccepted |-> ScimReconcileAccepted, ScimTargetAuth |-> ScimTargetAuth,
     ScimTargetDeliveryState |-> ScimTargetDeliveryState, ScimTargetScope |->
     ScimTargetScope, ScimTargetInput |-> ScimTargetInput, ScimTargetResponse |->
     ScimTargetResponse, ScimTokenResponse |-> ScimTokenResponse, Scope |-> Scope,
     TokenPolicy |-> TokenPolicy, WebauthnPolicy |-> WebauthnPolicy, SecuritySettings |->
     SecuritySettings, ServiceAccountCreatedResponse |-> ServiceAccountCreatedResponse,
     SessionResponse |-> SessionResponse, SetDirectoryConfig |-> SetDirectoryConfig,
     SetMtlsTrustAnchor |-> SetMtlsTrustAnchor, SetOrgEmailConfig |-> SetOrgEmailConfig,
     SetOrgSettings |-> SetOrgSettings, SignAuditBatchRequest |-> SignAuditBatchRequest,
     SignCertificateCsrRequest |-> SignCertificateCsrRequest, SignIntermediateCsrRequest |->
     SignIntermediateCsrRequest, SignedAuditBatch |-> SignedAuditBatch, SmtpConfig |->
     SmtpConfig, SsfStream |-> SsfStream, SsfStreamInput |-> SsfStreamInput, Tenant |->
     Tenant, TenantSettingsOverride |-> TenantSettingsOverride, UpdateDirectoryConfig |->
     UpdateDirectoryConfig, UpdateFederationConfigRequest |-> UpdateFederationConfigRequest,
     UpdateGroup |-> UpdateGroup, UpdateNotificationRuleRequest |->
     UpdateNotificationRuleRequest, UpdateOAuth2ClientRequest |-> UpdateOAuth2ClientRequest,
     UpdateOrganizationRequest |-> UpdateOrganizationRequest, UpdatePermissionRequest |->
     UpdatePermissionRequest, UpdateReactorRequest |-> UpdateReactorRequest,
     UpdateResourceRequest |-> UpdateResourceRequest, UpdateRole |-> UpdateRole,
     UpdateScopeRequest |-> UpdateScopeRequest, UpdateServiceAccount |->
     UpdateServiceAccount, UpdateTenant |-> UpdateTenant, UpdateUserRequest |->
     UpdateUserRequest, UpdateWebhookRequest |-> UpdateWebhookRequest,
     WebauthnAttestationPolicy |-> WebauthnAttestationPolicy, WebhookResponse |->
     WebhookResponse]
=============================================================================
