-------------------------- MODULE ManagementTypes --------------------------
(***************************************************************************)
(* The structures of management_models.hpp, and what to_json does with     *)
(* them.  A bare member is a number, a Boolean or an enumeration declared  *)
(* with no initializer: its value is undefined until it is assigned.  A    *)
(* kept one always has a value, and an optional one may be unset.  Bare    *)
(* and kept members are always written, optional ones when they are set.   *)
(***************************************************************************)
Struct(bare, kept, optional) ==
    [bare |-> bare, kept |-> kept, optional |-> optional, omitted |-> {},
     forwarded |-> FALSE, single |-> FALSE]

\* Optional lists that are not written when they are empty, either.
Omitted(struct, lists) == [struct EXCEPT !.omitted = lists]

\* A union of which the text that was read is written, whatever its tag.
Forwarded(tag) == [Struct({}, {tag}, {"rest"}) EXCEPT !.forwarded = TRUE]

\* Exactly one of the members is to be set.
OneOf(members) == [Struct({}, {}, members) EXCEPT !.single = TRUE]

Always(struct) == struct.bare \cup struct.kept

Fields(struct) == Always(struct) \cup struct.optional
-----------------------------------------------------------------------------
AcsEndpoint == Struct({"binding", "index"}, {"url"}, {"is_default"})
AddMemberRequest == Struct({}, {"user_id"}, {})
AddServiceAccountMemberRequest == Struct({}, {"service_account_id"}, {})
ApiProviderConfig == Struct({}, {}, {"api_url"})
AssignRoleToGroupRequest ==
    Omitted(Struct({}, {"group_id"}, {"inherit", "resource_id", "tenant_scope"}),
        {"tenant_scope"})
AssignRoleToServiceAccountRequest ==
    Omitted(Struct({}, {"service_account_id"}, {"inherit", "resource_id", "tenant_scope"}),
        {"tenant_scope"})
AssignRoleToUserRequest ==
    Omitted(Struct({}, {"user_id"}, {"inherit", "resource_id", "tenant_scope"}),
        {"tenant_scope"})
AttributeMapping == Struct({"source"}, {"saml_name"}, {"name_format"})
AuditLogEntry ==
    Struct({"actor_type", "outcome"}, {"action", "actor_id", "id", "metadata", "tenant_id",
        "timestamp"}, {"ip_address", "resource_id"})
BindCertificate == Struct({}, {"certificate_id"}, {})
CaCertificate ==
    Struct({"key_algorithm", "status"}, {"created_at", "fingerprint", "id", "not_after",
        "not_before", "organization_id", "public_cert_pem", "subject"}, {"chain_pem",
        "key_custody", "key_locator", "mtls_trust_anchor", "parent_ca_id", "tenant_id"})
Certificate ==
    Struct({"cert_type", "key_algorithm", "status"}, {"created_at", "fingerprint", "id",
        "issuer_ca_id", "metadata", "not_after", "not_before", "public_cert_pem", "subject",
        "tenant_id"}, {"user_id", "bound_service_account_id"})
CertificatePolicy ==
    Struct({"default_cert_validity_days", "max_cert_validity_days"}, {},
        {"server_cert_allowed_names"})
CimdPolicy ==
    Struct({}, {}, {"allow_http", "confidential_only", "enabled", "max_cache_secs",
        "max_metadata_bytes", "min_cache_secs", "restrict_same_domain",
        "trusted_client_id_domains", "trusted_redirect_domains"})
ComplianceReportEntry ==
    Struct({"compliant"}, {"credential_id", "name", "user_id"}, {"aaguid",
        "authenticator_name", "reason"})
ConsentView == Struct({"withdrawable"}, {"accepted_at", "consent_type", "version"}, {})
CreateCaCertificateRequest ==
    Struct({"key_algorithm", "validity_days"}, {"subject"}, {"intermediate_subject",
        "intermediate_validity_days", "issue_from_root"})
SubjectAltName == OneOf({"dns", "ip"})
CreateCertificateRequest ==
    Omitted(Struct({"cert_type", "key_algorithm", "validity_days"}, {"issuer_ca_id",
        "subject"}, {"metadata", "subject_alt_names", "user_id"}), {"subject_alt_names"})
NativeLoginTrustRequest == Struct({}, {}, {"client_ids", "enabled", "max_token_age_secs"})
TokenExchangeTrustRequest ==
    Struct({}, {}, {"accepted_audiences", "enabled", "max_lifetime_secs",
        "max_token_age_secs", "scope_map", "subject_mapping"})
CreateFederationConfigRequest ==
    Struct({}, {"client_id", "client_secret", "protocol", "provider"},
        {"allow_sha1_signatures", "allow_tenant_inheritance", "allowed_algorithms",
        "allowed_issuer_tenants", "apple_key_id", "apple_team_id", "attribute_map",
        "authorization_endpoint", "button_icon", "idp_metadata_signing_cert_pem",
        "idp_signing_cert_pem", "metadata_url", "native_login", "provider_kind",
        "provider_slug", "require_pkce", "scopes", "token_endpoint", "token_exchange",
        "userinfo_endpoint"})
CreateGroupRequest == Struct({}, {"description", "name"}, {"metadata"})
CreateIntermediateCaRequest ==
    Struct({"key_algorithm", "validity_days"}, {"parent_ca_id", "subject"}, {})
NetworkReplyProfileInput ==
    Struct({"session_timeout_secs"}, {}, {"dictionary", "filter_id", "idle_timeout_secs",
        "service_type", "termination_action"})
CreateNetworkReplyProfileRequest == Struct({"segment_version"}, {"profile", "segment_id"}, {})
CreateNetworkSegmentRequest ==
    Struct({"kind", "vlan_id"}, {"name", "site_key"}, {"enabled", "filter_ids", "rank"})
CreateNotificationRuleRequest ==
    Struct({}, {"description", "events", "name", "recipient_emails"}, {"window_minutes"})
CreateOAuth2ClientRequest ==
    Struct({}, {"grant_types", "name", "redirect_uris", "scopes"}, {"allowed_resources",
        "authn_request_params", "backchannel_authentication_request_signing_alg",
        "backchannel_client_notification_endpoint", "backchannel_logout_uri",
        "backchannel_token_delivery_mode", "backchannel_user_code_parameter", "browser_sso",
        "default_idp", "dpop_bound_access_tokens", "dpop_require_nonce", "jwks", "jwks_uri",
        "post_logout_redirect_uris", "profile", "require_par",
        "self_signed_tls_client_auth_thumbprints", "tls_client_auth_san_dns",
        "tls_client_auth_san_uri", "tls_client_auth_subject_dn",
        "tls_client_certificate_bound_access_tokens", "token_endpoint_auth_method"})
CreatePermissionRequest == Struct({}, {"action", "description"}, {})
CreatePgpKeyRequest == Struct({"algorithm", "purpose"}, {"email", "name"}, {})
CreateReactorRequest ==
    Struct({"mode"}, {"events", "name"}, {"description", "enabled", "failure_policy",
        "priority", "timeout_ms"})
CreateRegistrationTokenRequest == Struct({}, {"name"}, {"expires_in_hours"})
RegistrationTokenResponse ==
    Struct({}, {"created_at", "created_by", "expires_at", "id", "name", "tenant_id"},
        {"used_at", "used_by_client_id"})
CreateRegistrationTokenResponse == Struct({}, {"initial_access_token", "token"}, {})
CreateResourceRequest == Struct({}, {"name", "resource_type"}, {"metadata", "parent_id"})
CreateRoleRequest == Struct({"is_global"}, {"description", "name"}, {})
CreateScimTokenRequest == Struct({}, {"name", "user_id"}, {"expires_in_days"})
CreateScimTokenResponse ==
    Struct({"status"}, {"created_at", "created_by", "expires_at", "id", "name", "tenant_id",
        "user_id", "provisioning_token"}, {"last_used_at", "revoked_at"})
CreateScopeRequest == Struct({}, {"description", "name"}, {})
CreateServiceAccountRequest == Struct({}, {"name"}, {"description"})
CreateTenantRequest == Struct({}, {"name", "slug"}, {"metadata"})
OpaqueEnrollment == Struct({}, {"opaque_session", "registration_record"}, {})
CreateUserRequest == Struct({}, {"email", "password", "username"}, {"metadata", "opaque"})
RetryPolicy == Struct({"backoff_multiplier", "initial_delay_secs", "max_retries"}, {}, {})
CreateWebhookRequest == Struct({}, {"events", "secret", "url"}, {"retry_policy"})
GroupMapping == Struct({}, {"directory_group_dn", "group_id"}, {})
UserAttributeMap == Struct({}, {"display_name", "email", "external_id", "username"}, {})
DirectoryConfig ==
    Struct({"enabled", "group_nesting_depth", "jit_provisioning", "kind", "start_tls",
        "sync_interval_secs"}, {"base_dn", "bind_dn", "created_at", "group_mappings",
        "group_member_attribute", "id", "tenant_id", "trust_anchors_pem", "updated_at",
        "url", "user_attribute_map", "user_filter"}, {"group_base_dn", "group_filter"})
DirectoryLinkResult ==
    Struct({"certificates_revoked", "was_already_linked", "webauthn_credentials_deleted"},
        {"directory_external_id", "user_id"}, {})
DirectorySyncStatus ==
    Struct({"full_required", "has_watermark"}, {}, {"last_attempt_at", "last_full_run_at",
        "last_result"})
ProviderConfig == Forwarded("kind")
EmailConfig ==
    Struct({"enabled", "scope"}, {"created_at", "from_email", "from_name", "id", "provider",
        "scope_id", "updated_at"}, {"reply_to"})
EmailConfigOverride ==
    Struct({}, {}, {"enabled", "from_email", "from_name", "provider", "reply_to"})
EmailTestResult == Struct({}, {"provider", "to"}, {"message_id"})
EmailVerificationPolicy ==
    Struct({"email_verification_grace_period_hours", "email_verification_required"}, {}, {})
EncryptRequest == Struct({}, {"data_base64"}, {})
EncryptedExport == Struct({}, {"ciphertext_armored", "recipient_key_id"}, {})
NativeLoginTrustResponse == Struct({"enabled", "max_token_age_secs"}, {"client_ids"}, {})
TokenExchangeTrustResponse ==
    Struct({"enabled", "max_token_age_secs"}, {"accepted_audiences", "scope_map",
        "subject_mapping"}, {"max_lifetime_secs"})
FederationConfigResponse ==
    Struct({"allow_tenant_inheritance", "enabled", "has_bundled_mark",
        "mints_client_secret", "pkce_required"}, {"allow_sha1_signatures",
        "allowed_algorithms", "allowed_issuer_tenants", "attribute_map", "client_id",
        "created_at", "effective_scopes", "id", "native_login", "protocol", "provider",
        "provider_kind", "scopes", "tenant_id", "token_exchange", "updated_at"},
        {"apple_key_id", "apple_team_id", "authorization_endpoint", "button_icon",
        "idp_metadata_signing_cert_pem", "metadata_url", "provider_slug", "token_endpoint",
        "userinfo_endpoint"})
FederationLinkResponse ==
    Struct({}, {"created_at", "external_subject", "federation_config_id", "id", "tenant_id",
        "updated_at", "user_id"}, {"external_email"})
GeneratedCaCertificate ==
    Struct({"key_algorithm", "status"}, {"created_at", "fingerprint", "id", "not_after",
        "not_before", "organization_id", "public_cert_pem", "subject"}, {"chain_pem",
        "key_custody", "key_locator", "mtls_trust_anchor", "parent_ca_id", "tenant_id",
        "private_key_pem"})
GeneratedCertificate ==
    Struct({"cert_type", "key_algorithm", "status"}, {"created_at", "fingerprint", "id",
        "issuer_ca_id", "metadata", "not_after", "not_before", "public_cert_pem", "subject",
        "tenant_id", "private_key_pem"}, {"user_id", "chain_pem"})
GeneratedPgpKey ==
    Struct({"algorithm", "purpose", "status"}, {"created_at", "fingerprint", "id", "name",
        "public_key_armored", "tenant_id"}, {"private_key_armored"})
GrantPermissionRequest == Struct({}, {"permission_id"}, {"effect", "scope_ids"})
GrantScopeConsent == Struct({}, {"client_id", "scopes"}, {})
GrantedScope == Struct({}, {"id", "name", "resource_id"}, {})
Group ==
    Struct({}, {"created_at", "description", "id", "metadata", "name", "tenant_id",
        "updated_at"}, {})
HealthResponse == Struct({}, {"profile", "status"}, {"unavailable"})
ImportCaCertificateRequest == Struct({}, {"public_cert_pem"}, {"private_key_pem"})
IssueSamlIdpCredential == Struct({"slot"}, {"issuer_ca_id"}, {"validity_days"})
LinkDirectoryAccount == Struct({}, {"user_id"}, {})
LockoutPolicy ==
    Struct({"lockout_backoff_multiplier", "lockout_duration_secs",
        "max_failed_login_attempts", "max_lockout_duration_secs"}, {}, {})
MdsRefreshOutcome == Forwarded("outcome")
MdsStatusResponse ==
    Struct({"entry_count", "stale"}, {}, {"last_refreshed_at", "next_update", "no"})
MfaMethodResponse ==
    Struct({"method_type"}, {"created_at", "method_id", "name"}, {"last_used_at"})
MfaPolicy == Struct({"mfa_challenge_lifetime_secs", "mfa_enforced"}, {}, {})
MigrateCustodyResponse ==
    Struct({}, {"ca_certificate_id", "key_custody", "previous_custody"}, {"key_locator"})
MtlsTrustAnchorResponse ==
    Struct({"mtls_trust_anchor", "restart_required"}, {"ca_certificate_id", "message"},
        {"trusted_anchors"})
NetworkPolicyResponse ==
    Struct({"session_timeout_max_secs", "version"}, {"tenant_id"}, {"updated_at",
        "updated_by"})
NetworkReplyProfile ==
    Struct({"session_timeout_clamped", "session_timeout_secs", "termination_action",
        "version"}, {"created_at", "created_by", "dictionary", "segment_id", "tenant_id",
        "updated_at", "updated_by"}, {"filter_id", "idle_timeout_secs", "service_type"})
NetworkSegmentResponse ==
    Struct({"enabled", "kind", "version", "vlan_id"}, {"created_at", "created_by",
        "filter_ids", "id", "name", "path", "site_key", "tenant_id", "updated_at",
        "updated_by"}, {"rank"})
NotificationPolicy == Struct({"admin_notifications_enabled"}, {}, {})
NotificationRuleResponse ==
    Struct({"enabled", "window_minutes"}, {"created_at", "description", "events", "id",
        "name", "recipient_emails", "tenant_id", "updated_at"}, {})
OAuth2ClientCreatedResponse ==
    Struct({}, {"client_id", "created_at", "grant_types", "id", "name", "redirect_uris",
        "scopes", "tenant_id", "updated_at"}, {"client_secret"})
OAuth2ClientResponse ==
    Struct({"authn_request_params", "browser_sso", "dpop_bound_access_tokens",
        "dpop_require_nonce", "managed_by", "profile", "require_par",
        "tls_client_certificate_bound_access_tokens", "token_endpoint_auth_method"},
        {"allowed_resources", "client_id", "created_at", "grant_types", "id", "name",
        "redirect_uris", "scopes", "self_signed_tls_client_auth_thumbprints", "tenant_id",
        "updated_at"}, {"backchannel_authentication_request_signing_alg",
        "backchannel_client_notification_endpoint", "backchannel_token_delivery_mode",
        "default_idp", "jwks", "jwks_uri", "last_authorized_at", "tls_client_auth_san_dns",
        "tls_client_auth_san_uri", "tls_client_auth_subject_dn"})
OAuth2Policy == Struct({}, {}, {"refresh_reuse_response"})
OidcAuthorizeRequest == Struct({}, {"config_id", "nonce", "redirect_uri", "state"}, {})
OidcAuthorizeResponse == Struct({}, {"url"}, {})
OidcCallbackRequest == Struct({}, {"code", "config_id", "nonce", "redirect_uri", "state"}, {})
OidcCallbackResponse == Struct({"newly_provisioned"}, {"federation_link_id", "user_id"}, {})
OidcPolicy ==
    Struct({"sensitive_scopes_enabled"}, {}, {"cimd", "dcr_allowed_redirect_hosts",
        "dcr_allowed_scopes", "dcr_max_clients", "dcr_unused_client_ttl_days",
        "default_locale", "dynamic_registration", "external_client_allowed_resources",
        "saml_idp_enabled", "ssf_enabled", "ssf_inactive_reason"})
OpaquePolicy == Struct({}, {"opaque_ksf", "opaque_mode", "opaque_suite"}, {})
Organization == Struct({}, {"created_at", "id", "metadata", "name", "slug", "updated_at"}, {})
ParseSamlSpMetadata == Struct({}, {}, {"metadata_url", "metadata_xml"})
PasswordPolicy ==
    Struct({"hibp_check_enabled", "min_length", "password_history_count", "require_digits",
        "require_lowercase", "require_symbols", "require_uppercase"}, {}, {})
Permission ==
    Struct({}, {"action", "created_at", "description", "id", "tenant_id", "updated_at"}, {})
PgpKey ==
    Struct({"algorithm", "purpose", "status"}, {"created_at", "fingerprint", "id", "name",
        "public_key_armored", "tenant_id"}, {})
PolicyResponse ==
    Struct({"block_revoked_status", "mode", "require_fido_certified",
        "effective_unknown_aaguid"}, {}, {"allowed_aaguids", "blocked_aaguids",
        "min_certification", "unknown_aaguid"})
PrivacyPolicy == Struct({"deletion_grace_period_days"}, {}, {})
ReactorEventDescriptor ==
    Struct({"default_failure_policy", "interceptable", "mutable"}, {"description",
        "mutable_fields", "name"}, {})
ReactorResponse ==
    Struct({"enabled", "failure_policy", "mode", "priority", "recent_timeout_count",
        "recent_veto_count", "timeout_ms"}, {"created_at", "description", "events", "id",
        "name", "tenant_id", "updated_at"}, {"last_seen_at"})
ReadyResponse == Struct({}, {"database", "status"}, {})
ReplaceNetworkPolicyRequest == Struct({}, {"session_timeout_max_secs", "version"}, {})
ReplaceNetworkReplyProfileRequest == Struct({}, {"profile", "segment_version", "version"}, {})
ReplaceNetworkSegmentRequest ==
    Struct({}, {"enabled", "filter_ids", "version", "vlan_id"}, {"rank"})
ResolvedPermissionGrant == Struct({"effect"}, {"permission", "scope_ids", "scopes"}, {})
Resource ==
    Struct({}, {"created_at", "id", "metadata", "name", "resource_type", "tenant_id",
        "updated_at"}, {"parent_id", "uma_registered_by"})
Role ==
    Struct({"is_global"}, {"created_at", "description", "id", "name", "tenant_id",
        "updated_at"}, {})
RoleAssignment ==
    Omitted(Struct({}, {"role"}, {"inherit", "resource_id", "tenant_scope"}),
        {"tenant_scope"})
RoleGroupAssignment ==
    Omitted(Struct({}, {"group"}, {"inherit", "resource_id", "tenant_scope"}),
        {"tenant_scope"})
ServiceAccountResponse ==
    Struct({"status"}, {"client_id", "created_at", "id", "name", "tenant_id", "updated_at"},
        {"description"})
RoleServiceAccountAssignment ==
    Omitted(Struct({}, {"service_account"}, {"inherit", "resource_id", "tenant_scope"}),
        {"tenant_scope"})
UserResponse ==
    Struct({"email_verified", "failed_login_attempts", "is_locked", "mfa_enabled",
        "status"}, {"created_at", "email", "id", "metadata", "tenant_id", "updated_at",
        "username"}, {"locked_until"})
RoleUserAssignment ==
    Omitted(Struct({}, {"user"}, {"inherit", "resource_id", "tenant_scope"}),
        {"tenant_scope"})
RotateSecretResponse == Struct({}, {"client_secret"}, {})
SamlIdpCredential ==
    Struct({"status"}, {"certificate_pem", "created_at", "fingerprint", "id",
        "issuer_ca_id", "not_after", "not_before", "serial", "tenant_id"}, {"retired_at"})
SamlIdpCredentialPromotion == Struct({}, {"active"}, {"retired"})
SamlIdpInfo ==
    Struct({"metadata_served", "saml_available", "saml_idp_enabled"}, {"entity_id",
        "metadata_url", "slo_url", "sso_url", "tenant_id"}, {"active_credential_id",
        "next_credential_id"})
SamlServiceProvider ==
    Struct({"allow_idp_initiated", "enabled", "encrypt_assertions", "name_id_format",
        "sign_responses", "want_authn_requests_signed"}, {"acs_urls", "allowed_groups",
        "attribute_mappings", "created_at", "display_name", "entity_id", "id", "tenant_id",
        "updated_at"}, {"slo_binding", "slo_url", "sp_encryption_cert_pem",
        "sp_signing_cert_pem"})
SamlServiceProviderInput ==
    Struct({}, {"acs_urls", "display_name", "entity_id"}, {"allow_idp_initiated",
        "allowed_groups", "attribute_mappings", "enabled", "encrypt_assertions",
        "name_id_format", "sign_responses", "slo_binding", "slo_url",
        "sp_encryption_cert_pem", "sp_signing_cert_pem", "want_authn_requests_signed"})
SamlSpMetadataDraft ==
    Struct({}, {"service_provider", "warnings"}, {"encryption_certificate_fingerprint",
        "signing_certificate_fingerprint"})
ScimReconcileAccepted == Struct({}, {"status", "target_id"}, {})
ScimTargetAuth == Struct({}, {"type"}, {"rest", "stray_secret"})
ScimTargetDeliveryState ==
    Struct({"consecutive_failures", "dead_lettered_total"}, {}, {"last_failure_at",
        "last_failure_reason", "last_reconciled_at", "last_success_at"})
ScimTargetScope == Struct({}, {"type"}, {"rest", "stray_secret"})
ScimTargetInput ==
    Struct({}, {"auth", "base_url", "name", "scope"}, {"credential", "deprovision",
        "enabled", "expected_updated_at", "push_groups", "user_name_from"})
ScimTargetResponse ==
    Struct({"deprovision", "enabled", "push_groups", "user_name_from"}, {"auth", "base_url",
        "created_at", "id", "name", "scope", "tenant_id", "updated_at"}, {"state"})
ScimTokenResponse ==
    Struct({"status"}, {"created_at", "created_by", "expires_at", "id", "name", "tenant_id",
        "user_id"}, {"last_used_at", "revoked_at"})
Scope ==
    Struct({}, {"created_at", "description", "id", "name", "resource_id", "tenant_id",
        "updated_at"}, {})
TokenPolicy == Struct({"access_token_lifetime_secs", "refresh_token_lifetime_secs"}, {}, {})
WebauthnPolicy == Struct({}, {"webauthn_user_verification"}, {})
SecuritySettings ==
    Struct({"scope"}, {"certificate", "created_at", "email", "id", "lockout", "mfa",
        "notification", "oidc", "opaque", "password", "privacy", "scope_id", "token",
        "updated_at", "webauthn"}, {"oauth2"})
ServiceAccountCreatedResponse ==
    Struct({"status"}, {"client_id", "client_secret", "created_at", "id", "name",
        "tenant_id", "updated_at"}, {"description"})
SessionResponse ==
    Struct({"refresh_replay_grace_accepted", "refresh_replay_refused"}, {"amr",
        "authenticated_at", "created_at", "expires_at", "id", "refresh_replay_verdict"},
        {"ip_address", "refresh_replay_at", "user_agent"})
SetDirectoryConfig ==
    Struct({}, {"base_dn", "bind_dn", "enabled", "kind", "start_tls", "url", "user_filter"},
        {"bind_secret", "group_base_dn", "group_filter", "group_mappings",
        "group_member_attribute", "group_nesting_depth", "jit_provisioning",
        "sync_interval_secs", "trust_anchors_pem", "user_attribute_map"})
SetMtlsTrustAnchor == Struct({"enabled"}, {}, {})
SetOrgEmailConfig == Struct({"enabled"}, {"from_email", "from_name", "provider"}, {"reply_to"})
SetOrgSettings ==
    Struct({"access_token_lifetime_secs", "admin_notifications_enabled",
        "default_cert_validity_days", "email_verification_grace_period_hours",
        "email_verification_required", "hibp_check_enabled", "lockout_backoff_multiplier",
        "lockout_duration_secs", "max_cert_validity_days", "max_failed_login_attempts",
        "max_lockout_duration_secs", "mfa_challenge_lifetime_secs", "mfa_enforced",
        "min_length", "password_history_count", "refresh_token_lifetime_secs",
        "require_digits", "require_lowercase", "require_symbols", "require_uppercase"}, {},
        {"cimd", "dcr_allowed_redirect_hosts", "dcr_allowed_scopes", "dcr_max_clients",
        "dcr_unused_client_ttl_days", "default_locale", "deletion_grace_period_days",
        "dynamic_registration", "external_client_allowed_resources", "opaque_ksf",
        "opaque_mode", "opaque_suite", "refresh_reuse_response", "saml_idp_enabled",
        "sensitive_scopes_enabled", "server_cert_allowed_names", "ssf_enabled",
        "webauthn_user_verification"})
SignAuditBatchRequest == Struct({}, {"entry_ids"}, {})
SignCertificateCsrRequest ==
    Omitted(Struct({"cert_type", "validity_days"}, {"csr_pem", "issuer_ca_id"}, {"metadata",
        "subject_alt_names", "user_id"}), {"subject_alt_names"})
SignIntermediateCsrRequest == Struct({"validity_days"}, {"csr_pem", "parent_ca_id"}, {})
SignedAuditBatch ==
    Struct({}, {"batch_id", "entry_ids", "signature_armored", "signed_at", "signing_key_id",
        "tenant_id"}, {})
SmtpConfig == Struct({"port", "starttls"}, {"host", "username"}, {})
SsfStream ==
    Struct({"authorization_header_set", "delivery_method", "status", "status_actor",
        "subject_format", "transmitter_active"}, {"audience", "created_at",
        "events_allowed", "events_delivered", "events_requested", "id",
        "receiver_client_id", "tenant_id", "updated_at"}, {"description", "endpoint_url",
        "last_verification_at", "status_reason", "transmitter_inactive_reason"})
SsfStreamInput ==
    Struct({}, {"audience", "delivery_method", "events_allowed", "receiver_client_id"},
        {"authorization_header", "clear_authorization_header", "description",
        "endpoint_url", "events_requested", "expected_updated_at", "status",
        "status_reason", "subject_format"})
Tenant ==
    Struct({"status"}, {"created_at", "id", "metadata", "name", "organization_id", "slug",
        "updated_at"}, {"kind"})
TenantSettingsOverride ==
    Struct({}, {}, {"access_token_lifetime_secs", "admin_notifications_enabled", "cimd",
        "dcr_allowed_redirect_hosts", "dcr_allowed_scopes", "dcr_max_clients",
        "dcr_unused_client_ttl_days", "default_cert_validity_days", "default_locale",
        "deletion_grace_period_days", "dynamic_registration",
        "email_verification_grace_period_hours", "email_verification_required",
        "external_client_allowed_resources", "hibp_check_enabled",
        "lockout_backoff_multiplier", "lockout_duration_secs", "max_cert_validity_days",
        "max_failed_login_attempts", "max_lockout_duration_secs",
        "mfa_challenge_lifetime_secs", "mfa_enforced", "min_length", "opaque_ksf",
        "opaque_mode", "opaque_suite", "password_history_count", "refresh_reuse_response",
        "refresh_token_lifetime_secs", "require_digits", "require_lowercase",
        "require_symbols", "require_uppercase", "saml_idp_enabled",
        "sensitive_scopes_enabled", "server_cert_allowed_names", "ssf_enabled",
        "webauthn_user_verification"})
UpdateDirectoryConfig ==
    Struct({}, {}, {"base_dn", "bind_dn", "bind_secret", "enabled", "group_base_dn",
        "group_filter", "group_mappings", "group_member_attribute", "group_nesting_depth",
        "jit_provisioning", "kind", "start_tls", "sync_interval_secs", "trust_anchors_pem",
        "url", "user_attribute_map", "user_filter"})
UpdateFederationConfigRequest ==
    Struct({}, {}, {"allow_sha1_signatures", "allow_tenant_inheritance",
        "allowed_algorithms", "allowed_issuer_tenants", "apple_key_id", "apple_team_id",
        "attribute_map", "authorization_endpoint", "button_icon", "client_id",
        "client_secret", "enabled", "idp_metadata_signing_cert_pem", "idp_signing_cert_pem",
        "metadata_url", "native_login", "provider", "provider_slug", "require_pkce",
        "scopes", "token_endpoint", "token_exchange", "userinfo_endpoint"})
UpdateGroup == Struct({}, {}, {"description", "metadata", "name"})
UpdateNotificationRuleRequest ==
    Struct({}, {}, {"description", "enabled", "events", "name", "recipient_emails",
        "window_minutes"})
UpdateOAuth2ClientRequest ==
    Struct({}, {}, {"allowed_resources", "authn_request_params",
        "backchannel_authentication_request_signing_alg",
        "backchannel_client_notification_endpoint", "backchannel_logout_uri",
        "backchannel_token_delivery_mode", "backchannel_user_code_parameter", "browser_sso",
        "default_idp", "dpop_bound_access_tokens", "dpop_require_nonce", "grant_types",
        "jwks", "jwks_uri", "name", "post_logout_redirect_uris", "profile", "redirect_uris",
        "require_par", "scopes", "self_signed_tls_client_auth_thumbprints",
        "tls_client_auth_san_dns", "tls_client_auth_san_uri", "tls_client_auth_subject_dn",
        "tls_client_certificate_bound_access_tokens", "token_endpoint_auth_method"})
UpdateOrganizationRequest == Struct({}, {}, {"metadata", "name", "slug"})
UpdatePermissionRequest == Struct({}, {}, {"action", "description"})
UpdateReactorRequest ==
    Struct({}, {}, {"description", "enabled", "events", "failure_policy", "mode", "name",
        "priority", "timeout_ms"})
UpdateResourceRequest == Struct({}, {}, {"metadata", "name", "parent_id", "resource_type"})
UpdateRole == Struct({}, {}, {"description", "is_global", "name"})
UpdateScopeRequest == Struct({}, {}, {"description", "name"})
UpdateServiceAccount == Struct({}, {}, {"description", "name", "status"})
UpdateTenant == Struct({}, {}, {"metadata", "name", "slug", "status"})
UpdateUserRequest == Struct({}, {}, {"email", "metadata", "status", "username"})
UpdateWebhookRequest == Struct({}, {}, {"enabled", "events", "retry_policy", "secret", "url"})
WebauthnAttestationPolicy ==
    Struct({"block_revoked_status", "mode", "require_fido_certified"}, {},
        {"allowed_aaguids", "blocked_aaguids", "min_certification", "unknown_aaguid"})
WebhookResponse ==
    Struct({"enabled"}, {"created_at", "events", "id", "retry_policy", "tenant_id",
        "updated_at", "url"}, {})
\* Every structure, by its name.
Structs ==
    [AcsEndpoint |-> AcsEndpoint, AddMemberRequest |-> AddMemberRequest,
     AddServiceAccountMemberRequest |-> AddServiceAccountMemberRequest, ApiProviderConfig
     |-> ApiProviderConfig, AssignRoleToGroupRequest |-> AssignRoleToGroupRequest,
     AssignRoleToServiceAccountRequest |-> AssignRoleToServiceAccountRequest,
     AssignRoleToUserRequest |-> AssignRoleToUserRequest, AttributeMapping |->
     AttributeMapping, AuditLogEntry |-> AuditLogEntry, BindCertificate |-> BindCertificate,
     CaCertificate |-> CaCertificate, Certificate |-> Certificate, CertificatePolicy |->
     CertificatePolicy, CimdPolicy |-> CimdPolicy, ComplianceReportEntry |->
     ComplianceReportEntry, ConsentView |-> ConsentView, CreateCaCertificateRequest |->
     CreateCaCertificateRequest, SubjectAltName |-> SubjectAltName, CreateCertificateRequest
     |-> CreateCertificateRequest, NativeLoginTrustRequest |-> NativeLoginTrustRequest,
     TokenExchangeTrustRequest |-> TokenExchangeTrustRequest, CreateFederationConfigRequest
     |-> CreateFederationConfigRequest, CreateGroupRequest |-> CreateGroupRequest,
     CreateIntermediateCaRequest |-> CreateIntermediateCaRequest, NetworkReplyProfileInput
     |-> NetworkReplyProfileInput, CreateNetworkReplyProfileRequest |->
     CreateNetworkReplyProfileRequest, CreateNetworkSegmentRequest |->
     CreateNetworkSegmentRequest, CreateNotificationRuleRequest |->
     CreateNotificationRuleRequest, CreateOAuth2ClientRequest |-> CreateOAuth2ClientRequest,
     CreatePermissionRequest |-> CreatePermissionRequest, CreatePgpKeyRequest |->
     CreatePgpKeyRequest, CreateReactorRequest |-> CreateReactorRequest,
     CreateRegistrationTokenRequest |-> CreateRegistrationTokenRequest,
     RegistrationTokenResponse |-> RegistrationTokenResponse,
     CreateRegistrationTokenResponse |-> CreateRegistrationTokenResponse,
     CreateResourceRequest |-> CreateResourceRequest, CreateRoleRequest |->
     CreateRoleRequest, CreateScimTokenRequest |-> CreateScimTokenRequest,
     CreateScimTokenResponse |-> CreateScimTokenResponse, CreateScopeRequest |->
     CreateScopeRequest, CreateServiceAccountRequest |-> CreateServiceAccountRequest,
     CreateTenantRequest |-> CreateTenantRequest, OpaqueEnrollment |-> OpaqueEnrollment,
     CreateUserRequest |-> CreateUserRequest, RetryPolicy |-> RetryPolicy,
     CreateWebhookRequest |-> CreateWebhookRequest, GroupMapping |-> GroupMapping,
     UserAttributeMap |-> UserAttributeMap, DirectoryConfig |-> DirectoryConfig,
     DirectoryLinkResult |-> DirectoryLinkResult, DirectorySyncStatus |->
     DirectorySyncStatus, ProviderConfig |-> ProviderConfig, EmailConfig |-> EmailConfig,
     EmailConfigOverride |-> EmailConfigOverride, EmailTestResult |-> EmailTestResult,
     EmailVerificationPolicy |-> EmailVerificationPolicy, EncryptRequest |-> EncryptRequest,
     EncryptedExport |-> EncryptedExport, NativeLoginTrustResponse |->
     NativeLoginTrustResponse, TokenExchangeTrustResponse |-> TokenExchangeTrustResponse,
     FederationConfigResponse |-> FederationConfigResponse, FederationLinkResponse |->
     FederationLinkResponse, GeneratedCaCertificate |-> GeneratedCaCertificate,
     GeneratedCertificate |-> GeneratedCertificate, GeneratedPgpKey |-> GeneratedPgpKey,
     GrantPermissionRequest |-> GrantPermissionRequest, GrantScopeConsent |->
     GrantScopeConsent, GrantedScope |-> GrantedScope, Group |-> Group, HealthResponse |->
     HealthResponse, ImportCaCertificateRequest |-> ImportCaCertificateRequest,
     IssueSamlIdpCredential |-> IssueSamlIdpCredential, LinkDirectoryAccount |->
     LinkDirectoryAccount, LockoutPolicy |-> LockoutPolicy, MdsRefreshOutcome |->
     MdsRefreshOutcome, MdsStatusResponse |-> MdsStatusResponse, MfaMethodResponse |->
     MfaMethodResponse, MfaPolicy |-> MfaPolicy, MigrateCustodyResponse |->
     MigrateCustodyResponse, MtlsTrustAnchorResponse |-> MtlsTrustAnchorResponse,
     NetworkPolicyResponse |-> NetworkPolicyResponse, NetworkReplyProfile |->
     NetworkReplyProfile, NetworkSegmentResponse |-> NetworkSegmentResponse,
     NotificationPolicy |-> NotificationPolicy, NotificationRuleResponse |->
     NotificationRuleResponse, OAuth2ClientCreatedResponse |-> OAuth2ClientCreatedResponse,
     OAuth2ClientResponse |-> OAuth2ClientResponse, OAuth2Policy |-> OAuth2Policy,
     OidcAuthorizeRequest |-> OidcAuthorizeRequest, OidcAuthorizeResponse |->
     OidcAuthorizeResponse, OidcCallbackRequest |-> OidcCallbackRequest,
     OidcCallbackResponse |-> OidcCallbackResponse, OidcPolicy |-> OidcPolicy, OpaquePolicy
     |-> OpaquePolicy, Organization |-> Organization, ParseSamlSpMetadata |->
     ParseSamlSpMetadata, PasswordPolicy |-> PasswordPolicy, Permission |-> Permission,
     PgpKey |-> PgpKey, PolicyResponse |-> PolicyResponse, PrivacyPolicy |-> PrivacyPolicy,
     ReactorEventDescriptor |-> ReactorEventDescriptor, ReactorResponse |-> ReactorResponse,
     ReadyResponse |-> ReadyResponse, ReplaceNetworkPolicyRequest |->
     ReplaceNetworkPolicyRequest, ReplaceNetworkReplyProfileRequest |->
     ReplaceNetworkReplyProfileRequest, ReplaceNetworkSegmentRequest |->
     ReplaceNetworkSegmentRequest, ResolvedPermissionGrant |-> ResolvedPermissionGrant,
     Resource |-> Resource, Role |-> Role, RoleAssignment |-> RoleAssignment,
     RoleGroupAssignment |-> RoleGroupAssignment, ServiceAccountResponse |->
     ServiceAccountResponse, RoleServiceAccountAssignment |-> RoleServiceAccountAssignment,
     UserResponse |-> UserResponse, RoleUserAssignment |-> RoleUserAssignment,
     RotateSecretResponse |-> RotateSecretResponse, SamlIdpCredential |-> SamlIdpCredential,
     SamlIdpCredentialPromotion |-> SamlIdpCredentialPromotion, SamlIdpInfo |-> SamlIdpInfo,
     SamlServiceProvider |-> SamlServiceProvider, SamlServiceProviderInput |->
     SamlServiceProviderInput, SamlSpMetadataDraft |-> SamlSpMetadataDraft,
     ScimReconcileAccepted |-> ScimReconcileAccepted, ScimTargetAuth |-> ScimTargetAuth,
     ScimTargetDeliveryState |-> ScimTargetDeliveryState, ScimTargetScope |->
     ScimTargetScope, ScimTargetInput |-> ScimTargetInput, ScimTargetResponse |->
     ScimTargetResponse, ScimTokenResponse |-> ScimTokenResponse, Scope |-> Scope,
     TokenPolicy |-> TokenPolicy, WebauthnPolicy |-> WebauthnPolicy, SecuritySettings |->
     SecuritySettings, ServiceAccountCreatedResponse |-> ServiceAccountCreatedResponse,
     SessionResponse |-> SessionResponse, SetDirectoryConfig |-> SetDirectoryConfig,
     SetMtlsTrustAnchor |-> SetMtlsTrustAnchor, SetOrgEmailConfig |-> SetOrgEmailConfig,
     SetOrgSettings |-> SetOrgSettings, SignAuditBatchRequest |-> SignAuditBatchRequest,
     SignCertificateCsrRequest |-> SignCertificateCsrRequest, SignIntermediateCsrRequest |->
     SignIntermediateCsrRequest, SignedAuditBatch |-> SignedAuditBatch, SmtpConfig |->
     SmtpConfig, SsfStream |-> SsfStream, SsfStreamInput |-> SsfStreamInput, Tenant |->
     Tenant, TenantSettingsOverride |-> TenantSettingsOverride, UpdateDirectoryConfig |->
     UpdateDirectoryConfig, UpdateFederationConfigRequest |-> UpdateFederationConfigRequest,
     UpdateGroup |-> UpdateGroup, UpdateNotificationRuleRequest |->
     UpdateNotificationRuleRequest, UpdateOAuth2ClientRequest |-> UpdateOAuth2ClientRequest,
     UpdateOrganizationRequest |-> UpdateOrganizationRequest, UpdatePermissionRequest |->
     UpdatePermissionRequest, UpdateReactorRequest |-> UpdateReactorRequest,
     UpdateResourceRequest |-> UpdateResourceRequest, UpdateRole |-> UpdateRole,
     UpdateScopeRequest |-> UpdateScopeRequest, UpdateServiceAccount |->
     UpdateServiceAccount, UpdateTenant |-> UpdateTenant, UpdateUserRequest |->
     UpdateUserRequest, UpdateWebhookRequest |-> UpdateWebhookRequest,
     WebauthnAttestationPolicy |-> WebauthnAttestationPolicy, WebhookResponse |->
     WebhookResponse]
=============================================================================
