-------------------------- MODULE ManagementEnums --------------------------
(***************************************************************************)
(* The enumerations of the management API (management_models.cpp): the     *)
(* wire values the SDK knows.  Any other decodes to Unknown, which is      *)
(* never sent.                                                             *)
(***************************************************************************)

ActorType == {"User", "ServiceAccount", "System"}
AttestationMode == {"none", "indirect", "direct_required"}
AttributeSource ==
    {"username", "email", "display_name", "given_name", "family_name", "groups", "roles"}
AuditOutcome == {"Success", "Failure", "Denied"}
AuthnRequestParamsMode == {"ignore", "honour"}
CertificateStatus == {"Active", "Revoked", "Expired"}
CertificateType == {"User", "Service", "Device", "Server"}
CertificationLevel == {"L1", "L1Plus", "L2", "L2Plus", "L3", "L3Plus"}
CibaDeliveryMode == {"poll", "ping"}
CibaRequestSigningAlg == {"PS256", "ES256", "EdDSA"}
ClientAuthMethod ==
    {"client_secret_post", "client_secret_basic", "tls_client_auth",
        "self_signed_tls_client_auth", "private_key_jwt", "none"}
ClientProfile == {"standard", "fapi2"}
DeprovisionPolicy == {"deactivate", "delete"}
DirectoryKind == {"open_ldap", "active_directory"}
FailurePolicy == {"fail_closed", "fail_open"}
KeyAlgorithm == {"Rsa4096", "Ed25519"}
ManagedBy == {"admin", "dcr", "cimd"}
MfaMethodType == {"Totp", "Passkey", "SecurityKey"}
NameIdFormat == {"persistent", "email_address"}
NetworkSegmentKind == {"access", "quarantine"}
NotificationEventType ==
    {"login_failure", "account_locked", "mfa_enrollment_changed", "password_changed",
        "password_reset_requested", "role_assigned", "role_unassigned",
        "permission_granted", "permission_revoked", "certificate_issued",
        "certificate_revoked", "ca_certificate_revoked", "user_created", "user_deleted",
        "user_updated", "service_account_created", "service_account_deleted",
        "scim_delivery_failed"}
PermissionEffect == {"allow", "deny"}
PgpKeyAlgorithm == {"Rsa4096", "Ed25519"}
PgpKeyPurpose == {"AuditSigning", "Export"}
PgpKeyStatus == {"Active", "Revoked"}
RadiusServiceType == {"framed_user"}
RadiusTerminationAction == {"default", "radius_request"}
ReactorMode == {"intercept", "listen"}
RefreshReuseResponse == {"revoke_session", "refuse"}
SamlBinding == {"http_post", "http_redirect"}
SamlIdpCredentialStatus == {"active", "next", "retired"}
SamlIdpSlot == {"active", "next"}
ScimTokenStatus == {"active", "expired", "revoked"}
SettingsScope == {"Org", "Tenant"}
SsfDeliveryMethod == {"push", "poll"}
SsfStatusActor == {"admin", "receiver"}
SsfStreamStatus == {"enabled", "paused", "disabled"}
SsfSubjectFormat == {"iss_sub", "email"}
TenantKind == {"standard", "organization"}
TenantStatus == {"Active", "Suspended"}
UnknownAaguidAction == {"allow", "deny"}
UserNameSource == {"username", "email"}
UserStatus == {"Active", "Inactive", "Locked", "PendingVerification", "Anonymized", "Deleted"}
=============================================================================
