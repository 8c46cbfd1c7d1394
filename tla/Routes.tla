------------------------------- MODULE Routes -------------------------------
(***************************************************************************)
(* The routes of the API: what each operation asks of the token, and what  *)
(* the service it calls does to the database.  A route "reads" when it     *)
(* changes no row, "asks" when it calls a mail provider and may note what  *)
(* came of it (health, the local copies), "writes" when it changes rows a  *)
(* user would miss.  The names are the operation ids.                      *)
(***************************************************************************)
EXTENDS FiniteSets

\* The scope of the routes that ask for no token.
Public == "none"

Ops(scope, effect, names) == [name : names, scope : {scope}, effect : {effect}]

AccountRoutes ==
  Ops("accounts:read", "reads", {"get_account"})
  \cup Ops("accounts:write", "writes",
           {"create_account", "update_account", "archive_account", "purge_account",
            "bulk_mutate_accounts"})

BulkAndSecretRoutes ==
  Ops("accounts:read", "reads", {"get_account_secrets_status", "list_accounts"})
  \cup Ops("accounts:write", "writes",
           {"create_account_bulk_preview", "execute_account_bulk_preview"})
  \cup Ops("accounts:secrets:write", "writes", {"write_account_secrets"})

AuditRoutes == Ops("audit:read", "reads", {"list_audit_logs"})

AuthRoutes ==
  Ops("tokens:manage", "writes", {"create_api_token", "revoke_api_token"})
  \cup Ops("tokens:manage", "reads", {"list_api_tokens"})

\* A query over the fleet is a POST, and still only reads mail.
CodeRoutes ==
  Ops("mail:read", "asks", {"list_account_verification_codes", "query_verification_codes"})

FleetRoutes ==
  Ops("fleet:read", "reads", {"get_fleet_summary", "list_account_views"})
  \cup Ops("fleet:write", "writes",
           {"create_saved_account_view", "update_saved_account_view", "delete_saved_account_view"})

DestinationRoutes ==
  Ops("forwarding:read", "reads", {"list_forwarding_destinations"})
  \cup Ops("forwarding:write", "writes",
           {"create_forwarding_destination", "update_forwarding_destination",
            "delete_forwarding_destination"})
  \cup Ops("forwarding:write", "asks", {"test_forwarding_destination"})

ForwardingRoutes ==
  Ops("forwarding:read", "reads", {"get_account_forwarding", "list_forwarding_deliveries"})
  \cup Ops("forwarding:write", "writes",
           {"write_account_forwarding", "reset_forwarding_cursor", "create_forwarding_job"})

ImportRoutes ==
  Ops("imports:read", "reads", {"list_import_batches", "get_import_batch"})
  \cup Ops("imports:write", "writes",
           {"create_import_batch", "commit_import_batch", "rollback_import_batch"})

JobRoutes ==
  Ops("jobs:read", "reads", {"list_jobs", "get_job", "list_job_events"})
  \cup Ops("jobs:write", "writes", {"create_health_check_job"})

JobControlRoutes ==
  Ops("jobs:read", "reads", {"stream_job_events"})
  \cup Ops("jobs:write", "writes", {"cancel_job", "pause_job", "resume_job"})

MailReadRoutes ==
  Ops("mail:read", "asks",
      {"list_mail", "get_mail_detail", "get_raw_mail", "download_mail_attachment"})

\* Mutant: the two routes ask for the scope of their siblings.
MailWriteRoutesOfReaders == Ops("mail:read", "writes", {"mark_mail_read", "delete_mail"})

MailWriteRoutes == Ops("mail:write", "writes", {"mark_mail_read", "delete_mail"})

GroupRoutes ==
  Ops("organization:read", "reads", {"list_groups", "list_tags"})
  \cup Ops("organization:write", "writes",
           {"create_group", "update_group", "delete_group", "create_tag"})

LabelRoutes ==
  Ops("organization:read", "reads", {"list_account_tags", "list_account_aliases"})
  \cup Ops("organization:write", "writes",
           {"delete_tag", "mutate_account_tags", "replace_account_aliases"})

ProjectRoutes ==
  Ops("projects:read", "reads", {"list_work_projects", "list_work_project_accounts"})
  \cup Ops("projects:write", "writes",
           {"create_work_project", "set_work_project_status", "add_work_project_accounts",
            "mutate_work_project_accounts"})

ClaimRoutes ==
  Ops("projects:read", "reads", {"list_work_project_events"})
  \cup Ops("projects:claim", "writes",
           {"claim_work_project_account", "heartbeat_work_project_lease",
            "complete_work_project_lease", "fail_work_project_lease",
            "release_work_project_lease"})

ProxyRoutes ==
  Ops("proxies:read", "reads", {"list_proxy_profiles", "resolve_account_proxy"})
  \cup Ops("proxies:write", "writes",
           {"create_proxy_profile", "update_proxy_profile", "probe_proxy_profile",
            "delete_proxy_profile", "assign_account_proxy", "assign_group_proxy"})

RefreshRoutes ==
  Ops("refresh:read", "reads", {"list_token_refresh_logs", "get_token_refresh_summary"})
  \cup Ops("refresh:write", "writes", {"create_token_refresh_job"})
  \cup Ops("schedules:read", "reads", {"list_schedules"})
  \cup Ops("schedules:write", "writes",
           {"create_schedule", "update_schedule", "delete_schedule"})

RetentionRoutes ==
  Ops("retention:read", "reads",
      {"list_retention_policies", "get_retention_policy", "get_retention_stats",
       "list_retained_mail", "get_retained_mail_detail"})
  \cup Ops("retention:write", "writes",
           {"write_retention_policy", "create_retention_sync_job", "clear_retained_mail"})

SecurityRoutes == Ops("security:rotate", "writes", {"rotate_master_key"})

ShareRoutes ==
  Ops("shares:read", "reads", {"list_email_shares"})
  \cup Ops("shares:write", "writes", {"create_email_share", "revoke_email_share",
                                       "delete_email_share"})

\* The routes a shared link opens; the link stands for the token.
PublicShareRoutes ==
  Ops(Public, "reads", {"get_public_email_share_status"})
  \cup Ops(Public, "asks", {"list_public_email_share_mail", "get_public_email_share_mail_detail"})

SystemRoutes == Ops(Public, "reads", {"system_health"})

Routes ==
  UNION {AccountRoutes, BulkAndSecretRoutes, AuditRoutes, AuthRoutes, CodeRoutes, FleetRoutes,
         DestinationRoutes, ForwardingRoutes, ImportRoutes, JobRoutes, JobControlRoutes,
         MailReadRoutes, MailWriteRoutes, GroupRoutes, LabelRoutes, ProjectRoutes, ClaimRoutes,
         ProxyRoutes, RefreshRoutes, RetentionRoutes, SecurityRoutes, ShareRoutes,
         PublicShareRoutes, SystemRoutes}
=============================================================================
