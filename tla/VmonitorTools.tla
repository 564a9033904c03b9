---------------------------- MODULE VmonitorTools ---------------------------
(***************************************************************************)
(* The tools of the vMonitor MCP server, handler by handler, with those of *)
(* VmonitorLogTools.  They have no require_write of their own: a tool that *)
(* changes something is only registered when the server runs with          *)
(* --allow-write.  Nothing is cached and no project is looked up; prices,  *)
(* searches and validations are reads although they are posted.            *)
(***************************************************************************)
EXTENDS VmonitorLogTools

\* no list is cached: one view stands for what is not
Shows == [uncached |-> {}]

-----------------------------------------------------------------------------
\* alarm_handler.py
notification_mapping == Get
resolve_notification_actions == notification_mapping
fetch_alarms == Get
list_alarms == fetch_alarms \o fetch_alarms \o fetch_alarms
get_alarm == Check \o Get
get_metric_alarm_definition == Check \o Get
list_metric_alarm_histories == Check \o Get
get_synthetic_alarm_definition == Check \o Get
list_synthetic_alarm_histories == Check \o Get
list_log_alarm_histories == Check \o Get
get_log_alarm_status == Check \o Get
create_metric_alarm == resolve_notification_actions \o Change({"alarms"})
update_metric_alarm == Check \o resolve_notification_actions \o Change({"alarms"})
delete_metric_alarm == Check \o Change({"alarms"})
delete_metric_sub_alarm == Check \o Change({"alarms"})
create_log_alarm == resolve_notification_actions \o Change({"alarms"})
update_log_alarm == Check \o resolve_notification_actions \o Change({"alarms"})
delete_log_alarm == Check \o Change({"alarms"})

\* apikey_handler.py
list_metric_api_keys == Get
create_metric_api_key == Change({"apiKeys"})
delete_metric_api_key == Check \o Change({"apiKeys"})

\* change_alarm_handler.py
get_change_alarm == Check \o Get
list_change_alarm_histories == Check \o Get
create_change_alarm == Change({"alarms"})
update_change_alarm == Check \o Change({"alarms"})
delete_change_alarm == Check \o Change({"alarms"})
delete_change_alarm_history == Check \o Change({"alarms"})

\* dashboard_handler.py
list_dashboards == Get
get_dashboard == Check \o Get
get_dashboard_by_name == Check \o Get
create_dashboard == Change({"dashboards"})
create_dashboard_clone == Check \o Change({"dashboards"})
update_dashboard == Check \o Change({"dashboards"})
update_dashboard_name == Check \o Change({"dashboards"})
update_dashboard_favorite == Check \o Change({"dashboards"})
delete_dashboard == Check \o Change({"dashboards"})

\* infrastructure_handler.py
list_of_hosts == Get
typed_host_metrics == Check \o Get
update_typed_host == Check \o Change({"hosts"})
delete_typed_host == Check \o Change({"hosts"})
list_hosts == list_of_hosts
list_vserver_hosts == list_of_hosts
list_vstorage_hosts == list_of_hosts
list_vdb_hosts == list_of_hosts
list_vdb_kafka_hosts == list_of_hosts
list_vlb_hosts == list_of_hosts
list_vbackup_hosts == list_of_hosts
list_vbandwidth_hosts == list_of_hosts
list_vas_hosts == list_of_hosts
get_host == Check \o Get
get_host_metrics == Check \o Get
update_host_enabled == Check \o Change({"hosts"})
update_host_disabled == Check \o Change({"hosts"})
delete_host == Check \o Change({"hosts"})
get_vserver_host_metrics == typed_host_metrics
get_vstorage_host_metrics == typed_host_metrics
get_vdb_host_metrics == typed_host_metrics
get_vlb_host_metrics == typed_host_metrics
get_vbackup_host_metrics == typed_host_metrics
get_vbandwidth_host_metrics == typed_host_metrics
get_vas_host_metrics == typed_host_metrics
update_vserver_host == update_typed_host
update_vstorage_host == update_typed_host
update_vdb_host == update_typed_host
update_vlb_host == update_typed_host
update_vbackup_host == update_typed_host
update_vbandwidth_host == update_typed_host
update_vas_host == update_typed_host
delete_vserver_host == delete_typed_host
delete_vstorage_host == delete_typed_host
delete_vdb_host == delete_typed_host
delete_vlb_host == delete_typed_host
delete_vbackup_host == delete_typed_host
delete_vbandwidth_host == delete_typed_host
delete_vas_host == delete_typed_host

\* integration_handler.py
list_integrations == Get
get_integration == Check \o Get
update_integration_installed == Check \o Change({"integrations"})
update_integration_uninstalled == Check \o Change({"integrations"})
delete_integration == Check \o Change({"integrations"})

\* metric_catalogue_handler.py
get_metric_names == Get
list_metric_dimension_names == Get
list_metric_dimension_values == Get
get_metric_dimensions == Get

\* metric_unit_handler.py
list_metric_units == Get
list_metric_unit_mappings == Get
create_metric_unit_mapping == Change({"unitMappings"})
delete_metric_unit_mapping == Check \o Change({"unitMappings"})

\* notification_handler.py
list_notification_types == Get
list_notifications == Get
get_notification_otp_info == Check \o Get
create_notification_otp == Change({"notifications"})
validate_notification_otp == Change({"notifications"})
create_notification == Change({"notifications"})
update_notification == Change({"notifications"})
delete_notification == Check \o Change({"notifications"})

\* quota_catalog_handler.py
list_tiers == Get
get_tier == Get
get_tier_description == Get
list_packages == Get
get_package == Check \o Get
get_package_detail == Check \o Get
get_package_description == Get
get_package_description_detail == Get
list_quota_classes == Get
list_quota_class_packages == Check \o Get

\* quota_order_handler.py
resize_metric_quota == Change({"quotas"})
create_log_project == Change({"quotas"})
resize_log_project == Check \o Change({"quotas"})
delete_log_project == Check \o Change({"quotas"})
resize_sms_quota == Change({"quotas"})
resize_email_quota == Change({"quotas"})

\* quota_price_handler.py
get_creation_price == Check \o Get
get_resize_price == Check \o Get
get_recovery_price == Check \o Get
get_renewal_price == Check \o Get

\* quota_usage_handler.py
get_quota_usage == Get
get_log_usage == Check \o Get
get_composite_usage == Get
get_current_quota == Get
list_log_quotas == Get
get_log_quota == Check \o Get
get_quota_detail == Check \o Get
get_billing_settings == Get
list_trash_quotas == Get
get_convert_result == Get

\* statistic_handler.py
get_statistics == Get
get_statistics_synthetic == Get
get_statistics_v2 == Get

\* synthetic_location_handler.py
list_locations == Get
get_location == Check \o Get
create_location == Change({"locations"})
update_location == Check \o Change({"locations"})
delete_location == Check \o Change({"locations"})

\* synthetic_uptime_handler.py
list_uptimes == Get
get_uptime == Check \o Get
get_uptime_config == Get
validate_uptime == Get
create_uptime == Change({"uptimes"})
update_uptime == Check \o Change({"uptimes"})
update_uptime_status == Check \o Change({"uptimes"})
delete_uptime == Check \o Change({"uptimes"})

\* variable_handler.py
list_dashboard_variables == Check \o Get
get_dashboard_variable == Check \o Get
update_dashboard_variables == Check \o Change({"variables"})

\* view_handler.py
list_dashboard_views == Check \o Get
get_dashboard_view == Check \o Get
create_dashboard_view == Check \o Change({"views"})
update_dashboard_view == Check \o Change({"views"})
delete_dashboard_view == Check \o Change({"views"})

\* widget_handler.py
existing_layouts == Get
list_widgets == Check \o Get
get_widget == Check \o Get
create_widget == Check \o existing_layouts \o Change({"widgets"})
update_widget == Check \o Change({"widgets"})
update_widget_v2 == Check \o Change({"widgets"})
update_widget_layout == Check \o Change({"widgets"})
delete_widget == Check \o Change({"widgets"})

-----------------------------------------------------------------------------
(* The tools that are always there, and those under `if self.allow_write`.  *)
ReadTools == {
    list_alarms, get_alarm, get_metric_alarm_definition, list_metric_alarm_histories,
    get_synthetic_alarm_definition, list_synthetic_alarm_histories, list_log_alarm_histories,
    get_log_alarm_status, list_metric_api_keys, get_project_certificate_download,
    get_change_alarm, list_change_alarm_histories, list_dashboards, get_dashboard,
    get_dashboard_by_name, list_hosts, list_vserver_hosts, list_vstorage_hosts, list_vdb_hosts,
    list_vdb_kafka_hosts, list_vlb_hosts, list_vbackup_hosts, list_vbandwidth_hosts,
    list_vas_hosts, get_host, get_host_metrics, get_vserver_host_metrics,
    get_vstorage_host_metrics, get_vdb_host_metrics, get_vlb_host_metrics,
    get_vbackup_host_metrics, get_vbandwidth_host_metrics, get_vas_host_metrics,
    list_integrations, get_integration, list_archives, get_archive,
    validate_archive_connection, list_vcdn_log_mappings, list_vcdn_log_mapping_types,
    list_vdb_log_mappings, list_vlb_log_mappings, list_vstorage_log_mappings,
    list_vstorage_log_mapping_regions, list_vstorage_bucket_log_mappings, list_pipelines,
    get_pipeline, get_processor_group, list_processor_group_libraries, list_date_formats,
    validate_grok_parser, list_projects, get_project, get_project_mappings, list_refills,
    get_refill, validate_refill_connection, search_logs, search_logs_default,
    get_project_log_data_exists, get_log_export, get_metric_names, list_metric_dimension_names,
    list_metric_dimension_values, get_metric_dimensions, list_metric_units,
    list_metric_unit_mappings, list_notification_types, list_notifications,
    get_notification_otp_info, list_tiers, get_tier, get_tier_description, list_packages,
    get_package, get_package_detail, get_package_description, get_package_description_detail,
    list_quota_classes, list_quota_class_packages, get_creation_price, get_resize_price,
    get_recovery_price, get_renewal_price, get_quota_usage, get_log_usage, get_composite_usage,
    get_current_quota, list_log_quotas, get_log_quota, get_quota_detail, get_billing_settings,
    list_trash_quotas, get_convert_result, get_statistics, get_statistics_synthetic,
    get_statistics_v2, list_locations, get_location, list_uptimes, get_uptime,
    get_uptime_config, validate_uptime, list_dashboard_variables, get_dashboard_variable,
    list_dashboard_views, get_dashboard_view, list_widgets, get_widget
}

WriteTools == {
    create_metric_alarm, update_metric_alarm, delete_metric_alarm, delete_metric_sub_alarm,
    create_log_alarm, update_log_alarm, delete_log_alarm, create_metric_api_key,
    delete_metric_api_key, create_project_certificate, delete_project_certificate,
    create_change_alarm, update_change_alarm, delete_change_alarm, delete_change_alarm_history,
    create_dashboard, create_dashboard_clone, update_dashboard, update_dashboard_name,
    update_dashboard_favorite, delete_dashboard, update_host_enabled, update_host_disabled,
    delete_host, update_vserver_host, update_vstorage_host, update_vdb_host, update_vlb_host,
    update_vbackup_host, update_vbandwidth_host, update_vas_host, delete_vserver_host,
    delete_vstorage_host, delete_vdb_host, delete_vlb_host, delete_vbackup_host,
    delete_vbandwidth_host, delete_vas_host, update_integration_installed,
    update_integration_uninstalled, delete_integration, create_archive, update_archive,
    delete_archive, update_vcdn_log_mapping_enabled, update_vcdn_log_mapping_disabled,
    update_vcdn_log_mapping, update_vdb_log_mapping_enabled, update_vdb_log_mapping_disabled,
    update_vdb_log_mapping, update_vlb_log_mapping_enabled, update_vlb_log_mapping_disabled,
    update_vlb_log_mapping, update_vstorage_log_mapping_enabled,
    update_vstorage_log_mapping_disabled, update_vstorage_log_mapping,
    update_vstorage_bucket_log_mapping, create_pipeline, update_pipeline, delete_pipeline,
    create_processor_group, update_processor_group, delete_processor_group,
    update_processor_order, create_processor_group_library, create_processor, update_processor,
    delete_processor, update_project, update_project_mappings, create_refill,
    create_refill_from_archive, delete_refill, create_log_export, create_metric_unit_mapping,
    delete_metric_unit_mapping, create_notification_otp, validate_notification_otp,
    create_notification, update_notification, delete_notification, resize_metric_quota,
    create_log_project, resize_log_project, delete_log_project, resize_sms_quota,
    resize_email_quota, create_location, update_location, delete_location, create_uptime,
    update_uptime, update_uptime_status, delete_uptime, update_dashboard_variables,
    create_dashboard_view, update_dashboard_view, delete_dashboard_view, create_widget,
    update_widget, update_widget_v2, update_widget_layout, delete_widget
}

Tools == ReadTools \cup {Registered \o tool : tool \in WriteTools}

Views == [list \in DOMAIN Shows |-> {SeenBy(list, Shows[list], tool) : tool \in Tools}]

=============================================================================
