-------------------------- MODULE VmonitorLogTools --------------------------
(***************************************************************************)
(* The tools of the vMonitor MCP server that use its log API, handler by   *)
(* handler: projects, pipelines, mappings, archives, refills, searches.    *)
(***************************************************************************)
EXTENDS ToolSteps

\* certificate_handler.py
get_project_certificate_download == Check \o Get
create_project_certificate == Check \o Change({"certificates"})
delete_project_certificate == Check \o Change({"certificates"})

\* log_archive_handler.py
list_archives == Get
get_archive == Check \o Get
create_archive == Change({"archives"})
update_archive == Check \o Change({"archives"})
delete_archive == Check \o Change({"archives"})
validate_archive_connection == Get

\* log_mapping_handler.py
list_of_mappings == Get
patch_mapping == Check \o Change({"logMappings"})
list_vcdn_log_mappings == list_of_mappings
list_vcdn_log_mapping_types == Get
list_vdb_log_mappings == list_of_mappings
list_vlb_log_mappings == list_of_mappings
list_vstorage_log_mappings == list_of_mappings
list_vstorage_log_mapping_regions == Get
list_vstorage_bucket_log_mappings == list_of_mappings
update_vcdn_log_mapping_enabled == patch_mapping
update_vcdn_log_mapping_disabled == patch_mapping
update_vcdn_log_mapping == patch_mapping
update_vdb_log_mapping_enabled == patch_mapping
update_vdb_log_mapping_disabled == patch_mapping
update_vdb_log_mapping == patch_mapping
update_vlb_log_mapping_enabled == patch_mapping
update_vlb_log_mapping_disabled == patch_mapping
update_vlb_log_mapping == patch_mapping
update_vstorage_log_mapping_enabled == patch_mapping
update_vstorage_log_mapping_disabled == patch_mapping
update_vstorage_log_mapping == patch_mapping
update_vstorage_bucket_log_mapping == Check \o Change({"logMappings"})

\* log_pipeline_handler.py
list_pipelines == Get
get_pipeline == Check \o Get
create_pipeline == Change({"pipelines"})
update_pipeline == Check \o Change({"pipelines"})
delete_pipeline == Check \o Change({"pipelines"})

\* log_processor_handler.py
get_processor_group == Check \o Get
list_processor_group_libraries == Get
list_date_formats == Get
create_processor_group == Check \o Change({"processors"})
update_processor_group == Check \o Change({"processors"})
delete_processor_group == Check \o Change({"processors"})
update_processor_order == Check \o Change({"processors"})
create_processor_group_library == Change({"processors"})
create_processor == Check \o Change({"processors"})
update_processor == Check \o Change({"processors"})
delete_processor == Check \o Change({"processors"})
validate_grok_parser == Get

\* log_project_handler.py
list_projects == Get
get_project == Check \o Get
get_project_mappings == Check \o Get
update_project == Check \o Change({"logProjects"})
update_project_mappings == Check \o Change({"logProjects"})

\* log_refill_handler.py
list_refills == Check \o Get
get_refill == Check \o Get
create_refill == Change({"refills"})
create_refill_from_archive == Change({"refills"})
delete_refill == Check \o Change({"refills"})
validate_refill_connection == Get

\* log_search_handler.py
search_logs == Check \o Get
search_logs_default == Check \o Get
get_project_log_data_exists == Check \o Get
get_log_export == Check \o Get
create_log_export == Check \o Change({"logExports"})

=============================================================================
