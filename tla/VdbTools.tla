------------------------------ MODULE VdbTools ------------------------------
(***************************************************************************)
(* The tools of the vDB MCP server, handler by handler.  A tool that       *)
(* changes something starts with require_write.  Orders have a dry run     *)
(* that sends nothing, and the answer of some requests is too thin to      *)
(* report, so they are followed by a read.                                 *)
(***************************************************************************)
EXTENDS ToolSteps

(* TTL_CONFIG: catalogues, parameters and what other products own.  What    *)
(* this server changes is never cached (UNCACHED_TOOLS).                    *)
Lists == {
    "list_relational_datastores", "list_memory_datastores", "list_relational_engines",
    "list_memory_engines", "list_relational_instance_families",
    "list_memory_instance_families", "list_relational_flavors", "list_memory_flavors",
    "list_relational_flavor_codes", "list_memory_flavor_codes", "list_relational_volume_types",
    "list_memory_volume_types", "list_relational_zones", "list_postgresql_datastores",
    "list_postgresql_flavors", "list_postgresql_volume_types", "get_kafka_limits",
    "list_kafka_flavors", "list_kafka_volume_types", "list_kafka_flavor_codes",
    "list_kafka_instance_families", "list_relational_configuration_params",
    "list_memory_configuration_params", "list_relational_networks", "list_memory_networks",
    "list_relational_subnets", "list_memory_subnets",
    "list_relational_backup_storage_packages", "list_memory_backup_storage_packages",
    "list_postgresql_backup_locations", "list_postgresql_backup_policies"
}

Shows == [list \in Lists |-> {}]

-----------------------------------------------------------------------------
\* catalog_handler.py
fetch(tool) == Cached(tool)
datastores(tool) == fetch(tool)
engines(tool) == fetch(tool)
instance_families(tool) == fetch(tool)
flavors(tool) == Check \o fetch(tool)
flavor_codes(tool) == fetch(tool)
volume_types(tool) == fetch(tool)
networks(tool) == fetch(tool)
subnets(tool) == fetch(tool)
list_relational_datastores == datastores("list_relational_datastores")
list_relational_engines == engines("list_relational_engines")
list_relational_instance_families == instance_families("list_relational_instance_families")
list_relational_flavors == flavors("list_relational_flavors")
list_relational_flavor_codes == flavor_codes("list_relational_flavor_codes")
list_relational_volume_types == volume_types("list_relational_volume_types")
list_relational_zones == fetch("list_relational_zones")
list_relational_networks == networks("list_relational_networks")
list_relational_subnets == subnets("list_relational_subnets")
list_memory_datastores == datastores("list_memory_datastores")
list_memory_engines == engines("list_memory_engines")
list_memory_instance_families == instance_families("list_memory_instance_families")
list_memory_flavors == flavors("list_memory_flavors")
list_memory_flavor_codes == flavor_codes("list_memory_flavor_codes")
list_memory_volume_types == volume_types("list_memory_volume_types")
list_memory_networks == networks("list_memory_networks")
list_memory_subnets == subnets("list_memory_subnets")
list_postgresql_datastores == datastores("list_postgresql_datastores")
list_postgresql_flavors == Check \o fetch("list_postgresql_flavors")
list_postgresql_volume_types == Check \o fetch("list_postgresql_volume_types")
get_kafka_limits == fetch("get_kafka_limits")
list_kafka_flavors == fetch("list_kafka_flavors")
list_kafka_volume_types == fetch("list_kafka_volume_types")
list_kafka_flavor_codes == flavor_codes("list_kafka_flavor_codes")
list_kafka_instance_families == instance_families("list_kafka_instance_families")

\* kafka_cluster_handler.py
list_kafka_clusters == Get
get_kafka_cluster == Check \o Get
list_kafka_cluster_histories == Check \o Get
create_kafka_cluster_dryrun == Check
create_kafka_cluster == Gate \o Check \o Change({"kafkaClusters"})
resize_kafka_cluster_brokers == Gate \o Check \o Change({"kafkaClusters"})
resize_kafka_cluster_storage == Gate \o Check \o Change({"kafkaClusters"})
update_kafka_cluster_storage_type == Gate \o Check \o Change({"kafkaClusters"})
update_kafka_cluster_authentication == Gate \o Check \o Change({"kafkaClusters"})
update_kafka_cluster_public_access == Gate \o Check \o Change({"kafkaClusters"})
update_kafka_cluster_config_group == Gate \o Check \o Change({"kafkaClusters"})
create_kafka_cluster_secrule == Gate \o Check \o Change({"kafkaClusters"})
delete_kafka_cluster_secrule == Gate \o Check \o Change({"kafkaClusters"})
delete_kafka_cluster == Gate \o Check \o Change({"kafkaClusters"})

\* kafka_config_handler.py
list_kafka_config_groups == Get
get_kafka_config_group == Check \o Get
get_kafka_config_group_version == Check \o Get
create_kafka_config_group == Gate \o Change({"kafkaConfigGroups"}) \o Get
create_kafka_config_group_version == Gate \o Check \o Change({"kafkaConfigGroups"})
delete_kafka_config_group == Gate \o Check \o Change({"kafkaConfigGroups"})

\* kafka_topic_handler.py
list_kafka_topics == Check \o Get
get_kafka_topic == Check \o Get
create_kafka_topic == Gate \o Check \o Change({"kafkaTopics"})
update_kafka_topic == Gate \o Check \o Change({"kafkaTopics"})
delete_kafka_topic == Gate \o Check \o Change({"kafkaTopics"})

\* kafka_user_handler.py
list_kafka_users == Check \o Get
get_kafka_user == Check \o Get
get_kafka_user_credentials == Check \o Get
create_kafka_user == Gate \o Check \o Change({"kafkaUsers"})
update_kafka_user == Gate \o Check \o Change({"kafkaUsers"})
update_kafka_user_credentials == Gate \o Check \o Change({"kafkaUsers"})
delete_kafka_user == Gate \o Check \o Change({"kafkaUsers"})

\* memory_backup_handler.py
list_memory_backups == Check \o Get
get_memory_backup == Check \o Get
get_memory_free_backup_usage == Get
restore_memory_backup_dryrun == Check
create_memory_backup == Gate \o Check \o Change({"backups"})
restore_memory_backup == Gate \o Check \o Change({"instances"})
delete_memory_backups == Gate \o Check \o Change({"backups"})

\* memory_config_handler.py
memory_fetch_params == Cached("list_memory_configuration_params")
memory_restart_required_names == memory_fetch_params
list_memory_configurations == Check \o Get
get_memory_configuration == Check \o Get
list_memory_configuration_params == Check \o memory_fetch_params
create_memory_configuration == Gate \o Change({"configurations"}) \o Get
update_memory_configuration == Gate \o Check \o Change({"configurations"}) \o Get
    \o memory_restart_required_names
delete_memory_configurations == Gate \o Check \o Change({"configurations"})

\* memory_instance_handler.py
list_memory_instances == Check \o Get
get_memory_instance == Check \o Get
list_memory_instance_histories == Check \o Get
list_memory_instance_replicas == Check \o Get
list_memory_instance_secrules == Check \o Get
list_memory_instance_backups == Check \o Get
create_memory_instance_dryrun == <<>>
resize_memory_instance_dryrun == Check
create_memory_instance_replicas_dryrun == Check
delete_memory_instance_dryrun == Check
create_memory_instance == Gate \o Change({"instances"})
start_memory_instance == Gate \o Check \o Change({"instances"})
stop_memory_instance == Gate \o Check \o Change({"instances"})
reboot_memory_instance == Gate \o Check \o Change({"instances"})
resize_memory_instance == Gate \o Check \o Change({"instances"})
create_memory_instance_replicas == Gate \o Check \o Change({"instances"})
detach_memory_instance_replica == Gate \o Check \o Change({"instances"})
update_memory_instance_setting == Gate \o Check \o Change({"instances"})
update_memory_instance_config_group == Gate \o Check \o Change({"instances"})
update_memory_instance_secrules == Gate \o Check \o Change({"instances"})
delete_memory_instance == Gate \o Check \o Change({"instances"})

\* memory_storage_handler.py
list_memory_backup_storage_packages == Cached("list_memory_backup_storage_packages")
get_memory_backup_storage == Get
create_memory_backup_storage_dryrun == <<>>
resize_memory_backup_storage_dryrun == Check
create_memory_backup_storage == Gate \o Change({"backupStorages"})
resize_memory_backup_storage == Gate \o Check \o Change({"backupStorages"})
delete_memory_backup_storage == Gate \o Check \o Change({"backupStorages"})

\* postgresql_backup_handler.py
list_postgresql_backups == Get
get_postgresql_cluster_backup == Check \o Get
list_postgresql_restore_points == Check \o Get
list_postgresql_backup_locations == Cached("list_postgresql_backup_locations")
list_postgresql_backup_policies == Cached("list_postgresql_backup_policies")
create_postgresql_cluster_backup == Gate \o Check \o Change({"backups"})

\* postgresql_cluster_handler.py
scan == Check \o Get
list_postgresql_clusters == scan
get_postgresql_cluster == Check \o Get
get_postgresql_cluster_volume_used == Check \o Get
list_postgresql_cluster_secrules == Check \o Get
list_postgresql_cluster_histories == Check \o Get
create_postgresql_cluster_dryrun == <<>>
resize_postgresql_cluster_dryrun == Check
create_postgresql_cluster == Gate \o Change({"instances"})
resize_postgresql_cluster == Gate \o Check \o Change({"instances"})
update_postgresql_cluster_secrules == Gate \o Check \o Change({"instances"})
reboot_postgresql_cluster == Gate \o Check \o Change({"instances"})
delete_postgresql_cluster == Gate \o Check \o Change({"instances"})
update_postgresql_cluster_setting == Gate \o Check \o Change({"instances"})
update_postgresql_cluster_config_group == Gate \o Check \o Change({"instances"})

\* relational_backup_handler.py
list_relational_backups == Check \o Get
get_relational_backup == Check \o Get
list_relational_instance_backups == Check \o Get
get_relational_free_backup_usage == Get
restore_relational_backup_dryrun == Check
create_relational_backup == Gate \o Check \o Change({"backups"})
restore_relational_backup == Gate \o Check \o Change({"instances"})
delete_relational_backup == Gate \o Check \o Change({"backups"})

\* relational_config_handler.py
relational_fetch_params == Cached("list_relational_configuration_params")
relational_restart_required_names == relational_fetch_params
list_relational_configurations == Check \o Get
get_relational_configuration == Check \o Get
list_relational_configuration_params == Check \o relational_fetch_params
create_relational_configuration == Gate \o Change({"configurations"}) \o Get
update_relational_configuration == Gate \o Check \o Change({"configurations"}) \o Get
    \o relational_restart_required_names
delete_relational_configurations == Gate \o Check \o Change({"configurations"})

\* relational_instance_handler.py
list_relational_instances == Check \o Get
get_relational_instance == Check \o Get
list_relational_instance_histories == Check \o Get
list_relational_instance_replicas == Check \o Get
list_relational_instance_secrules == Check \o Get
create_relational_instance_dryrun == <<>>
resize_relational_instance_dryrun == Check
resize_relational_instance_storage_dryrun == Check
create_relational_instance_replicas_dryrun == Check
delete_relational_instance_dryrun == Check
create_relational_instance == Gate \o Change({"instances"})
start_relational_instance == Gate \o Check \o Change({"instances"})
stop_relational_instance == Gate \o Check \o Change({"instances"})
reboot_relational_instance == Gate \o Check \o Change({"instances"})
resize_relational_instance == Gate \o Check \o Change({"instances"})
resize_relational_instance_storage == Gate \o Check \o Change({"instances"})
create_relational_instance_replicas == Gate \o Check \o Change({"instances"})
detach_relational_instance_replica == Gate \o Check \o Change({"instances"})
update_relational_instance_setting == Gate \o Check \o Change({"instances"})
update_relational_instance_config_group == Gate \o Check \o Change({"instances"})
update_relational_instance_secrules == Gate \o Check \o Change({"instances"})
delete_relational_instance == Gate \o Check \o Change({"instances"})

\* relational_storage_handler.py
list_relational_backup_storage_packages == Cached("list_relational_backup_storage_packages")
get_relational_backup_storage == Get
create_relational_backup_storage_dryrun == <<>>
resize_relational_backup_storage_dryrun == Check
create_relational_backup_storage == Gate \o Change({"backupStorages"})
resize_relational_backup_storage == Gate \o Check \o Change({"backupStorages"})
delete_relational_backup_storage == Gate \o Check \o Change({"backupStorages"})

-----------------------------------------------------------------------------
Tools == {
    list_relational_datastores, list_relational_engines, list_relational_instance_families,
    list_relational_flavors, list_relational_flavor_codes, list_relational_volume_types,
    list_relational_zones, list_relational_networks, list_relational_subnets,
    list_memory_datastores, list_memory_engines, list_memory_instance_families,
    list_memory_flavors, list_memory_flavor_codes, list_memory_volume_types,
    list_memory_networks, list_memory_subnets, list_postgresql_datastores,
    list_postgresql_flavors, list_postgresql_volume_types, get_kafka_limits,
    list_kafka_flavors, list_kafka_volume_types, list_kafka_flavor_codes,
    list_kafka_instance_families, list_kafka_clusters, get_kafka_cluster,
    list_kafka_cluster_histories, create_kafka_cluster_dryrun, list_kafka_config_groups,
    get_kafka_config_group, get_kafka_config_group_version, list_kafka_topics, get_kafka_topic,
    list_kafka_users, get_kafka_user, get_kafka_user_credentials, list_memory_backups,
    get_memory_backup, get_memory_free_backup_usage, restore_memory_backup_dryrun,
    list_memory_configurations, get_memory_configuration, list_memory_configuration_params,
    list_memory_instances, get_memory_instance, list_memory_instance_histories,
    list_memory_instance_replicas, list_memory_instance_secrules, list_memory_instance_backups,
    create_memory_instance_dryrun, resize_memory_instance_dryrun,
    create_memory_instance_replicas_dryrun, delete_memory_instance_dryrun,
    list_memory_backup_storage_packages, get_memory_backup_storage,
    create_memory_backup_storage_dryrun, resize_memory_backup_storage_dryrun,
    list_postgresql_backups, get_postgresql_cluster_backup, list_postgresql_restore_points,
    list_postgresql_backup_locations, list_postgresql_backup_policies,
    list_postgresql_clusters, get_postgresql_cluster, get_postgresql_cluster_volume_used,
    list_postgresql_cluster_secrules, list_postgresql_cluster_histories,
    create_postgresql_cluster_dryrun, resize_postgresql_cluster_dryrun,
    list_relational_backups, get_relational_backup, list_relational_instance_backups,
    get_relational_free_backup_usage, restore_relational_backup_dryrun,
    list_relational_configurations, get_relational_configuration,
    list_relational_configuration_params, list_relational_instances, get_relational_instance,
    list_relational_instance_histories, list_relational_instance_replicas,
    list_relational_instance_secrules, create_relational_instance_dryrun,
    resize_relational_instance_dryrun, resize_relational_instance_storage_dryrun,
    create_relational_instance_replicas_dryrun, delete_relational_instance_dryrun,
    list_relational_backup_storage_packages, get_relational_backup_storage,
    create_relational_backup_storage_dryrun, resize_relational_backup_storage_dryrun,
    create_kafka_cluster, resize_kafka_cluster_brokers, resize_kafka_cluster_storage,
    update_kafka_cluster_storage_type, update_kafka_cluster_authentication,
    update_kafka_cluster_public_access, update_kafka_cluster_config_group,
    create_kafka_cluster_secrule, delete_kafka_cluster_secrule, delete_kafka_cluster,
    create_kafka_config_group, create_kafka_config_group_version, delete_kafka_config_group,
    create_kafka_topic, update_kafka_topic, delete_kafka_topic, create_kafka_user,
    update_kafka_user, update_kafka_user_credentials, delete_kafka_user, create_memory_backup,
    restore_memory_backup, delete_memory_backups, create_memory_configuration,
    update_memory_configuration, delete_memory_configurations, create_memory_instance,
    start_memory_instance, stop_memory_instance, reboot_memory_instance,
    resize_memory_instance, create_memory_instance_replicas, detach_memory_instance_replica,
    update_memory_instance_setting, update_memory_instance_config_group,
    update_memory_instance_secrules, delete_memory_instance, create_memory_backup_storage,
    resize_memory_backup_storage, delete_memory_backup_storage,
    create_postgresql_cluster_backup, create_postgresql_cluster, resize_postgresql_cluster,
    update_postgresql_cluster_secrules, reboot_postgresql_cluster, delete_postgresql_cluster,
    update_postgresql_cluster_setting, update_postgresql_cluster_config_group,
    create_relational_backup, restore_relational_backup, delete_relational_backup,
    create_relational_configuration, update_relational_configuration,
    delete_relational_configurations, create_relational_instance, start_relational_instance,
    stop_relational_instance, reboot_relational_instance, resize_relational_instance,
    resize_relational_instance_storage, create_relational_instance_replicas,
    detach_relational_instance_replica, update_relational_instance_setting,
    update_relational_instance_config_group, update_relational_instance_secrules,
    delete_relational_instance, create_relational_backup_storage,
    resize_relational_backup_storage, delete_relational_backup_storage
}

Views == [list \in DOMAIN Shows |-> {SeenBy(list, Shows[list], tool) : tool \in Tools}]

=============================================================================
