---------------------------- MODULE VbackupTools ----------------------------
(***************************************************************************)
(* The tools of the vBackup MCP server, handler by handler.  None of them  *)
(* looks up a project: the token decides it.                               *)
(***************************************************************************)
EXTENDS ToolSteps

(* TTL_CONFIG: the lists that are cached, with the resources their items    *)
(* show.  list_databases is vDB's list; what it says of protection comes    *)
(* from list_protected_databases.  Policies and destinations count the      *)
(* servers that use them, and servers and databases show the policy and     *)
(* the destination they use.                                                *)
Shows == [list_backends |-> {}, get_configuration |-> {}, list_backup_destination_tags |-> {},
          list_backup_products |-> {}, list_backup_regions |-> {}, list_databases |-> {},
          list_backup_destinations |-> {"destinations", "destinationUse"},
          list_backup_policies |-> {"policies", "policyUse"},
          list_backup_servers |-> {"backupServers", "policies", "destinations"},
          list_backup_databases |-> {"backupDatabases", "policies", "destinations"},
          list_protected_servers |-> {"protectedServers"},
          list_protected_databases |-> {"protectedDatabases"}]

-----------------------------------------------------------------------------
\* catalogue_handler.py
list_backends == Cached("list_backends")
get_configuration == Cached("get_configuration")
list_protected_servers == Check \o Cached("list_protected_servers")

\* destination_handler.py
list_backup_destinations == Check \o Cached("list_backup_destinations")
get_backup_destination == Check \o Get
list_backup_destination_servers == Check \o Get
list_backup_destination_databases == Check \o Get
list_backup_destination_tags == Check \o Cached("list_backup_destination_tags")
list_backup_destination_history == Check \o Get
list_backup_products == Cached("list_backup_products")
list_backup_regions == Cached("list_backup_regions")
create_backup_destination == Gate \o Change({"destinations"}) \o Drop("list_backup_destinations")
update_backup_destination_name == Gate \o Check \o Change({"destinations"})
    \o Drop("list_backup_destinations")
update_backup_destination_max_quota == Gate \o Check \o Change({"destinations"})
    \o Drop("list_backup_destinations")
update_backup_destination_soft_delete == Gate \o Check \o Change({"destinations"})
    \o Drop("list_backup_destinations")
update_backup_destination_vault_lock == Gate \o Check \o Change({"destinations"})
    \o Drop("list_backup_destinations")
delete_backup_destination == Gate \o Check \o Change({"destinations"})
    \o Drop("list_backup_destinations")

\* policy_handler.py
list_backup_policies == Check \o Cached("list_backup_policies")
get_backup_policy == Check \o Get
create_backup_policy == Gate \o Change({"policies"}) \o Drop("list_backup_policies")
update_backup_policy == Gate \o Check \o Change({"policies"}) \o Drop("list_backup_policies")
update_default_backup_policy == Gate \o Check \o Change({"policies"})
    \o Drop("list_backup_policies")
delete_backup_policy == Gate \o Check \o Change({"policies"}) \o Drop("list_backup_policies")

\* backup_server_handler.py
list_backup_servers == Check \o Cached("list_backup_servers")
get_backup_server == Check \o Get
list_backup_server_volumes == Check \o Get
list_backup_server_points == Check \o Get
create_backup_server == Gate
    \o Change({"backupServers", "protectedServers", "policyUse", "destinationUse"})
    \o Drop("list_backup_servers") \o Drop("list_protected_servers")
update_backup_server_volumes == Gate \o Check \o Change({"backupServers"})
    \o Drop("list_backup_servers")
update_backup_server_policy == Gate \o Check \o Change({"backupServers", "policyUse"})
    \o Drop("list_backup_servers")
enable_backup_server == Gate \o Check \o Change({"backupServers"}) \o Drop("list_backup_servers")
disable_backup_server == Gate \o Check \o Change({"backupServers"}) \o Drop("list_backup_servers")
delete_backup_server == Gate \o Check
    \o Change({"backupServers", "protectedServers", "policyUse", "destinationUse"})
    \o Drop("list_backup_servers") \o Drop("list_protected_servers")
get_backup_statistics == Check \o Get
get_vserver_instance == Check \o Get
get_backup_server_point_download_urls == Check \o Get
start_backup == Gate \o Check \o Change({"points"})
update_backup_server_destination == Gate \o Check
    \o Change({"backupServers", "destinationUse"}) \o Drop("list_backup_servers")
delete_backup_server_point == Gate \o Check \o Change({"points"})

\* database_handler.py
list_backup_databases == Cached("list_backup_databases")
get_backup_database == Check \o Get
list_backup_database_points == Check \o Get
list_protected_databases == Cached("list_protected_databases")
\* looks up its own list first: what follows is what it does when that is
\* missing, so a call of it that hits does nothing
list_databases == Cached("list_protected_databases") \o Cached("list_databases")
create_backup_database == Gate \o Check \o Change({"backupDatabases", "protectedDatabases"})
    \o Drop("list_backup_databases") \o Drop("list_protected_databases") \o Drop("list_databases")
start_database_backup == Gate \o Check \o Change({"points"})
update_backup_database_policy == Gate \o Check \o Change({"backupDatabases"})
    \o Drop("list_backup_databases")
enable_backup_database == Gate \o Check \o Change({"backupDatabases"})
    \o Drop("list_backup_databases")
disable_backup_database == Gate \o Check \o Change({"backupDatabases"})
    \o Drop("list_backup_databases")
delete_backup_database_point == Gate \o Check \o Change({"points"})
delete_backup_database == Gate \o Check \o Change({"backupDatabases", "protectedDatabases"})
    \o Drop("list_backup_databases") \o Drop("list_protected_databases") \o Drop("list_databases")

\* history_handler.py
list_backup_history == Check \o Get
list_restore_history == Check \o Get
list_database_backup_history == Check \o Get
list_database_restore_history == Check \o Get
list_server_migration_history == Check \o Get

\* metrics_handler.py, reading by POST
get_backup_metrics == Check \o Get
get_backup_destination_metrics == Check \o Get \o Get

\* vserver_handler.py
list_vserver_backup_servers == Check \o Get
get_vserver_backup_server == Check \o Get
list_vserver_backup_server_points == Check \o Get
get_vserver_backup_server_point == Check \o Get
list_vserver_backup_volume_points == Check \o Get
get_vserver_backup_volume_point == Check \o Get
list_volume_usage == Get        \* by POST
create_vserver_backup_servers == Gate \o Check
    \o Change({"backupServers", "protectedServers", "policyUse", "destinationUse"})
    \o Drop("list_backup_servers") \o Drop("list_protected_servers")

-----------------------------------------------------------------------------
Tools == {
    list_backends, get_configuration, list_protected_servers, list_backup_destinations,
    get_backup_destination, list_backup_destination_servers, list_backup_destination_databases,
    list_backup_destination_tags, list_backup_destination_history, list_backup_products,
    list_backup_regions, create_backup_destination, update_backup_destination_name,
    update_backup_destination_max_quota, update_backup_destination_soft_delete,
    update_backup_destination_vault_lock, delete_backup_destination, list_backup_policies,
    get_backup_policy, create_backup_policy, update_backup_policy,
    update_default_backup_policy, delete_backup_policy, list_backup_servers, get_backup_server,
    list_backup_server_volumes, list_backup_server_points, create_backup_server,
    update_backup_server_volumes, update_backup_server_policy, enable_backup_server,
    disable_backup_server, delete_backup_server, get_backup_statistics, get_vserver_instance,
    get_backup_server_point_download_urls, start_backup, update_backup_server_destination,
    delete_backup_server_point, list_backup_databases, get_backup_database,
    list_backup_database_points, list_protected_databases, list_databases,
    create_backup_database, start_database_backup, update_backup_database_policy,
    enable_backup_database, disable_backup_database, delete_backup_database_point,
    delete_backup_database, list_backup_history, list_restore_history,
    list_database_backup_history, list_database_restore_history, list_server_migration_history,
    get_backup_metrics, get_backup_destination_metrics, list_vserver_backup_servers,
    get_vserver_backup_server, list_vserver_backup_server_points,
    get_vserver_backup_server_point, list_vserver_backup_volume_points,
    get_vserver_backup_volume_point, list_volume_usage, create_vserver_backup_servers
}

(* The tools as each cached list sees them; many look alike. *)
Views == [list \in DOMAIN Shows |-> {SeenBy(list, Shows[list], tool) : tool \in Tools}]

=============================================================================
