------------------------------ MODULE VksTools ------------------------------
(***************************************************************************)
(* The tools of the VKS MCP server.  Those that work on clusters, node     *)
(* groups and what they are made of have no require_write of their own: a  *)
(* tool that changes something is only registered when the server runs     *)
(* with --allow-write.  Those that work inside a cluster are always there  *)
(* and ask when they are called; K8sTools has the two that change it in    *)
(* detail.                                                                 *)
(***************************************************************************)
EXTENDS ToolSteps

(* TTL_CONFIG.  The lists are of other products' resources, but for where a *)
(* cluster is, which ends with the cluster.                                 *)
Shows == [list_flavors |-> {}, list_volume_types |-> {}, list_cluster_versions |-> {},
          list_vpcs |-> {}, list_subnets |-> {}, list_security_groups |-> {},
          list_placement_groups |-> {}, list_ssh_keys |-> {}, cluster_locate |-> {"places"}]

-----------------------------------------------------------------------------
\* discovery_handler.py
require_project_id == Project
vpc_list == require_project_id \o Cached("list_vpcs")
subnet_list == Check \o require_project_id \o Cached("list_subnets")
locate_cluster == Cached("cluster_locate")
resolve_zone_context == Check \o locate_cluster \o subnet_list
flavor_list == require_project_id \o Cached("list_flavors")
sshkey_list == require_project_id \o Cached("list_ssh_keys")
secgroup_list == require_project_id \o Cached("list_security_groups")
placementgroup_list == require_project_id \o Cached("list_placement_groups")
volumetype_list == require_project_id \o Cached("list_volume_types")
quota_get == Get
list_vpcs == vpc_list
list_subnets == subnet_list
list_flavors == resolve_zone_context \o flavor_list
list_ssh_keys == sshkey_list
list_security_groups == secgroup_list
list_volume_types == resolve_zone_context \o volumetype_list
list_placement_groups == placementgroup_list
get_quota == quota_get

\* version_handler.py, auth_handler.py
list_cluster_versions == Cached("list_cluster_versions")
get_access_token == Get

\* nodegroup_handler.py
nodegroup_list == Check \o Get \o Get
nodegroup_delete_dryrun == Check \o Get
validate_nodegroup_create == Check \o resolve_zone_context \o locate_cluster \o subnet_list
    \o flavor_list \o volumetype_list \o volumetype_list \o sshkey_list \o secgroup_list
list_nodegroups == nodegroup_list
get_nodegroup == Check \o Get
create_nodegroup == Check \o Change({"nodeGroups"})
update_nodegroup == Check \o Change({"nodeGroups"})
update_nodegroup_metadata == Check \o Change({"nodeGroups"})
delete_nodegroup == Check \o Change({"nodeGroups"})
upgrade_nodegroup_version == Check \o Change({"nodeGroups"})
list_nodes == Check \o Get
delete_nodegroup_dryrun == nodegroup_delete_dryrun

\* cluster_handler.py
cluster_list == Get
cluster_get == Check \o Get
cluster_create == Change({"clusters"})
cluster_update == Check \o Change({"clusters"})
cluster_delete == Check \o Change({"clusters", "nodeGroups", "places"})
cluster_get_kubeconfig == Check \o Get
cluster_get_events == Check \o Get
cluster_auto_upgrade_config == Check \o Change({"clusters"})
cluster_auto_upgrade_delete == Check \o Change({"clusters"})
cluster_delete_dryrun == Check \o Get \o Get
subnet_placement_errors == require_project_id \o Cached("list_subnets")  \* a failure is no error
nodegroup_precondition_error == Get                                      \* nor is this one's
list_clusters == cluster_list
get_cluster == cluster_get
create_cluster == subnet_placement_errors \o cluster_create
update_cluster == cluster_update
delete_cluster == nodegroup_precondition_error \o cluster_delete
get_cluster_kubeconfig == Check \o cluster_get_kubeconfig
generate_kubeconfig == Check \o Change({"kubeconfigs"})
get_cluster_events == cluster_get_events
configure_auto_upgrade == cluster_auto_upgrade_config
delete_auto_upgrade == cluster_auto_upgrade_delete
configure_auto_healing == Check \o Change({"clusters"})
delete_cluster_dryrun == cluster_delete_dryrun
validate_cluster_create == subnet_placement_errors

\* k8s_handler.py; a Check in front also refuses without --allow-sensitive-data-access
get_client == Get
generate_app_manifest == Check
list_k8s_resources == get_client \o Get
get_pod_logs == Check \o get_client \o Get
get_k8s_events == Check \o get_client \o Get
list_api_versions == get_client \o Get
manage_k8s_resource_read == Check \o get_client \o Get
manage_k8s_resource == Check \o Gate \o get_client \o Change({"objects"})
apply_yaml == Gate \o get_client \o Get \o Change({"objects"})

-----------------------------------------------------------------------------
(* The tools that are always there, and those under `if self.allow_write`.  *)
ReadTools == {
    get_access_token, list_clusters, get_cluster, get_cluster_kubeconfig, get_cluster_events,
    delete_cluster_dryrun, validate_cluster_create, list_vpcs, list_subnets, list_flavors,
    list_ssh_keys, list_security_groups, list_volume_types, list_placement_groups, get_quota,
    validate_nodegroup_create, list_nodegroups, get_nodegroup, list_nodes,
    delete_nodegroup_dryrun, list_cluster_versions
}

WriteTools == {
    create_cluster, update_cluster, delete_cluster, configure_auto_upgrade,
    delete_auto_upgrade, configure_auto_healing, generate_kubeconfig, create_nodegroup,
    update_nodegroup, update_nodegroup_metadata, delete_nodegroup, upgrade_nodegroup_version
}

KubernetesTools == {
    generate_app_manifest, list_k8s_resources, get_pod_logs, get_k8s_events, list_api_versions,
    manage_k8s_resource_read, manage_k8s_resource, apply_yaml
}

Tools == ReadTools \cup KubernetesTools \cup {Registered \o tool : tool \in WriteTools}

Views == [list \in DOMAIN Shows |-> {SeenBy(list, Shows[list], tool) : tool \in Tools}]

(* delete_cluster asks for the cluster's node groups before it checks the   *)
(* cluster's id.                                                            *)
LateChecked == [list \in DOMAIN Shows |-> SeenBy(list, Shows[list], Registered \o delete_cluster)]

=============================================================================
