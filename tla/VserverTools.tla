---------------------------- MODULE VserverTools ----------------------------
(***************************************************************************)
(* The tools of the vServer MCP server, handler by handler.  Every handler *)
(* that writes starts with require_write; every id it puts in a path is    *)
(* checked before anything is sent.                                        *)
(***************************************************************************)
EXTENDS ToolSteps

(* TTL_CONFIG: the lists that are cached; get_or_fetch of any other tool    *)
(* fetches every time.  Each with the resources its items show; the        *)
(* catalogues show nothing that a tool of this server changes.             *)
Shows == [list_zones |-> {}, list_flavor_families |-> {}, list_flavor_codes |-> {},
          list_flavors |-> {}, list_images |-> {}, list_volume_types |-> {},
          list_placement_group_policies |-> {}, list_snapshot_policies |-> {},
          list_vpcs |-> {"networks"}, list_subnets |-> {"subnets"},
          list_security_groups |-> {"securityGroups"},
          list_placement_groups |-> {"serverGroups", "placements"},
          list_ssh_keys |-> {"sshKeys"}]

-----------------------------------------------------------------------------
\* mutated forms of handlers below: an invalidation forgotten, the guard
\* forgotten, the id checked after the project was looked up
UpdateKeepingList == Gate \o Check \o Project \o Change({"subnets"})
DeleteUngated == Check \o Project \o Change({"volumes"})
DeleteCheckedLate == Gate \o Project \o Check \o Change({"sshKeys"}) \o Drop("list_ssh_keys")

\* zone_handler.py
list_zones == Project \o Cached("list_zones")
get_zone == Check \o Project \o Get

\* flavor_handler.py
list_flavor_families == Project \o Cached("list_flavor_families")
list_flavor_codes == Project \o Cached("list_flavor_codes")
list_flavors == Check \o Project \o Cached("list_flavors")
get_flavor == Check \o Project \o Get

\* image_handler.py
list_images == Project \o Cached("list_images")

\* volumetype_handler.py
list_volume_types == Check \o Project \o Cached("list_volume_types")
get_volume_type == Check \o Project \o Get
get_default_volume_type == Project \o Get \o Get

\* server_handler.py
list_servers == Project \o Get
get_server == Check \o Project \o Get
list_server_interfaces == Check \o Project \o Get
list_server_security_groups == Check \o Project \o Get \o Get
get_server_console_url == Check \o Project \o Get
get_server_console_log == Check \o Project \o Get
list_subnet_servers == Check \o Project \o Get
get_server_external_interface == Check \o Project \o Get
list_server_actions == Check \o Project \o Get
create_server == Gate \o Project \o Change({"servers", "placements"})
start_server == Gate \o Check \o Project \o Change({"servers"})
stop_server == Gate \o Check \o Project \o Change({"servers"})
reboot_server == Gate \o Check \o Project \o Change({"servers"})
resize_server == Gate \o Check \o Project \o Change({"servers"})
rename_server == Gate \o Check \o Project \o Change({"servers"})
update_server_security_groups == Gate \o Check \o Project \o Change({"servers"})
create_server_image == Gate \o Check \o Project \o Change({"userImages"})
attach_server_internal_interface == Gate \o Check \o Project \o Change({"networkInterfaces"})
    \o list_server_interfaces
attach_server_internal_interface_floating_ip == Gate \o Check \o Project
    \o Change({"networkInterfaces"}) \o list_server_interfaces
detach_server_internal_interface_floating_ip == Gate \o Check \o Project
    \o Change({"networkInterfaces"}) \o list_server_interfaces
detach_server_internal_interfaces == Gate \o Check \o Project \o Change({"networkInterfaces"})
    \o list_server_interfaces
attach_server_external_interface == Gate \o Check \o Project \o Change({"networkInterfaces"})
    \o list_server_interfaces
detach_server_external_interface == Gate \o Check \o Project \o Change({"networkInterfaces"})
    \o list_server_interfaces
attach_server_floating_ip == Gate \o Check \o Project \o Change({"floatingIps"})
detach_server_floating_ip == Gate \o Check \o Project \o Change({"floatingIps"})
delete_server == Gate \o Check \o Project \o Change({"servers", "placements", "volumes"})

\* volume_handler.py
list_volumes == Project \o Get
get_volume == Check \o Project \o Get
list_server_volumes == Check \o Project \o Get
get_server_boot_volume == Check \o Project \o Get
list_volume_history == Check \o Project \o Get
list_persistent_volumes == Project \o Get
create_volume == Gate \o Project \o Change({"volumes"})
resize_volume == Gate \o Check \o Project \o Change({"volumes"})
update_volume_type == Gate \o Check \o Project \o Change({"volumes"})
delete_persistent_volume == Gate \o Check \o Project \o Change({"volumes"})
rename_volume == Gate \o Check \o Project \o Change({"volumes"})
attach_volume == Gate \o Check \o Project \o Change({"volumes"})
detach_volume == Gate \o Check \o Project \o Change({"volumes"})
delete_volume == Gate \o Check \o Project \o Change({"volumes"})

\* snapshot_handler.py
list_server_snapshots == Check \o Project \o Get
get_server_snapshot_policy == Check \o Project \o Get
list_snapshot_policies == Cached("list_snapshot_policies")
list_shared_server_snapshots == Check \o Project \o Get
list_volume_snapshots == Check \o Project \o Get
get_volume_snapshot_policy == Check \o Project \o Get
create_server_snapshot == Gate \o Check \o Project \o Change({"snapshots"})
create_volume_snapshot == Gate \o Check \o Project \o Change({"snapshots"})
create_server_snapshot_policy == Gate \o Check \o Project \o Change({"snapshots"})
update_server_snapshot_policy == Gate \o Check \o Project \o Change({"snapshots"})
enable_server_auto_snapshot == Gate \o Check \o Project \o Change({"snapshots"})
disable_server_auto_snapshot == Gate \o Check \o Project \o Change({"snapshots"})
update_volume_snapshot_policy == Gate \o Check \o Project \o Change({"snapshots"})
enable_volume_auto_snapshot == Gate \o Check \o Project \o Change({"snapshots"})
disable_volume_auto_snapshot == Gate \o Check \o Project \o Change({"snapshots"})
rollback_server_snapshot == Gate \o Check \o Project \o Change({"servers", "volumes"})
rollback_volume_snapshot == Gate \o Check \o Project \o Change({"volumes"})
delete_server_snapshot == Gate \o Check \o Project \o Change({"snapshots"})
delete_volume_snapshot == Gate \o Check \o Project \o Change({"snapshots"})
delete_server_snapshot_policy == Gate \o Check \o Project \o Change({"snapshots"})
delete_volume_snapshot_policy == Gate \o Check \o Project \o Change({"snapshots"})
delete_shared_server_snapshot == Gate \o Check \o Project \o Change({"snapshots"})

\* userimage_handler.py
list_user_images == Project \o Get
get_user_image == Check \o Project \o Get
delete_user_image == Gate \o Check \o Project \o Change({"userImages"})
list_tag_keys == Project \o Get
list_tag_values == Check \o Project \o Get
list_resource_tags == Check \o Project \o Get
update_resource_tags == Gate \o Check \o Project \o Change({"tags"})
get_quota == Project \o Get
list_tags == Project \o Get
get_tag_quota == Project \o Get

\* networkinterface_handler.py
list_floating_ips == Project \o Get
delete_floating_ip == Gate \o Check \o Project \o Change({"floatingIps"})
list_network_interfaces == Project \o Get
get_network_interface == Check \o Project \o Get
create_network_interface == Gate \o Project \o Change({"networkInterfaces"})
rename_network_interface == Gate \o Check \o Project \o Change({"networkInterfaces"})
update_network_interface_tags == Gate \o Check \o Project \o Change({"tags"})
    \o get_network_interface
delete_network_interface == Gate \o Check \o Project \o Change({"networkInterfaces"})
list_dhcp_options == Project \o Get
get_dhcp_option == Check \o Project \o Get
list_dhcp_option_vpcs == Check \o Project \o Get
create_dhcp_option == Gate \o Project \o Change({"dhcpOptions"})
update_vpc_dhcp_option == Gate \o Check \o Project \o Change({"networks"}) \o Drop("list_vpcs")
delete_dhcp_option == Gate \o Check \o Project \o Change({"dhcpOptions"})
list_elastic_ips == Project \o Get

\* virtualip_handler.py
list_virtual_ips == Project \o Cached("list_virtual_ips")
get_virtual_ip == Check \o Project \o Get
list_virtual_ip_address_pairs == Check \o Project \o Get
get_virtual_ip_address_pair == Check \o Project \o Get
list_virtual_ip_candidate_interfaces == Project \o Get
list_public_virtual_ip_candidate_interfaces == Project \o Get
list_secondary_subnet_address_pairs == Check \o Project \o Get
create_virtual_ip == Gate \o Project \o Change({"virtualIps"}) \o Drop("list_virtual_ips")
update_virtual_ip == Gate \o Check \o Project \o Change({"virtualIps"}) \o Drop("list_virtual_ips")
create_public_virtual_ip == Gate \o Project \o Change({"virtualIps"}) \o Drop("list_virtual_ips")
create_virtual_ip_address_pair == Gate \o Check \o Project \o Change({"addressPairs"})
create_public_virtual_ip_address_pair == Gate \o Check \o Project \o Change({"addressPairs"})
create_secondary_subnet_address_pair == Gate \o Check \o Project \o Change({"addressPairs"})
delete_virtual_ip_address_pair == Gate \o Check \o Project \o Change({"addressPairs"})
delete_public_virtual_ip_address_pair == Gate \o Check \o Project \o Change({"addressPairs"})
delete_secondary_subnet_address_pair == Gate \o Check \o Project \o Change({"addressPairs"})
delete_virtual_ip == Gate \o Check \o Project \o Change({"virtualIps"}) \o Drop("list_virtual_ips")
delete_public_virtual_ip == Gate \o Check \o Project \o Change({"virtualIps"})
    \o Drop("list_virtual_ips")

\* vpc_handler.py
list_vpcs == Project \o Cached("list_vpcs")
get_vpc == Check \o Project \o Get
create_vpc == Gate \o Project \o Change({"networks"})
update_vpc == Gate \o Check \o Project \o Change({"networks"})
delete_vpc == Gate \o Check \o Project \o Change({"networks"}) \o Drop("list_vpcs")
list_active_vpcs == Project \o Get
enable_vpc_dns == Gate \o Check \o Project \o Change({"networks"}) \o Drop("list_vpcs")

\* subnet_handler.py
list_subnets == Check \o Project \o Cached("list_subnets")
get_subnet == Check \o Project \o Get
create_subnet == Gate \o Check \o Project \o Change({"subnets"}) \o Drop("list_subnets")
update_subnet == Gate \o Check \o Project \o Change({"subnets"}) \o Drop("list_subnets")
delete_subnet == Gate \o Check \o Project \o Change({"subnets"}) \o Drop("list_subnets")
create_secondary_subnet == Gate \o Check \o Project \o Change({"subnets"}) \o Drop("list_subnets")
delete_secondary_subnet == Gate \o Check \o Project \o Change({"subnets"}) \o Drop("list_subnets")

\* secgroup_handler.py
list_security_groups == Project \o Cached("list_security_groups")
get_security_group == Check \o Project \o Get
list_security_group_rules == Check \o Project \o Get
get_security_group_rule == Check \o Project \o Get
list_security_group_rule_samples == Check \o Project \o Get
create_security_group == Gate \o Project \o Change({"securityGroups"})
    \o Drop("list_security_groups")
update_security_group == Gate \o Check \o Project \o Change({"securityGroups"})
    \o Drop("list_security_groups")
delete_security_group == Gate \o Check \o Project \o Change({"securityGroups"})
    \o Drop("list_security_groups")
create_security_group_rule == Gate \o Check \o Project \o Change({"securityGroupRules"})
update_security_group_rule == Gate \o Check \o Project \o Change({"securityGroupRules"})
delete_security_group_rule == Gate \o Check \o Project \o Change({"securityGroupRules"})
list_security_group_servers == Check \o Project \o Get

\* networkacl_handler.py
list_network_acls == Project \o Cached("list_network_acls")
get_network_acl == Check \o Project \o Get
list_network_acl_rules == Check \o Project \o Get
create_network_acl == Gate \o Project \o Change({"networkAcls"}) \o Drop("list_network_acls")
update_network_acl_rules == Gate \o Check \o Project \o Get \o Change({"networkAcls"})
    \o Drop("list_network_acls") \o Get
update_network_acl_subnets == Gate \o Check \o Project \o Change({"networkAcls"})
    \o Drop("list_network_acls")
delete_network_acl == Gate \o Check \o Project \o Change({"networkAcls"})
    \o Drop("list_network_acls")

\* routetable_handler.py
list_route_tables == Project \o Cached("list_route_tables")
get_route_table == Check \o Project \o Get
list_route_table_routes == Check \o Project \o Get
create_route_table == Gate \o Project \o Change({"routeTables"}) \o Drop("list_route_tables")
update_route_table_routes == Gate \o Check \o Project \o Change({"routeTables"})
    \o Drop("list_route_tables")
delete_route_table == Gate \o Check \o Project \o Change({"routeTables"})
    \o Drop("list_route_tables")

\* peering_handler.py
list_peerings == Project \o Cached("list_peerings")
delete_peering == Gate \o Check \o Project \o Change({"peerings"}) \o Drop("list_peerings")

\* interconnect_handler.py
list_interconnects == Project \o Cached("list_interconnects")
get_interconnect == Check \o Project \o Get
list_interconnect_packages == Project \o Cached("list_interconnect_packages")
list_interconnect_circuit_types == Project \o Cached("list_interconnect_circuit_types")
list_interconnect_connections == Check \o Project \o Get
get_interconnect_connection == Check \o Project \o Get
create_interconnect == Gate \o Project \o Change({"interconnects"}) \o Drop("list_interconnects")
update_interconnect == Gate \o Check \o Project \o Change({"interconnects"})
    \o Drop("list_interconnects")
update_interconnect_package == Gate \o Check \o Project \o Change({"interconnects"})
    \o Drop("list_interconnects")
create_interconnect_connection == Gate \o Check \o Project \o Change({"interconnects"})
update_interconnect_connection == Gate \o Check \o Project \o Change({"interconnects"})
ping_interconnect == Gate \o Check \o Project \o Change({"interconnects"})
delete_interconnect_connection == Gate \o Check \o Project \o Change({"interconnects"})
delete_interconnect == Gate \o Check \o Project \o Change({"interconnects"})
    \o Drop("list_interconnects")

\* placementgroup_handler.py
list_placement_groups == Project \o Cached("list_placement_groups")
get_placement_group == Check \o Project \o Get
list_placement_group_policies == Project \o Cached("list_placement_group_policies")
create_placement_group == Gate \o Project \o Change({"serverGroups"})
    \o Drop("list_placement_groups")
update_placement_group == Gate \o Check \o Project \o Change({"serverGroups"})
    \o Drop("list_placement_groups")
delete_placement_group == Gate \o Check \o Project \o Change({"serverGroups"})
    \o Drop("list_placement_groups")

\* sshkey_handler.py
list_ssh_keys == Project \o Cached("list_ssh_keys")
get_ssh_key == Check \o Project \o Get
create_ssh_key == Gate \o Project \o Change({"sshKeys"}) \o Drop("list_ssh_keys")
import_ssh_key == Gate \o Check \o Project \o Change({"sshKeys"}) \o Drop("list_ssh_keys")
delete_ssh_key == Gate \o Check \o Project \o Change({"sshKeys"}) \o Drop("list_ssh_keys")

-----------------------------------------------------------------------------
Tools == {
    list_zones, get_zone, list_flavor_families, list_flavor_codes, list_flavors, get_flavor,
    list_images, list_volume_types, get_volume_type, get_default_volume_type, list_servers,
    get_server, list_server_interfaces, list_server_security_groups, get_server_console_url,
    get_server_console_log, list_subnet_servers, get_server_external_interface,
    list_server_actions, create_server, start_server, stop_server, reboot_server, resize_server,
    rename_server, update_server_security_groups, create_server_image,
    attach_server_internal_interface, attach_server_internal_interface_floating_ip,
    detach_server_internal_interface_floating_ip, detach_server_internal_interfaces,
    attach_server_external_interface, detach_server_external_interface,
    attach_server_floating_ip, detach_server_floating_ip, delete_server, list_volumes,
    get_volume, list_server_volumes, get_server_boot_volume, list_volume_history,
    list_persistent_volumes, create_volume, resize_volume, update_volume_type,
    delete_persistent_volume, rename_volume, attach_volume, detach_volume, delete_volume,
    list_server_snapshots, get_server_snapshot_policy, list_snapshot_policies,
    list_shared_server_snapshots, list_volume_snapshots, get_volume_snapshot_policy,
    create_server_snapshot, create_volume_snapshot, create_server_snapshot_policy,
    update_server_snapshot_policy, enable_server_auto_snapshot, disable_server_auto_snapshot,
    update_volume_snapshot_policy, enable_volume_auto_snapshot, disable_volume_auto_snapshot,
    rollback_server_snapshot, rollback_volume_snapshot, delete_server_snapshot,
    delete_volume_snapshot, delete_server_snapshot_policy, delete_volume_snapshot_policy,
    delete_shared_server_snapshot, list_user_images, get_user_image, delete_user_image,
    list_tag_keys, list_tag_values, list_resource_tags, update_resource_tags, get_quota,
    list_tags, get_tag_quota, list_floating_ips, delete_floating_ip, list_network_interfaces,
    get_network_interface, create_network_interface, rename_network_interface,
    update_network_interface_tags, delete_network_interface, list_dhcp_options, get_dhcp_option,
    list_dhcp_option_vpcs, create_dhcp_option, update_vpc_dhcp_option, delete_dhcp_option,
    list_elastic_ips, list_virtual_ips, get_virtual_ip, list_virtual_ip_address_pairs,
    get_virtual_ip_address_pair, list_virtual_ip_candidate_interfaces,
    list_public_virtual_ip_candidate_interfaces, list_secondary_subnet_address_pairs,
    create_virtual_ip, update_virtual_ip, create_public_virtual_ip,
    create_virtual_ip_address_pair, create_public_virtual_ip_address_pair,
    create_secondary_subnet_address_pair, delete_virtual_ip_address_pair,
    delete_public_virtual_ip_address_pair, delete_secondary_subnet_address_pair,
    delete_virtual_ip, delete_public_virtual_ip, list_vpcs, get_vpc, create_vpc, update_vpc,
    delete_vpc, list_active_vpcs, enable_vpc_dns, list_subnets, get_subnet, create_subnet,
    update_subnet, delete_subnet, create_secondary_subnet, delete_secondary_subnet,
    list_security_groups, get_security_group, list_security_group_rules,
    get_security_group_rule, list_security_group_rule_samples, create_security_group,
    update_security_group, delete_security_group, create_security_group_rule,
    update_security_group_rule, delete_security_group_rule, list_security_group_servers,
    list_network_acls, get_network_acl, list_network_acl_rules, create_network_acl,
    update_network_acl_rules, update_network_acl_subnets, delete_network_acl, list_route_tables,
    get_route_table, list_route_table_routes, create_route_table, update_route_table_routes,
    delete_route_table, list_peerings, delete_peering, list_interconnects, get_interconnect,
    list_interconnect_packages, list_interconnect_circuit_types, list_interconnect_connections,
    get_interconnect_connection, create_interconnect, update_interconnect,
    update_interconnect_package, create_interconnect_connection, update_interconnect_connection,
    ping_interconnect, delete_interconnect_connection, delete_interconnect,
    list_placement_groups, get_placement_group, list_placement_group_policies,
    create_placement_group, update_placement_group, delete_placement_group, list_ssh_keys,
    get_ssh_key, create_ssh_key, import_ssh_key, delete_ssh_key
}

(* The tools as each cached list sees them; many look alike. *)
Views == [list \in DOMAIN Shows |-> {SeenBy(list, Shows[list], tool) : tool \in Tools}]

=============================================================================
