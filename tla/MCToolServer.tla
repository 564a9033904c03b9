---------------------------- MODULE MCToolServer ---------------------------
(***************************************************************************)
(* The tools of the five servers with two overlapping calls of the service *)
(* account and a user, in the default region.                              *)
(***************************************************************************)
EXTENDS ToolServer, TLC

CONSTANTS t1, t2, service, alice, HCM

Vserver == INSTANCE VserverTools
Vbackup == INSTANCE VbackupTools
Vdb == INSTANCE VdbTools
Vks == INSTANCE VksTools
Vmonitor == INSTANCE VmonitorTools

MCTables == [
    vserver  |-> Vserver!Views,
    vbackup  |-> Vbackup!Views,
    vdb      |-> Vdb!Views,
    vks      |-> [list \in DOMAIN Vks!Shows |-> Vks!Views[list] \ {Vks!LateChecked[list]}],
    vmonitor |-> Vmonitor!Views]

\* a list of a server: two servers may have lists of one name
MCLists == UNION {{server} \X DOMAIN MCTables[server] : server \in DOMAIN MCTables}
MCPlans == [list \in MCLists |-> MCTables[list[1]][list[2]]]

MCCallers == {<<service, HCM>>, <<alice, HCM>>}

\* the lists that every tool changing them invalidates, and one of each
\* server whose lists no tool of its own changes
MCMaintained == {
    <<"vserver", "list_subnets">>, <<"vserver", "list_security_groups">>,
    <<"vserver", "list_ssh_keys">>, <<"vbackup", "list_protected_servers">>,
    <<"vbackup", "list_protected_databases">>,
    <<"vdb", "list_relational_configuration_params">>, <<"vks", "list_subnets">>,
    <<"vmonitor", "uncached">>}
MCVpcs == {<<"vserver", "list_vpcs">>}

MCSymmetry == Permutations({t1, t2})

=============================================================================
