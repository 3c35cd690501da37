--------------------------- MODULE KeystoneGroup ---------------------------
(* groups['keystone'], the hosts that share their fernet keys.             *)
EXTENDS Naturals

CONSTANT N   \* number of hosts

Hosts == 1 .. N   \* in the order of the group

=============================================================================
