---------------------------- MODULE KollaAddress ----------------------------
(***************************************************************************)
(* kolla_ansible/kolla_address.py and the configuration files that name    *)
(* the hosts of a group by it: every host renders the addresses of all,    *)
(* from facts that were gathered at different times, while keepalived      *)
(* moves the VIP from host to host.  An address is the host it belongs to. *)
(***************************************************************************)
EXTENDS Naturals, Sequences, FiniteSetsExt

CONSTANT Hosts

Vip == "vip"
LinkLocal == "link-local"
NoneFound == "missing"

ASSUME AddressAssumption == Hosts \cap {Vip, LinkLocal, NoneFound} = {}

VARIABLES
    family,      \* network_address_family
    haproxy,     \* enable_haproxy
    spelled,     \* kolla_internal_vip_address is written as the facts write it
    addresses,   \* of each host's api interface, in the order the kernel lists them
    facts,       \* ansible_facts of each host: addresses, when they were gathered
    rendered,    \* each host's file: the address it has for every host
    rendering    \* how the last rendering ended

addressVars == <<family, haproxy, spelled, addresses, facts, rendered, rendering>>
config == <<family, haproxy, spelled>>

Has(h, a) == \E i \in DOMAIN addresses[h] : addresses[h][i] = a

AddressInit ==
    /\ family \in {"ipv4", "ipv6"}
    /\ haproxy \in BOOLEAN
    /\ spelled \in BOOLEAN
    /\ addresses = [h \in Hosts |-> <<h>>]
    /\ facts = [h \in Hosts |-> <<>>]
    /\ rendered = [h \in Hosts |-> <<>>]
    /\ rendering = "none"

-----------------------------------------------------------------------------
(* The hosts                                                               *)

\* keepalived takes the VIP, the first or the last address, off the interface.
WithoutVip(s) ==
    IF s = <<>> THEN s
    ELSE IF s[1] = Vip THEN Tail(s)
    ELSE IF s[Len(s)] = Vip THEN SubSeq(s, 1, Len(s) - 1)
    ELSE s

\* ... and moves it: a secondary address in IPv4, before or after the others in IPv6.
Failover(h) ==
    /\ haproxy /\ Has(h, h) /\ ~Has(h, Vip)
    /\ \E first \in BOOLEAN :
          /\ family = "ipv4" => ~first
          /\ addresses' = [g \in Hosts |->
                IF g = h THEN IF first THEN <<Vip>> \o addresses[g] ELSE Append(addresses[g], Vip)
                ELSE WithoutVip(addresses[g])]
    /\ UNCHANGED <<config, facts, rendered, rendering>>

\* The interface loses its address, and gets it back.
LosesAddress(h) ==
    /\ addresses[h] = <<h>>
    /\ addresses' = [addresses EXCEPT ![h] = IF family = "ipv6" THEN <<LinkLocal>> ELSE <<>>]
    /\ UNCHANGED <<config, facts, rendered, rendering>>

GetsAddress(h) ==
    /\ ~Has(h, h)
    /\ addresses' = [addresses EXCEPT ![h] = <<h>> \o @]
    /\ UNCHANGED <<config, facts, rendered, rendering>>

\* gather-facts.yml
Gather(h) ==
    /\ facts' = [facts EXCEPT ![h] = addresses[h]]
    /\ UNCHANGED <<config, addresses, rendered, rendering>>

-----------------------------------------------------------------------------
(* kolla_address                                                           *)

\* vip_addresses: without haproxy kolla_internal_vip_address is the host's own.
VipAddresses(h) == IF haproxy /\ spelled THEN {Vip} ELSE {}

\* Fault: the first global address.
GlobalAddressesAll(h) == {i \in DOMAIN facts[h] : facts[h][i] # LinkLocal}

\* global_ipv6_addresses, by their places among the addresses
GlobalAddresses(h) ==
    {i \in DOMAIN facts[h] : facts[h][i] # LinkLocal /\ facts[h][i] \notin VipAddresses(h)}

kolla_address(h) ==
    LET found == IF family = "ipv4" THEN DOMAIN facts[h] ELSE GlobalAddresses(h)
    IN  IF found = {} THEN NoneFound ELSE facts[h][Min(found)]

\* A template with kolla_address(host) for every host of the group, such as
\* galera.cnf.j2: one FilterError fails the task.
Render(g) ==
    /\ IF \E h \in Hosts : kolla_address(h) = NoneFound
         THEN rendering' = "failed" /\ UNCHANGED rendered
         ELSE /\ rendering' = "ok"
              /\ rendered' = [rendered EXCEPT ![g] = [h \in Hosts |-> kolla_address(h)]]
    /\ UNCHANGED <<config, addresses, facts>>

AddressNext == \E h \in Hosts : \/ Failover(h) \/ LosesAddress(h) \/ GetsAddress(h)
                         \/ Gather(h) \/ Render(h)

AddressSpec == AddressInit /\ [][AddressNext]_addressVars

-----------------------------------------------------------------------------
(* Properties                                                              *)

\* "explicitly exclude the vip addresses": whichever host had the VIP when its
\* facts were gathered, a file names every host by its own address, so that any
\* two hosts' files agree, provided an IPv6 VIP is written in the inventory as the
\* facts write it.
PeersByOwnAddress ==
    spelled \/ family = "ipv4" =>
        \A g \in Hosts : rendered[g] # <<>> => \A h \in Hosts : rendered[g][h] = h

\* A rendering fails only for a host whose facts do not show its address.
FailStep ==
    rendering' = "failed" /\ rendering # "failed"
        => \E h \in Hosts : \A i \in DOMAIN facts[h] : facts[h][i] # h

\* Every rendered file names every host by its own address, and a rendering fails
\* only for a host whose facts do not show its address.
OwnAddresses == [][PeersByOwnAddress' /\ FailStep]_addressVars

=============================================================================
