----------------------------- MODULE FilesProofs -----------------------------
(***************************************************************************)
(* What the tools on data promise, for every parameter, password and host: *)
(* generate_module (CommonOptions), the password tools (Passwords) and the *)
(* addresses in rendered files (KollaAddress).                             *)
(***************************************************************************)
EXTENDS CommonOptions, KollaAddress, Passwords, SequenceTheorems,
        WellFoundedInduction, TLAPS

-----------------------------------------------------------------------------
(* generate_module                                                         *)

\* args have for k what the inventory has.
AsInventory(args, k) ==
    /\ k \in DOMAIN args <=> k \in DOMAIN common
    /\ k \in DOMAIN common => args[k] = common[k]

\* What the loop has merged: the parameters it has seen, and no others.
Merged(args, k) ==
    IF given[k] # NoValue THEN k \in DOMAIN args /\ args[k] = given[k]
                          ELSE Inherits(args, k)

LoopMerged ==
    \A j \in 1 .. 7 : IF j <= seen THEN Merged(new_args, Parameters[j])
                                   ELSE AsInventory(new_args, Parameters[j])

OptionsInv ==
    /\ given \in Given /\ common \in Common
    /\ seen \in 0 .. 8
    /\ seen <= 7 => LoopMerged
    /\ seen = 8 => OptionsMerged

\* The parameters are seven different ones.
LEMMA SevenParameters ==
    /\ Len(Parameters) = 7
    /\ \A i, j \in 1 .. 7 : i # j => Parameters[i] # Parameters[j]
    /\ Parameters[1] = "restart_retries"
    /\ \A j \in 1 .. 7 : Parameters[j] # "environment"
  BY DEF Parameters

\* The loop's body sets its parameter only: to the task's value, or to a number
\* for a text of digits, or to the default.
LEMMA MergeEffect ==
    ASSUME NEW k, AsInventory(new_args, k), NEW m, m = MergeParameter(k, given[k])
    PROVE  /\ \A x : x # k => /\ x \in DOMAIN m <=> x \in DOMAIN new_args
                              /\ x \in DOMAIN new_args => m[x] = new_args[x]
           /\ Merged(m, k)
<1> DEFINE v == given[k]
<1>1. CASE v # NoValue
  <2>1. m = Set(new_args, k, v)
    BY <1>1 DEF MergeParameter
  <2> QED
    BY <1>1, <2>1 DEF Set, Merged
<1>2. CASE v = NoValue /\ k \in DOMAIN common_options_defaults /\ k \in DOMAIN new_args
  <2>1. m = IF IsDigit(new_args[k]) THEN Set(new_args, k, ToInt(new_args[k])) ELSE new_args
    BY <1>2 DEF MergeParameter
  <2>2. k \in DOMAIN common /\ new_args[k] = common[k]
    BY <1>2 DEF AsInventory
  <2> QED
    BY <1>2, <2>1, <2>2 DEF Set, Merged, Inherits
<1>3. CASE v = NoValue /\ k \in DOMAIN common_options_defaults \ DOMAIN new_args
  <2>1. m = IF common_options_defaults[k] # NoValue
            THEN Set(new_args, k, common_options_defaults[k]) ELSE new_args
    BY <1>3 DEF MergeParameter
  <2>2. k \notin DOMAIN common
    BY <1>3 DEF AsInventory
  <2> QED
    BY <1>3, <2>1, <2>2 DEF Set, Merged, Inherits
<1>4. CASE v = NoValue /\ k \notin DOMAIN common_options_defaults
  <2>1. m = new_args
    BY <1>4 DEF MergeParameter
  <2> QED
    BY <1>4, <2>1 DEF AsInventory, Merged, Inherits
<1> QED
  BY <1>1, <1>2, <1>3, <1>4

\* One turn of the loop.
LEMMA OptionMerged ==
    ASSUME OptionsInv, MergeOption
    PROVE  OptionsInv'
<1>1. seen \in 0 .. 6 /\ seen' = seen + 1 /\ UNCHANGED <<given, common, envs>>
  BY SevenParameters DEF MergeOption, OptionsInv
<1>2. LoopMerged
  BY <1>1 DEF OptionsInv
<1>3. PICK k : k = Parameters[seen + 1]
  OBVIOUS
<1>4. PICK m : m = new_args'
  OBVIOUS
<1>5. /\ \A x : x # k => /\ x \in DOMAIN m <=> x \in DOMAIN new_args
                         /\ x \in DOMAIN new_args => m[x] = new_args[x]
      /\ Merged(m, k)
  <2>1. m = MergeParameter(k, given[k])
    BY <1>3, <1>4 DEF MergeOption
  <2>2. AsInventory(new_args, k)
    BY <1>1, <1>2, <1>3 DEF LoopMerged
  <2> QED
    BY <2>1, <2>2, MergeEffect
<1>6. \A j \in 1 .. 7 : IF j <= seen + 1 THEN Merged(m, Parameters[j])
                                        ELSE AsInventory(m, Parameters[j])
  <2> SUFFICES ASSUME NEW j \in 1 .. 7, j # seen + 1
               PROVE  IF j <= seen + 1 THEN Merged(m, Parameters[j])
                                       ELSE AsInventory(m, Parameters[j])
    BY <1>1, <1>3, <1>5
  <2>1. PICK p : p = Parameters[j]
    OBVIOUS
  <2>2. p # k
    BY <1>1, <1>3, <2>1, SevenParameters
  <2>3. IF j <= seen THEN Merged(new_args, p) ELSE AsInventory(new_args, p)
    BY <1>2, <2>1 DEF LoopMerged
  <2>4. /\ p \in DOMAIN m <=> p \in DOMAIN new_args
        /\ p \in DOMAIN new_args => m[p] = new_args[p]
    BY <1>5, <2>2
  <2>5. Merged(new_args, p) => Merged(m, p)
    BY <2>4 DEF Merged, Inherits
  <2>6. AsInventory(new_args, p) => AsInventory(m, p)
    BY <2>4 DEF AsInventory
  <2>7. j <= seen + 1 <=> j <= seen
    BY <1>1
  <2> QED
    BY <2>1, <2>3, <2>5, <2>6, <2>7
<1>7. LoopMerged'
  BY <1>1, <1>4, <1>6 DEF LoopMerged, Merged, Inherits, AsInventory
<1>8. given' \in Given /\ common' \in Common /\ seen' \in 0 .. 8 /\ seen' # 8
  BY <1>1 DEF OptionsInv
<1> QED
  BY <1>7, <1>8 DEF OptionsInv

\* The end of generate_module.
LEMMA OptionsFinished ==
    ASSUME OptionsInv, Finish
    PROVE  OptionsInv'
<1>1. seen = 7 /\ seen' = 8 /\ UNCHANGED <<given, common, envs>>
  <2>1. seen = Len(Parameters) /\ seen' = seen + 1 /\ UNCHANGED <<given, common, envs>>
    BY DEF Finish
  <2> QED
    BY <2>1, SevenParameters
<1> DEFINE falsy == {k \in {"pid_mode", "ipc_mode"} \cap DOMAIN new_args : new_args[k][2] = ""}
           env == Overlay(envs[2], envs[1])
<1>2. new_args' = Set([k \in DOMAIN new_args \ falsy |-> new_args[k]],
                      "environment", <<"dict", env>>)
  BY DEF Finish
<1> HIDE DEF env
<1>3. /\ DOMAIN new_args' = (DOMAIN new_args \ falsy) \cup {"environment"}
      /\ \A k \in DOMAIN new_args \ falsy : k # "environment" => new_args'[k] = new_args[k]
      /\ new_args'["environment"] = <<"dict", env>>
  BY <1>2 DEF Set
<1>4. LoopMerged
  BY <1>1 DEF OptionsInv
<1>5. ASSUME NEW k \in DOMAIN given
      PROVE  /\ Merged(new_args, k) /\ k # "environment"
             /\ k \in DOMAIN new_args' <=> k \in DOMAIN new_args \ falsy
             /\ k \in DOMAIN new_args' => new_args'[k] = new_args[k]
  <2>1. PICK j \in 1 .. 7 : k = Parameters[j]
    <3>1. given \in Given
      BY DEF OptionsInv
    <3>2. DOMAIN given = {Parameters[j] : j \in 1 .. 7}
      BY <3>1, OptionsAssumption, SevenParameters
    <3> QED
      BY <3>2
  <2>2. Merged(new_args, k) /\ k # "environment"
    BY <1>1, <1>4, <2>1, SevenParameters DEF LoopMerged
  <2> QED
    BY <1>3, <2>2
<1>9. ASSUME NEW k \in DOMAIN given, given[k] # NoValue
      PROVE  IF k \in {"pid_mode", "ipc_mode"} /\ given[k][2] = ""
             THEN k \notin DOMAIN new_args' ELSE new_args'[k] = given[k]
  BY <1>5, <1>9 DEF Merged
<1>10. ASSUME NEW k \in DOMAIN given, given[k] = NoValue
       PROVE  IF k \in {"pid_mode", "ipc_mode"} \cap DOMAIN common /\ common[k][2] = ""
              THEN k \notin DOMAIN new_args' ELSE Inherits(new_args', k)
  <2>1. Inherits(new_args, k)
    BY <1>5, <1>10 DEF Merged
  <2>2. k \in {"pid_mode", "ipc_mode"} => k \notin DOMAIN common_options_defaults
    BY DEF common_options_defaults
  <2>3. k \in falsy <=> /\ k \in {"pid_mode", "ipc_mode"} \cap DOMAIN common
                        /\ common[k][2] = ""
    BY <2>1, <2>2 DEF Inherits
  <2> HIDE DEF falsy
  <2>4. k \notin falsy => Inherits(new_args', k)
    BY <1>5, <2>1 DEF Inherits
  <2>5. k \in falsy => k \notin DOMAIN new_args'
    BY <1>5
  <2> QED
    BY <2>3, <2>4, <2>5
<1>6. /\ \A k \in DOMAIN envs[2] : new_args'["environment"][2][k] = envs[2][k]
      /\ \A k \in DOMAIN envs[1] \ DOMAIN envs[2] :
            new_args'["environment"][2][k] = envs[1][k]
  <2>1. /\ \A k \in DOMAIN envs[2] : env[k] = envs[2][k]
        /\ \A k \in DOMAIN envs[1] \ DOMAIN envs[2] : env[k] = envs[1][k]
    BY DEF env, Overlay
  <2>2. new_args'["environment"][2] = env
    <3>1. <<"dict", env>>[2] = env
      OBVIOUS
    <3> QED
      BY <1>3, <3>1, Zenon
  <2> QED
    BY <2>1, <2>2
<1>7. \/ new_args'["restart_retries"][1] = "int"
      \/ /\ given["restart_retries"] = NoValue
         /\ common["restart_retries"][1] = "str"
         /\ common["restart_retries"][2] \notin DOMAIN Digits
  <2>1. Merged(new_args, "restart_retries")
    BY <1>1, <1>4, SevenParameters DEF LoopMerged
  <2>2. "restart_retries" \notin falsy /\ "restart_retries" # "environment"
    OBVIOUS
  <2>3. CASE given["restart_retries"] # NoValue
    <3>1. given["restart_retries"][1] = "int"
      BY <2>3, OptionsAssumption DEF OptionsInv
    <3> QED
      BY <1>3, <2>1, <2>2, <2>3, <3>1 DEF Merged
  <2>4. CASE given["restart_retries"] = NoValue
    <3>1. "restart_retries" \in DOMAIN common =>
               common["restart_retries"][1] \in {"int", "str"}
      BY OptionsAssumption DEF OptionsInv
    <3>2. /\ "restart_retries" \in DOMAIN common_options_defaults
          /\ common_options_defaults["restart_retries"] = <<"int", "10">>
          /\ common_options_defaults["restart_retries"] # NoValue
      BY DEF common_options_defaults, NoValue
    <3>3. Inherits(new_args, "restart_retries")
      BY <2>1, <2>4 DEF Merged
    <3>4. /\ "restart_retries" \in DOMAIN new_args
          /\ \/ new_args["restart_retries"][1] = "int"
             \/ /\ common["restart_retries"][1] = "str"
                /\ common["restart_retries"][2] \notin DOMAIN Digits
      BY <3>1, <3>2, <3>3 DEF Inherits, IsDigit, ToInt
    <3> QED
      BY <1>3, <2>2, <2>4, <3>4
  <2> QED
    BY <2>3, <2>4
<1>8. OptionsMerged'
  BY <1>1, <1>6, <1>7, <1>9, <1>10
     DEF OptionsMerged, TaskWins, InventoryElse, Inherits, NumbersAreInts
<1> QED
  BY <1>1, <1>8 DEF OptionsInv

\* generate_module, for every task, inventory and environment: a parameter is the
\* task's, else the inventory's, else the default, and the numbers the systemd worker
\* divides are numbers, wherever they come from.
THEOREM OptionsAreMerged == OptionsSpec => []OptionsMerged
<1>1. OptionsInit => OptionsInv
  BY DEF OptionsInit, OptionsInv, LoopMerged, AsInventory
<1>2. ASSUME OptionsInv, [OptionsNext]_optionVars
      PROVE  OptionsInv'
  <2>1. CASE UNCHANGED optionVars
    BY <1>2, <2>1 DEF optionVars, OptionsInv, LoopMerged, Merged, AsInventory,
                      OptionsMerged, TaskWins, InventoryElse, Inherits, NumbersAreInts,
                      Finished
  <2> QED
    BY <1>2, <2>1, OptionMerged, OptionsFinished DEF OptionsNext
<1>3. OptionsInv => OptionsMerged
  <2>1. seen \in Int => (Finished <=> seen > 7)
    BY SevenParameters DEF Finished
  <2>2. seen \in 0 .. 8 => seen \in Int /\ (seen = 8 \/ ~(seen > 7))
    OBVIOUS
  <2> QED
    BY <2>1, <2>2 DEF OptionsInv, OptionsMerged, TaskWins, InventoryElse, NumbersAreInts
<1> QED
  BY <1>1, <1>2, <1>3, PTL DEF OptionsSpec

-----------------------------------------------------------------------------
(* Addresses                                                               *)

\* An interface, or the facts of one, shows the host's address, the VIP and the
\* link-local one; in IPv4 the host's comes first, and without haproxy there is
\* no VIP.
Shows(h, s) ==
    /\ s \in Seq({h, Vip, LinkLocal})
    /\ family = "ipv4" /\ s # <<>> => s[1] = h
    /\ ~haproxy => \A i \in 1 .. Len(s) : s[i] # Vip

AddressInv ==
    /\ family \in {"ipv4", "ipv6"}
    /\ DOMAIN addresses = Hosts /\ DOMAIN facts = Hosts /\ DOMAIN rendered = Hosts
    /\ \A h \in Hosts : Shows(h, addresses[h]) /\ Shows(h, facts[h])
    /\ PeersByOwnAddress

\* A set of places has a first one.
LEMMA FirstPlace ==
    ASSUME NEW S \in SUBSET Nat, S # {}
    PROVE  Min(S) \in S /\ \A y \in S : Min(S) <= y
<1>1. PICK x \in S : \A y \in S : ~(<<y, x>> \in OpToRel(<, Nat))
  BY NatLessThanWellFounded, WFMin
<1>2. \A y \in S : ~(y < x)
  BY <1>1 DEF OpToRel
<1>3. \A y \in S : x <= y
  BY <1>2
<1> QED
  BY <1>3 DEF Min

\* Taking the VIP off leaves the rest as it was.
LEMMA VipGone ==
    ASSUME NEW h \in Hosts, NEW s, Shows(h, s)
    PROVE  Shows(h, WithoutVip(s))
<1> DEFINE A == {h, Vip, LinkLocal}
<1>1. s \in Seq(A) /\ h # Vip
  BY AddressAssumption DEF Shows
<1>2. CASE s = <<>>
  BY <1>2 DEF WithoutVip
<1>3. CASE s # <<>> /\ s[1] = Vip
  <2>1. WithoutVip(s) = Tail(s) /\ Tail(s) \in Seq(A)
    BY <1>1, <1>3 DEF WithoutVip
  <2>2. family # "ipv4" /\ haproxy
    BY <1>1, <1>3 DEF Shows
  <2> QED
    BY <2>1, <2>2 DEF Shows
<1>4. CASE s # <<>> /\ s[1] # Vip /\ s[Len(s)] = Vip
  <2>1. WithoutVip(s) = SubSeq(s, 1, Len(s) - 1)
    BY <1>4 DEF WithoutVip
  <2>2. /\ SubSeq(s, 1, Len(s) - 1) \in Seq(A)
        /\ SubSeq(s, 1, Len(s) - 1)[1] = s[1]
    <3>1. Len(s) \in Nat /\ Len(s) # 0 /\ Len(s) # 1
      BY <1>1, <1>4
    <3> HIDE DEF A
    <3>2. \A i \in 1 .. Len(s) : s[i] \in A
      BY <1>1
    <3> DEFINE n == Len(s) - 1
    <3>3. n \in Int /\ 1 <= n /\ n <= Len(s)
      BY <3>1
    <3> HIDE DEF n
    <3>6. \A i \in 1 .. n : s[i] \in A
      BY <3>1, <3>2, <3>3
    <3>4. SubSeq(s, 1, n) \in Seq(A) /\ \A i \in 1 .. n - 1 + 1 : SubSeq(s, 1, n)[i] = s[1 + i - 1]
      BY <3>3, <3>6, SubSeqProperties
    <3>5. SubSeq(s, 1, n)[1] = s[1]
      BY <3>3, <3>4
    <3> QED
      BY <3>4, <3>5 DEF n
  <2>3. haproxy
    BY <1>1, <1>4 DEF Shows
  <2> QED
    BY <1>4, <2>1, <2>2, <2>3 DEF Shows
<1>5. CASE s # <<>> /\ s[1] # Vip /\ s[Len(s)] # Vip
  BY <1>5 DEF WithoutVip
<1> QED
  BY <1>2, <1>3, <1>4, <1>5

\* What the interface of a host may become.
LEMMA InterfaceSteps ==
    ASSUME NEW h \in Hosts, NEW s, Shows(h, s)
    PROVE  /\ haproxy /\ s # <<>> => Shows(h, Append(s, Vip))
           /\ haproxy /\ family # "ipv4" => Shows(h, <<Vip>> \o s)
           /\ Shows(h, <<>>)
           /\ family # "ipv4" => Shows(h, <<LinkLocal>>)
           /\ Shows(h, <<h>> \o s)
<1> DEFINE A == {h, Vip, LinkLocal}
<1>1. s \in Seq(A) /\ h # Vip
  BY AddressAssumption DEF Shows
<1>2. haproxy /\ s # <<>> => Shows(h, Append(s, Vip))
  <2>1. Append(s, Vip) \in Seq(A) /\ (s # <<>> => Append(s, Vip)[1] = s[1])
    BY <1>1
  <2> QED
    BY <2>1 DEF Shows
<1>3. haproxy /\ family # "ipv4" => Shows(h, <<Vip>> \o s)
  <2>1. <<Vip>> \o s \in Seq(A)
    BY <1>1
  <2> QED
    BY <2>1 DEF Shows
<1>4. Shows(h, <<>>)
  BY DEF Shows
<1>5. family # "ipv4" => Shows(h, <<LinkLocal>>)
  <2>1. <<LinkLocal>> \in Seq(A) /\ Len(<<LinkLocal>>) = 1
    OBVIOUS
  <2>2. LinkLocal # Vip
    BY DEF LinkLocal, Vip
  <2> QED
    BY <2>1, <2>2 DEF Shows
<1>6. Shows(h, <<h>> \o s)
  <2>1. <<h>> \o s \in Seq(A) /\ (<<h>> \o s)[1] = h
    BY <1>1
  <2>2. Len(<<h>> \o s) = Len(s) + 1 /\ Len(s) \in Nat
    BY <1>1
  <2>3. ASSUME ~haproxy, NEW i \in 1 .. Len(<<h>> \o s)
        PROVE  (<<h>> \o s)[i] # Vip
    <3>1. CASE i = 1
      BY <1>1, <2>1, <3>1
    <3>2. CASE i # 1
      <4>1. (<<h>> \o s)[i] = s[i - 1] /\ i - 1 \in 1 .. Len(s)
        BY <1>1, <2>2, <3>2
      <4> QED
        BY <2>3, <4>1 DEF Shows
    <3> QED
      BY <3>1, <3>2
  <2> QED
    BY <2>1, <2>3 DEF Shows
<1> QED
  BY <1>2, <1>3, <1>4, <1>5, <1>6

\* An address that kolla_address finds is the host's own.
LEMMA OwnAddress ==
    ASSUME AddressInv, spelled \/ family = "ipv4", NEW h \in Hosts, kolla_address(h) # NoneFound
    PROVE  kolla_address(h) = h
<1> DEFINE s == facts[h]
           found == IF family = "ipv4" THEN DOMAIN s ELSE GlobalAddresses(h)
<1>1. Shows(h, s)
  BY DEF AddressInv
<1>2. s \in Seq({h, Vip, LinkLocal}) /\ DOMAIN s = 1 .. Len(s) /\ Len(s) \in Nat
  BY <1>1 DEF Shows
<1>3. found # {} /\ kolla_address(h) = s[Min(found)]
  BY DEF kolla_address
<1>4. found \in SUBSET Nat /\ found \subseteq 1 .. Len(s)
  BY <1>2 DEF GlobalAddresses
<1>5. Min(found) \in found /\ \A y \in found : Min(found) <= y
  <2> HIDE DEF found
  <2> QED
    BY <1>3, <1>4, FirstPlace
<1>6. CASE family = "ipv4"
  <2>1. 1 \in found /\ Min(found) \in 1 .. Len(s)
    BY <1>2, <1>3, <1>5, <1>6
  <2>2. Min(found) = 1
    <3> HIDE DEF found
    <3> QED
      BY <1>2, <1>5, <2>1
  <2>3. s # <<>>
    BY <1>2, <1>3, <1>4
  <2> QED
    BY <1>1, <1>3, <1>6, <2>2, <2>3 DEF Shows
<1>7. CASE family # "ipv4"
  <2> DEFINE m == Min(found)
  <2>1. m \in 1 .. Len(s) /\ s[m] # LinkLocal /\ s[m] \notin VipAddresses(h)
    BY <1>4, <1>5, <1>7 DEF GlobalAddresses
  <2>2. s[m] \in {h, Vip, LinkLocal}
    BY <1>2, <2>1
  <2>3. s[m] # Vip
    BY <1>1, <1>7, <2>1 DEF Shows, VipAddresses
  <2> QED
    BY <1>3, <2>1, <2>2, <2>3
<1> QED
  BY <1>6, <1>7

\* A rendering gives every host its own address or fails for one without.
LEMMA RenderStep ==
    ASSUME AddressInv, NEW g \in Hosts, Render(g)
    PROVE  PeersByOwnAddress' /\ FailStep
<1>1. UNCHANGED <<family, haproxy, spelled, addresses, facts>>
  BY DEF Render, config
<1>2. CASE \E h \in Hosts : kolla_address(h) = NoneFound
  <2>1. rendered' = rendered
    BY <1>2 DEF Render
  <2>2. PeersByOwnAddress'
    BY <1>1, <2>1 DEF AddressInv, PeersByOwnAddress
  <2>3. PICK h \in Hosts : kolla_address(h) = NoneFound
    BY <1>2
  <2> DEFINE s == facts[h]
             found == IF family = "ipv4" THEN DOMAIN s ELSE GlobalAddresses(h)
  <2>4. /\ s \in Seq({h, Vip, LinkLocal}) /\ DOMAIN s = 1 .. Len(s) /\ Len(s) \in Nat
        /\ h \notin {Vip, LinkLocal, NoneFound}
    BY AddressAssumption DEF AddressInv, Shows
  <2>5. found # {} => kolla_address(h) = s[Min(found)] /\ Min(found) \in found
    <3>1. found \in SUBSET Nat
      BY <2>4 DEF GlobalAddresses
    <3>2. found # {} => kolla_address(h) = s[Min(found)]
      BY DEF kolla_address
    <3> HIDE DEF found
    <3> QED
      BY <3>1, <3>2, FirstPlace
  <2>6. found \subseteq 1 .. Len(s)
    BY <2>4 DEF GlobalAddresses
  <2>7. found = {}
    <3> SUFFICES ASSUME found # {}
                 PROVE  FALSE
      OBVIOUS
    <3>1. Min(found) \in 1 .. Len(s) /\ s[Min(found)] = NoneFound
      BY <2>3, <2>5, <2>6
    <3>2. s[Min(found)] \in {h, Vip, LinkLocal}
      BY <2>4, <3>1
    <3> QED
      BY <2>4, <3>1, <3>2 DEF Vip, LinkLocal, NoneFound
  <2>8. \A i \in DOMAIN s : s[i] # h
    <3> SUFFICES ASSUME NEW i \in DOMAIN s, s[i] = h
                 PROVE  FALSE
      OBVIOUS
    <3>1. i \in found
      BY <2>4 DEF GlobalAddresses, VipAddresses
    <3> QED
      BY <2>7, <3>1
  <2> QED
    BY <2>2, <2>8 DEF FailStep
<1>3. CASE ~(\E h \in Hosts : kolla_address(h) = NoneFound)
  <2>1. /\ rendering' = "ok"
        /\ rendered' = [rendered EXCEPT ![g] = [h \in Hosts |-> kolla_address(h)]]
    BY <1>3 DEF Render
  <2>2. FailStep
    BY <2>1 DEF FailStep
  <2>3. spelled \/ family = "ipv4" => \A h \in Hosts : kolla_address(h) = h
    BY <1>3, OwnAddress
  <2>4. \A f \in Hosts : rendered'[f] = rendered[f]
                         \/ rendered'[f] = [h \in Hosts |-> kolla_address(h)]
    BY <2>1 DEF AddressInv
  <2>5. PeersByOwnAddress'
    <3> SUFFICES ASSUME spelled \/ family = "ipv4", NEW f \in Hosts, rendered'[f] # <<>>,
                        NEW h \in Hosts
                 PROVE  rendered'[f][h] = h
      BY <1>1 DEF PeersByOwnAddress
    <3>1. CASE rendered'[f] = rendered[f]
      BY <3>1 DEF AddressInv, PeersByOwnAddress
    <3>2. CASE rendered'[f] = [x \in Hosts |-> kolla_address(x)]
      BY <2>3, <3>2
    <3> QED
      BY <2>4, <3>1, <3>2
  <2> QED
    BY <2>2, <2>5
<1> QED
  BY <1>2, <1>3

\* The invariant of addresses and facts, and the step property.
LEMMA AddressStep ==
    ASSUME AddressInv, AddressNext
    PROVE  AddressInv' /\ FailStep
<1> USE DEF config
<1>1. ASSUME NEW h \in Hosts, Failover(h)
      PROVE  AddressInv' /\ FailStep
  <2>1. UNCHANGED <<family, haproxy, spelled, facts, rendered, rendering>>
    BY <1>1 DEF Failover
  <2>2. PICK first \in BOOLEAN :
           /\ family = "ipv4" => ~first
           /\ addresses' = [g \in Hosts |->
                IF g = h THEN IF first THEN <<Vip>> \o addresses[g] ELSE Append(addresses[g], Vip)
                ELSE WithoutVip(addresses[g])]
    BY <1>1 DEF Failover
  <2>3. haproxy /\ addresses[h] # <<>>
    BY <1>1 DEF Failover, Has
  <2>4. ASSUME NEW g \in Hosts
        PROVE  Shows(g, addresses'[g])
    <3>1. Shows(g, addresses[g])
      BY DEF AddressInv
    <3>2. CASE g # h
      BY <2>2, <3>1, <3>2, VipGone
    <3>3. CASE g = h /\ first
      BY <2>2, <2>3, <3>1, <3>3, InterfaceSteps
    <3>4. CASE g = h /\ ~first
      BY <2>2, <2>3, <3>1, <3>4, InterfaceSteps
    <3> QED
      BY <3>2, <3>3, <3>4
  <2>5. DOMAIN addresses' = Hosts
    BY <2>2
  <2> QED
    BY <2>1, <2>4, <2>5 DEF AddressInv, Shows, PeersByOwnAddress, FailStep
<1>2. ASSUME NEW h \in Hosts, LosesAddress(h) \/ GetsAddress(h)
      PROVE  AddressInv' /\ FailStep
  <2>1. UNCHANGED <<family, haproxy, spelled, facts, rendered, rendering>>
    BY <1>2 DEF LosesAddress, GetsAddress
  <2>2. /\ DOMAIN addresses' = Hosts
        /\ \A g \in Hosts \ {h} : addresses'[g] = addresses[g]
        /\ \/ addresses'[h] = <<>>
           \/ family # "ipv4" /\ addresses'[h] = <<LinkLocal>>
           \/ addresses'[h] = <<h>> \o addresses[h]
    BY <1>2 DEF LosesAddress, GetsAddress, AddressInv
  <2>3. Shows(h, addresses[h])
    BY DEF AddressInv
  <2>4. \A g \in Hosts : Shows(g, addresses'[g])
    BY <2>2, <2>3, InterfaceSteps DEF AddressInv
  <2> QED
    BY <2>1, <2>2, <2>4 DEF AddressInv, Shows, PeersByOwnAddress, FailStep
<1>3. ASSUME NEW h \in Hosts, Gather(h)
      PROVE  AddressInv' /\ FailStep
  BY <1>3 DEF Gather, AddressInv, Shows, PeersByOwnAddress, FailStep
<1>4. ASSUME NEW h \in Hosts, Render(h)
      PROVE  AddressInv' /\ FailStep
  <2>1. PeersByOwnAddress' /\ FailStep
    BY <1>4, RenderStep
  <2>2. UNCHANGED <<family, haproxy, addresses, facts>> /\ DOMAIN rendered' = DOMAIN rendered
    BY <1>4 DEF Render
  <2> QED
    BY <2>1, <2>2 DEF AddressInv, Shows
<1> QED
  BY <1>1, <1>2, <1>3, <1>4 DEF AddressNext

\* Whichever host had the VIP when its facts were gathered, a rendered file names
\* every host by its own address, and a rendering fails only for a host whose facts
\* do not show its address; for any number of hosts.
THEOREM RendersOwnAddresses == AddressSpec => OwnAddresses
<1>1. AddressInit => AddressInv
  <2> SUFFICES ASSUME AddressInit
               PROVE  AddressInv
    OBVIOUS
  <2>1. \A h \in Hosts : Shows(h, <<>>) /\ Shows(h, <<h>>)
    <3> SUFFICES ASSUME NEW h \in Hosts
                 PROVE  Shows(h, <<>>) /\ Shows(h, <<h>>)
      OBVIOUS
    <3>1. Shows(h, <<>>)
      BY DEF Shows
    <3>2. <<h>> \o <<>> = <<h>>
      OBVIOUS
    <3>3. Shows(h, <<h>>)
      BY <3>1, <3>2, InterfaceSteps
    <3> QED
      BY <3>1, <3>3
  <2> QED
    BY <2>1 DEF AddressInit, AddressInv, PeersByOwnAddress
<1>2. ASSUME AddressInv, [AddressNext]_addressVars
      PROVE  AddressInv' /\ [PeersByOwnAddress' /\ FailStep]_addressVars
  <2>1. CASE AddressNext
    BY <1>2, <2>1, AddressStep DEF AddressInv
  <2>2. CASE UNCHANGED addressVars
    BY <1>2, <2>2 DEF addressVars, AddressInv, Shows, PeersByOwnAddress
  <2> QED
    BY <1>2, <2>1, <2>2
<1> QED
  BY <1>1, <1>2, PTL DEF AddressSpec, OwnAddresses

-----------------------------------------------------------------------------
(* The password tools                                                      *)

Rewriting == pc \in {"remove", "open", "write"}
Generated(d) == [k \in DOMAIN d |-> Generate(k, d[k])]
Emptied == [k \in DOMAIN deployed |-> IF k \in edited THEN NoPassword ELSE deployed[k]]
Upgrade(clean) == MergePasswords(deployed, Generated(Template), clean)

\* Of any workflow: the shape of the state, and that the saved copy is no target.
ToolInv ==
    /\ workflow \in {"upgrade", "rotate", "vault"}
    /\ deployed \in Installed[workflow]
    /\ DOMAIN file = FileNames
    /\ pc \in {"idle", "read", "loop", "remove", "open", "write"}
    /\ tool = "none" <=> pc = "idle"
    /\ pc = "loop" => workflow = "vault"
    /\ target \in {"etc", "new"}
    /\ workflow \in {"upgrade", "rotate"} =>
          IF stage = "start" THEN tool = "none" /\ file.etc = Dict(deployed)
          ELSE file.old = Dict(deployed)

\* An upgrade: what is in the files at every stage, and in the tool's memory.
UpgradeInv ==
    workflow = "upgrade" =>
       /\ stage \in {"start", "saved", "copied", "generated", "finished"}
       /\ tool # "none" =>
             \/ stage = "copied" /\ tool = "genpwd" /\ target = "new"
             \/ stage = "generated" /\ tool \in {"mergepwd", "mergepwd --clean"} /\ target = "etc"
       /\ stage = "copied" =>
             /\ file.new \in {Dict(Template), NoFile, EmptyFile}
             /\ Rewriting => buf = Generated(Template)
       /\ stage = "generated" =>
             /\ file.new = Dict(Generated(Template))
             /\ Rewriting => buf = Upgrade(tool = "mergepwd --clean")
       /\ stage = "finished" => file.etc \in {Dict(Upgrade(TRUE)), Dict(Upgrade(FALSE))}

RotateInv ==
    workflow = "rotate" =>
       /\ stage \in {"start", "saved", "edited", "finished"}
       /\ tool # "none" => stage = "edited" /\ tool = "genpwd" /\ target = "etc"
       /\ stage = "edited" =>
             /\ file.etc \in {Dict(Emptied), NoFile, EmptyFile}
             /\ Rewriting => buf = Generated(Emptied) /\ ~SshKeyIsText(Emptied)
       /\ stage = "finished" => file.etc = Dict(Generated(Emptied)) /\ ~SshKeyIsText(Emptied)

\* With Vault: what the loops of writepwd and readpwd have done so far.
VaultInv ==
    workflow = "vault" =>
       /\ stage = "start"
       /\ tool \in {"none", "readpwd", "writepwd"}
       /\ target = "etc"
       /\ VaultAgrees
       /\ tool = "writepwd" /\ pc # "read" =>
             /\ pc = "loop" /\ buf = before /\ todo \subseteq DOMAIN buf
             /\ \A k \in DOMAIN buf \ todo :
                   Falsy(buf[k]) \/ (k \in DOMAIN vault /\ vault[k] = buf[k])
       /\ tool = "readpwd" /\ pc # "read" =>
             /\ todo \subseteq DOMAIN before /\ DOMAIN buf = DOMAIN before \ todo
             /\ pc # "loop" => todo = {}
             /\ \A k \in DOMAIN buf :
                   buf[k] = IF k \in DOMAIN vault THEN vault[k] ELSE NoPassword

PasswordsInv == ToolInv /\ UpgradeInv /\ RotateInv /\ VaultInv

\* Where a tool's end leads, by stage.
LEMMA AtItsEnd ==
    \A how \in {"ok", "failed"} : Ends(how) =>
       /\ tool' = "none" /\ pc' = "idle" /\ status' = how
       /\ stage = "start" => stage' = "start"
       /\ stage = "copied" => stage' = IF how = "ok" THEN "generated" ELSE "saved"
       /\ stage = "generated" => stage' = IF how = "ok" THEN "finished" ELSE "generated"
       /\ stage = "edited" => stage' = IF how = "ok" THEN "finished" ELSE "saved"
  BY DEF Ends, AfterOk, AfterFailure

\* Where a kill leads.
LEMMA AfterKill ==
    /\ AfterFailure["start"] = "start" /\ AfterFailure["copied"] = "saved"
    /\ AfterFailure["generated"] = "generated" /\ AfterFailure["edited"] = "saved"
  BY DEF AfterFailure

\* No step touches the saved copy, and none forgets what it was.
LEMMA ToolStep ==
    ASSUME ToolInv, UpgradeInv, RotateInv, VaultInv, PasswordsNext
    PROVE  ToolInv'
<1>1. CASE Save
  BY <1>1 DEF Save, Quiet, ToolInv
<1>2. CASE CopyTemplate
  BY <1>2 DEF CopyTemplate, Quiet, ToolInv
<1>3. CASE EmptyKeys
  BY <1>3 DEF EmptyKeys, Quiet, ToolInv
<1>4. CASE EditFile
  BY <1>4 DEF EditFile, ToolInv
<1>5. CASE StartTool
  BY <1>5 DEF StartTool, Start, ToolInv
<1>6. CASE Genpwd
  BY <1>6, AtItsEnd DEF Genpwd, InputFails, Goes, fixed, ToolInv, UpgradeInv, RotateInv
<1>7. CASE Mergepwd
  BY <1>7, AtItsEnd DEF Mergepwd, InputFails, Goes, fixed, ToolInv, UpgradeInv, RotateInv
<1>8. CASE ConnectVault
  BY <1>8, AtItsEnd DEF ConnectVault, Goes, fixed, ToolInv, UpgradeInv, RotateInv
<1>9. CASE VaultInputFails
  BY <1>9, AtItsEnd DEF VaultInputFails, InputFails, fixed, ToolInv, UpgradeInv, RotateInv
<1>10. CASE ReadSecret
  BY <1>10 DEF ReadSecret, Goes, fixed, ToolInv
<1>11. CASE WriteSecret
  BY <1>11, AtItsEnd DEF WriteSecret, Goes, fixed, ToolInv
<1>12. CASE RemoveFile
  BY <1>12 DEF RemoveFile, Goes, fixed, ToolInv
<1>13. CASE OpenFile
  BY <1>13 DEF OpenFile, Goes, fixed, ToolInv
<1>14. CASE WriteFile
  BY <1>14, AtItsEnd DEF WriteFile, fixed, ToolInv, UpgradeInv, RotateInv, FileNames
<1>15. CASE VaultFails
  BY <1>15, AtItsEnd DEF VaultFails, fixed, ToolInv
<1>16. CASE Kill
  BY <1>16, AfterKill DEF Kill, ToolInv, UpgradeInv, RotateInv, FileNames
<1> QED
  BY <1>1, <1>2, <1>3, <1>4, <1>5, <1>6, <1>7, <1>8, <1>9, <1>10, <1>11, <1>12,
     <1>13, <1>14, <1>15, <1>16
     DEF PasswordsNext, Operator, Tool

\* A step of an upgrade leaves the files of its stage as they should be.
LEMMA UpgradeStep ==
    ASSUME ToolInv, UpgradeInv, PasswordsNext
    PROVE  UpgradeInv'
<1>1. CASE Save
  BY <1>1 DEF Save, Quiet, UpgradeInv
<1>2. CASE CopyTemplate
  BY <1>2 DEF CopyTemplate, Quiet, ToolInv, UpgradeInv, Rewriting
<1>3. CASE EmptyKeys
  BY <1>3 DEF EmptyKeys, Quiet, UpgradeInv
<1>4. CASE EditFile
  BY <1>4 DEF EditFile, UpgradeInv
<1>5. CASE StartTool
  BY <1>5 DEF StartTool, Start, UpgradeInv, Rewriting
<1>6. CASE Genpwd
  <2> SUFFICES ASSUME workflow = "upgrade"
               PROVE  UpgradeInv'
    BY <1>6 DEF Genpwd, InputFails, fixed, UpgradeInv
  <2>1. stage = "copied" /\ target = "new" /\ tool = "genpwd"
    BY <1>6 DEF Genpwd, InputFails, ToolInv, UpgradeInv
  <2>2. UNCHANGED <<file, target, deployed, workflow>>
    BY <1>6 DEF Genpwd, InputFails, fixed
  <2>3. CASE Ends("failed")
    BY <2>1, <2>2, <2>3, AtItsEnd DEF UpgradeInv
  <2>4. CASE file[target].state = "dict" /\ Goes("remove")
             /\ buf' = [k \in DOMAIN file[target].map |-> Generate(k, file[target].map[k])]
    <3>1. file.new = Dict(Template)
      BY <2>1, <2>4 DEF UpgradeInv, Dict, NoFile, EmptyFile
    <3>2. buf' = Generated(Template)
      BY <2>1, <2>4, <3>1 DEF Dict, Generated
    <3> QED
      BY <2>1, <2>2, <2>4, <3>2 DEF UpgradeInv, Goes
  <2> QED
    BY <1>6, <2>3, <2>4 DEF Genpwd, InputFails
<1>7. CASE Mergepwd
  <2> SUFFICES ASSUME workflow = "upgrade"
               PROVE  UpgradeInv'
    BY <1>7 DEF Mergepwd, InputFails, fixed, UpgradeInv
  <2>1. stage = "generated" /\ target = "etc" /\ tool \in {"mergepwd", "mergepwd --clean"}
    BY <1>7 DEF Mergepwd, ToolInv, UpgradeInv
  <2>2. UNCHANGED <<file, target, deployed, workflow>>
    BY <1>7 DEF Mergepwd, InputFails, fixed
  <2>3. CASE Ends("failed")
    BY <2>1, <2>2, <2>3, AtItsEnd DEF UpgradeInv, Rewriting
  <2>4. CASE /\ buf' = MergePasswords(file.old.map, file.new.map, tool = "mergepwd --clean")
             /\ Goes("remove")
    <3>1. file.old.map = deployed /\ file.new.map = Generated(Template)
      <4>1. file.old = Dict(deployed)
        BY <2>1 DEF ToolInv
      <4>2. file.new = Dict(Generated(Template))
        BY <2>1 DEF UpgradeInv
      <4> QED
        BY <4>1, <4>2 DEF Dict
    <3>2. buf' = Upgrade(tool = "mergepwd --clean")
      BY <2>4, <3>1 DEF Upgrade
    <3>3. (Upgrade(tool = "mergepwd --clean"))' = Upgrade(tool = "mergepwd --clean")
      BY <2>2, <2>4 DEF Upgrade, Goes
    <3> QED
      BY <2>1, <2>2, <2>4, <3>2, <3>3 DEF UpgradeInv, Goes
  <2> QED
    BY <1>7, <2>3, <2>4 DEF Mergepwd, InputFails
<1>8. CASE ConnectVault
  BY <1>8 DEF ConnectVault, fixed, UpgradeInv
<1>9. CASE VaultInputFails
  BY <1>9 DEF VaultInputFails, InputFails, fixed, UpgradeInv
<1>10. CASE ReadSecret
  BY <1>10 DEF ReadSecret, fixed, UpgradeInv
<1>11. CASE WriteSecret
  BY <1>11 DEF WriteSecret, fixed, UpgradeInv
<1>12. CASE RemoveFile
  BY <1>12 DEF RemoveFile, Goes, fixed, ToolInv, UpgradeInv, FileNames, Rewriting, Upgrade
<1>13. CASE OpenFile
  BY <1>13 DEF OpenFile, Goes, fixed, ToolInv, UpgradeInv, FileNames, Rewriting, Upgrade
<1>14. CASE WriteFile
  BY <1>14, AtItsEnd
     DEF WriteFile, fixed, ToolInv, UpgradeInv, FileNames, Rewriting, Upgrade
<1>15. CASE VaultFails
  BY <1>15 DEF VaultFails, fixed, ToolInv, UpgradeInv
<1>16. CASE Kill
  <2> SUFFICES ASSUME workflow = "upgrade"
               PROVE  UpgradeInv'
    BY <1>16 DEF Kill, UpgradeInv
  <2>1. /\ tool' = "none" /\ pc' = "idle" /\ workflow' = "upgrade" /\ tool # "none"
        /\ stage' \in {stage, AfterFailure[stage]}
    BY <1>16 DEF Kill
  <2>2. stage' = "copied" => stage = "copied" /\ target = "new" /\ file'.new.state # "dict"
    BY <1>16, AfterKill DEF Kill, UpgradeInv
  <2>3. stage' = "copied" => UNCHANGED file
    BY <1>16, <2>2 DEF Kill, Dict, ToolInv, FileNames
  <2>4. stage' = "generated" => stage = "generated" /\ file'.new = file.new
    BY <1>16, AfterKill DEF Kill, ToolInv, UpgradeInv, FileNames
  <2>5. stage' \in {"saved", "copied", "generated"}
    BY <2>1, AfterKill DEF UpgradeInv
  <2> QED
    BY <2>1, <2>2, <2>3, <2>4, <2>5 DEF UpgradeInv, Rewriting
<1> QED
  BY <1>1, <1>2, <1>3, <1>4, <1>5, <1>6, <1>7, <1>8, <1>9, <1>10, <1>11, <1>12,
     <1>13, <1>14, <1>15, <1>16
     DEF PasswordsNext, Operator, Tool

\* A step of a rotation does, too.
LEMMA RotateStep ==
    ASSUME ToolInv, RotateInv, PasswordsNext
    PROVE  RotateInv'
<1>1. CASE Save
  BY <1>1 DEF Save, Quiet, RotateInv
<1>2. CASE CopyTemplate
  BY <1>2 DEF CopyTemplate, Quiet, RotateInv
<1>3. CASE EmptyKeys
  BY <1>3 DEF EmptyKeys, Quiet, ToolInv, RotateInv, Rewriting, Emptied, Dict
<1>4. CASE EditFile
  BY <1>4 DEF EditFile, RotateInv
<1>5. CASE StartTool
  BY <1>5 DEF StartTool, Start, RotateInv, Rewriting, Emptied
<1>6. CASE Genpwd
  <2> SUFFICES ASSUME workflow = "rotate"
               PROVE  RotateInv'
    BY <1>6 DEF Genpwd, InputFails, fixed, RotateInv
  <2>1. stage = "edited" /\ target = "etc" /\ tool = "genpwd"
    BY <1>6 DEF Genpwd, InputFails, ToolInv, RotateInv
  <2>2. UNCHANGED <<file, target, deployed, workflow, edited>>
    BY <1>6 DEF Genpwd, InputFails, fixed
  <2>3. CASE Ends("failed")
    BY <2>1, <2>2, <2>3, AtItsEnd DEF RotateInv
  <2>4. CASE /\ file[target].state = "dict" /\ Goes("remove")
             /\ ~SshKeyIsText(file[target].map)
             /\ buf' = [k \in DOMAIN file[target].map |-> Generate(k, file[target].map[k])]
    <3>1. file.etc = Dict(Emptied)
      BY <2>1, <2>4 DEF RotateInv, Dict, NoFile, EmptyFile
    <3>2. buf' = Generated(Emptied) /\ ~SshKeyIsText(Emptied)
      BY <2>1, <2>4, <3>1 DEF Dict, Generated
    <3>3. Emptied' = Emptied
      BY <2>2 DEF Emptied
    <3> QED
      BY <2>1, <2>2, <2>4, <3>1, <3>2, <3>3 DEF RotateInv, Goes
  <2> QED
    BY <1>6, <2>3, <2>4 DEF Genpwd, InputFails
<1>7. CASE Mergepwd
  BY <1>7 DEF Mergepwd, InputFails, fixed, RotateInv
<1>8. CASE ConnectVault
  BY <1>8 DEF ConnectVault, fixed, RotateInv
<1>9. CASE VaultInputFails
  BY <1>9 DEF VaultInputFails, InputFails, fixed, RotateInv
<1>10. CASE ReadSecret
  BY <1>10 DEF ReadSecret, fixed, RotateInv
<1>11. CASE WriteSecret
  BY <1>11 DEF WriteSecret, fixed, RotateInv
<1>12. CASE RemoveFile
  BY <1>12 DEF RemoveFile, Goes, fixed, ToolInv, RotateInv, Rewriting, Emptied
<1>13. CASE OpenFile
  BY <1>13 DEF OpenFile, Goes, fixed, ToolInv, RotateInv, Rewriting, Emptied
<1>14. CASE WriteFile
  BY <1>14, AtItsEnd
     DEF WriteFile, fixed, ToolInv, RotateInv, FileNames, Rewriting, Emptied
<1>15. CASE VaultFails
  BY <1>15 DEF VaultFails, fixed, ToolInv, RotateInv
<1>16. CASE Kill
  BY <1>16, AfterKill DEF Kill, ToolInv, RotateInv, FileNames, Rewriting, Dict
<1> QED
  BY <1>1, <1>2, <1>3, <1>4, <1>5, <1>6, <1>7, <1>8, <1>9, <1>10, <1>11, <1>12,
     <1>13, <1>14, <1>15, <1>16
     DEF PasswordsNext, Operator, Tool

\* The loops of writepwd and readpwd lose nothing they have done.
LEMMA VaultStep ==
    ASSUME ToolInv, VaultInv, PasswordsNext
    PROVE  VaultInv'
<1>1. CASE Save
  BY <1>1 DEF Save, Quiet, VaultInv
<1>2. CASE CopyTemplate
  BY <1>2 DEF CopyTemplate, Quiet, VaultInv
<1>3. CASE EmptyKeys
  BY <1>3 DEF EmptyKeys, Quiet, VaultInv
<1>4. CASE EditFile
  BY <1>4 DEF EditFile, VaultInv, VaultAgrees
<1>5. CASE StartTool
  BY <1>5 DEF StartTool, Start, VaultInv, VaultAgrees
<1>6. CASE Genpwd
  BY <1>6 DEF Genpwd, InputFails, fixed, VaultInv
<1>7. CASE Mergepwd
  BY <1>7 DEF Mergepwd, InputFails, fixed, VaultInv
<1>8. CASE ConnectVault
  BY <1>8, AtItsEnd DEF ConnectVault, Goes, fixed, VaultInv, VaultAgrees
<1>9. CASE VaultInputFails
  BY <1>9, AtItsEnd DEF VaultInputFails, InputFails, fixed, VaultInv, VaultAgrees
<1>10. CASE ReadSecret
  <2> SUFFICES ASSUME workflow = "vault"
               PROVE  VaultInv'
    BY <1>10 DEF ReadSecret, fixed, VaultInv
  <2>1. /\ tool = "readpwd" /\ pc = "loop"
        /\ UNCHANGED <<vault, target, before, workflow, tool, status, stage>>
    BY <1>10 DEF ReadSecret, Goes, fixed
  <2>2. CASE todo = {}
    BY <1>10, <2>1, <2>2 DEF ReadSecret, Goes, VaultInv, VaultAgrees
  <2>3. ASSUME NEW k \in todo, buf' = Secret(k, buf), todo' = todo \ {k}, pc' = "loop"
        PROVE  VaultInv'
    <3>1. DOMAIN buf' = DOMAIN before \ todo'
      BY <2>1, <2>3 DEF VaultInv, Secret, Set
    <3>2. \A x \in DOMAIN buf' :
             buf'[x] = IF x \in DOMAIN vault THEN vault[x] ELSE NoPassword
      BY <2>1, <2>3 DEF VaultInv, Secret, Set
    <3>3. todo' \subseteq DOMAIN before
      BY <2>1, <2>3 DEF VaultInv
    <3> QED
      BY <2>1, <2>3, <3>1, <3>2, <3>3 DEF VaultInv, VaultAgrees
  <2> QED
    BY <1>10, <2>2, <2>3 DEF ReadSecret, Goes
<1>11. CASE WriteSecret
  <2> SUFFICES ASSUME workflow = "vault"
               PROVE  VaultInv'
    BY <1>11 DEF WriteSecret, fixed, VaultInv
  <2>1. /\ tool = "writepwd" /\ pc = "loop" /\ buf = before
        /\ UNCHANGED <<target, buf, before, workflow>>
    BY <1>11 DEF WriteSecret, VaultInv, fixed
  <2>2. CASE todo = {}
    <3>1. Ends("ok") /\ UNCHANGED vault
      BY <1>11, <2>2 DEF WriteSecret
    <3>2. VaultAgrees'
      BY <2>1, <2>2, <3>1 DEF VaultInv, VaultAgrees
    <3> QED
      BY <2>1, <3>1, <3>2, AtItsEnd DEF VaultInv
  <2>3. ASSUME NEW k \in todo, vault' = Store(k, buf[k]), todo' = todo \ {k}, Goes("loop")
        PROVE  VaultInv'
    <3>1. \A x \in DOMAIN buf \ todo' :
             Falsy(buf[x]) \/ (x \in DOMAIN vault' /\ vault'[x] = buf[x])
      BY <2>1, <2>3 DEF VaultInv, Store, Set
    <3> QED
      BY <2>1, <2>3, <3>1 DEF VaultInv, VaultAgrees, Goes
  <2> QED
    BY <1>11, <2>2, <2>3 DEF WriteSecret
<1>12. CASE RemoveFile
  BY <1>12 DEF RemoveFile, Goes, fixed, VaultInv, VaultAgrees
<1>13. CASE OpenFile
  BY <1>13 DEF OpenFile, Goes, fixed, VaultInv, VaultAgrees
<1>14. CASE WriteFile
  <2> SUFFICES ASSUME workflow = "vault"
               PROVE  VaultInv'
    BY <1>14 DEF WriteFile, fixed, VaultInv
  <2>1. /\ tool = "readpwd" /\ pc = "write" /\ todo = {}
        /\ UNCHANGED <<vault, target, buf, before, workflow>> /\ Ends("ok")
    BY <1>14 DEF WriteFile, ToolInv, VaultInv, fixed
  <2>2. VaultAgrees'
    BY <2>1 DEF VaultInv, VaultAgrees, Falsy
  <2> QED
    BY <2>1, <2>2, AtItsEnd DEF VaultInv
<1>15. CASE VaultFails
  BY <1>15, AtItsEnd DEF VaultFails, ToolInv, VaultInv, VaultAgrees
<1>16. CASE Kill
  BY <1>16, AfterKill DEF Kill, VaultInv, VaultAgrees
<1> QED
  BY <1>1, <1>2, <1>3, <1>4, <1>5, <1>6, <1>7, <1>8, <1>9, <1>10, <1>11, <1>12,
     <1>13, <1>14, <1>15, <1>16
     DEF PasswordsNext, Operator, Tool

\* The passwords of a running cloud are None, a text or a pair of texts.
LEMMA Deployed ==
    ASSUME ToolInv, NEW k \in DOMAIN deployed
    PROVE  deployed[k] \in Password
  BY PasswordsAssumption DEF ToolInv

\* genpwd fills what is empty and is not to stay so.
LEMMA GenerateFills ==
    ASSUME NEW k, NEW v
    PROVE  /\ v = NoPassword /\ k \notin blank_keys => Generate(k, v) # NoPassword
           /\ v = Pair("", "") /\ k \in ssh_keys => Generate(k, v) # NoPassword
           /\ v = NoPassword /\ k \in blank_keys => Generate(k, v) = NoPassword
<1>1. Fresh(k) # NoPassword
  BY DEF Fresh, NoPassword, Text, Pair
<1>2. Pair("", "").public = "" /\ Pair("", "").private = ""
  BY DEF Pair
<1> QED
  BY <1>1, <1>2, PasswordsAssumption DEF Generate

\* genpwd leaves a password that is set as it is.
LEMMA GenerateKeeps ==
    ASSUME NEW k, NEW v \in Password, v \notin {NoPassword, Pair("", "")},
           k \in ssh_keys => v.kind # "text"
    PROVE  Generate(k, v) = v
<1>1. k \in ssh_keys => ~(v.public = "" /\ v.private = "")
  BY DEF Password, NoPassword, Pair
<1> QED
  BY <1>1 DEF Generate

\* A finished upgrade has the passwords that mergepwd put together.
LEMMA UpgradeIsRight == ToolInv /\ UpgradeInv => UpgradeKeeps
<1> SUFFICES ASSUME ToolInv, UpgradeInv, workflow = "upgrade", stage = "finished"
             PROVE  UpgradeKeeps
  BY DEF UpgradeKeeps
<1>1. PICK clean \in BOOLEAN : file.etc = Dict(Upgrade(clean))
  BY DEF UpgradeInv
<1> DEFINE d == Upgrade(clean)
           new == Generated(Template)
<1>2. file.etc.state = "dict" /\ file.etc.map = d
  BY <1>1 DEF Dict
<1>3. DOMAIN new = DOMAIN Template
  BY DEF Generated
<1>4. \A k \in DOMAIN Template : new[k] = NoPassword <=> k \in blank_keys
  <2> SUFFICES ASSUME NEW k \in DOMAIN Template
               PROVE  new[k] = NoPassword <=> k \in blank_keys
    OBVIOUS
  <2>1. new[k] = Generate(k, Template[k])
    BY DEF Generated
  <2> QED
    BY <2>1, GenerateFills, PasswordsAssumption
<1>5. /\ DOMAIN d = IF clean THEN DOMAIN new ELSE DOMAIN deployed \cup DOMAIN new
      /\ \A k \in DOMAIN d : d[k] = IF k \in DOMAIN deployed THEN deployed[k] ELSE new[k]
  BY DEF Upgrade, MergePasswords, Overlay
<1> HIDE DEF d, new
<1> QED
  BY <1>2, <1>3, <1>4, <1>5 DEF UpgradeKeeps

\* A finished rotation has what genpwd made of the edited file.
LEMMA RotationIsRight == ToolInv /\ RotateInv => RotationChangesOnlyEdited
<1> SUFFICES ASSUME ToolInv, RotateInv, workflow = "rotate", stage = "finished"
             PROVE  RotationChangesOnlyEdited
  BY DEF RotationChangesOnlyEdited
<1>1. file.etc = Dict(Generated(Emptied)) /\ ~SshKeyIsText(Emptied)
  BY DEF RotateInv
<1>2. file.etc.state = "dict" /\ file.etc.map = Generated(Emptied)
  BY <1>1 DEF Dict
<1>3. \A k \in DOMAIN deployed : file.etc.map[k] = Generate(k, Emptied[k])
  BY <1>2 DEF Generated, Emptied
<1>4. ASSUME NEW k \in DOMAIN deployed, k \in edited \ blank_keys
      PROVE  file.etc.map[k] # NoPassword
  BY <1>3, <1>4, GenerateFills DEF Emptied
<1>5. ASSUME NEW k \in DOMAIN deployed, k \notin edited,
             deployed[k] \notin {NoPassword, Pair("", "")}
      PROVE  file.etc.map[k] = deployed[k]
  <2>1. Emptied[k] = deployed[k] /\ k \in DOMAIN Emptied
    BY <1>5 DEF Emptied
  <2>2. k \in ssh_keys => deployed[k].kind # "text"
    BY <1>1, <2>1 DEF SshKeyIsText
  <2> QED
    BY <1>3, <1>5, <2>1, <2>2, Deployed, GenerateKeeps
<1> QED
  BY <1>2, <1>4, <1>5 DEF RotationChangesOnlyEdited

\* readpwd writes what it has read.
LEMMA ReadIsRight ==
    ASSUME PasswordsInv, PasswordsNext
    PROVE  ReadStep
<1> SUFFICES ASSUME tool = "readpwd", pc = "write", pc' = "idle", status' = "ok"
             PROVE  /\ DOMAIN file'.etc.map = DOMAIN before
                    /\ \A k \in DOMAIN before :
                          file'.etc.map[k] = IF k \in DOMAIN vault THEN vault[k]
                                                                   ELSE NoPassword
  BY DEF ReadStep, ReadpwdEnds
<1>1. workflow = "vault"
  BY DEF PasswordsInv, ToolInv, UpgradeInv, RotateInv
<1>2. /\ target = "etc" /\ DOMAIN buf = DOMAIN before
      /\ \A k \in DOMAIN buf : buf[k] = IF k \in DOMAIN vault THEN vault[k] ELSE NoPassword
  BY <1>1 DEF PasswordsInv, VaultInv
<1>3. WriteFile
  BY <1>1
     DEF PasswordsInv, ToolInv, PasswordsNext, Operator, Tool, Save, CopyTemplate,
         EmptyKeys,
              EditFile, StartTool, Start, Genpwd, InputFails, Mergepwd, ConnectVault,
              VaultInputFails, ReadSecret, WriteSecret, RemoveFile, OpenFile, VaultFails, Kill
<1>4. file'.etc = Dict(buf)
  BY <1>2, <1>3 DEF WriteFile, PasswordsInv, ToolInv, FileNames
<1> QED
  BY <1>2, <1>4 DEF Dict

\* The inductive invariant, and that a step keeps the file and Vault in agreement.
LEMMA PasswordsStep ==
    ASSUME PasswordsInv, [PasswordsNext]_passwordVars
    PROVE  PasswordsInv' /\ [VaultAgrees' /\ ReadStep]_passwordVars
<1>1. CASE PasswordsNext
  <2>1. PasswordsInv'
    BY <1>1, ToolStep, UpgradeStep, RotateStep, VaultStep DEF PasswordsInv
  <2>2. VaultAgrees'
    BY <2>1 DEF PasswordsInv, VaultInv, VaultAgrees
  <2> QED
    BY <1>1, <2>1, <2>2, ReadIsRight
<1>2. CASE UNCHANGED passwordVars
  <2>1. ToolInv'
    BY <1>2 DEF PasswordsInv, passwordVars, ToolInv
  <2>2. UpgradeInv'
    BY <1>2 DEF PasswordsInv, passwordVars, UpgradeInv, Rewriting, Upgrade
  <2>3. RotateInv'
    BY <1>2 DEF PasswordsInv, passwordVars, RotateInv, Rewriting, Emptied
  <2>4. VaultInv'
    BY <1>2 DEF PasswordsInv, passwordVars, VaultInv, VaultAgrees
  <2> QED
    BY <1>2, <2>1, <2>2, <2>3, <2>4 DEF PasswordsInv
<1> QED
  BY <1>1, <1>2

\* A workflow starts with the passwords of the cloud in passwords.yml.
LEMMA PasswordsStart == PasswordsInit => PasswordsInv
<1> SUFFICES ASSUME PasswordsInit
             PROVE  PasswordsInv
  OBVIOUS
<1>1. ToolInv
  BY DEF PasswordsInit, ToolInv, FileNames
<1>2. UpgradeInv /\ RotateInv
  BY DEF PasswordsInit, UpgradeInv, RotateInv
<1>3. VaultInv
  BY DEF PasswordsInit, VaultInv, VaultAgrees
<1> QED
  BY <1>1, <1>2, <1>3 DEF PasswordsInv

\* Wherever an upgrade or a rotation is killed, and however often it is repeated,
\* a file still has all the passwords the cloud runs with.
THEOREM PasswordsSurvive == PasswordsSpec => []DeployedSurvives
<1>1. PasswordsInv => DeployedSurvives
  BY DEF PasswordsInv, ToolInv, DeployedSurvives, Holds, Dict
<1> QED
  BY <1>1, PasswordsStart, PasswordsStep, PTL DEF PasswordsSpec

\* A finished upgrade has kept the passwords of the cloud and has every key of the
\* new release; a finished rotation has changed the emptied passwords and no others;
\* for every password file, template and set of keys, whatever was killed before.
THEOREM PasswordsChangeAsAsked == PasswordsSpec => []OnlyAskedForChange
<1>1. PasswordsInv => OnlyAskedForChange
  BY UpgradeIsRight, RotationIsRight DEF PasswordsInv, OnlyAskedForChange
<1> QED
  BY <1>1, PasswordsStart, PasswordsStep, PTL DEF PasswordsSpec

\* A writepwd that ends well leaves Vault with the passwords of the file, a readpwd
\* the file with those of Vault and no others (a password Vault lacks is lost from
\* the file), whatever failed half way or was edited before.
THEOREM VaultKeepsUp == PasswordsSpec => VaultAndFileAgree
  BY PasswordsStart, PasswordsStep, PTL DEF PasswordsSpec, VaultAndFileAgree

=============================================================================
