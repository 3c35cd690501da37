------------------------------ MODULE MCFiles ------------------------------
(***************************************************************************)
(* MCContainerParams, and the files of the deployment host and those it    *)
(* renders, one kind in every behaviour: "passwords" (an upgrade, a        *)
(* rotation, the use of Vault, with one key of each sort); "ini", every    *)
(* pair of small files for merge_configs; "yaml", documents of two levels  *)
(* for merge_yaml, all pairs and those triples that have a single key at   *)
(* the top; "address", templates with kolla_address on two hosts.          *)
(***************************************************************************)
EXTENDS MCContainerParams, Passwords, KollaAddress

\* A key pair may be complete, half, or a text by mistake; a key may be of an
\* older release.  With Vault: passwords that are set, empty, or not there.
Deployed ==
    {[db |-> Text("p"), ssh |-> v, registry |-> r, gone |-> Text("q")] :
        v \in {Pair("a", "b"), Pair("a", ""), Text("s")}, r \in {NoPassword, Text("r")}}

MCInstalled ==
    [upgrade |-> Deployed,
     rotate |-> Deployed,
     vault |-> {[db |-> v, ssh |-> Pair("a", "b")] :
                   v \in {Text("p"), Text("p2"), Text(""), NoPassword}}
               \cup {[ssh |-> Pair("c", "d")]}]

\* The new release has a further password.
MCTemplate == [db |-> NoPassword, ssh |-> Pair("", ""), registry |-> NoPassword,
               db2 |-> NoPassword]

-----------------------------------------------------------------------------
VARIABLES sources, read, outcome, sections, text, aliases, extend_lists,
          output, extended

mergeVars == <<sources, read, outcome, sections, text, aliases, extend_lists,
               output, extended>>

Ini == INSTANCE MergeConfigs WITH
    Sections <- {"a", "b"}, Keys <- {"x", "y"}, Values <- {"", "1"},
    MaxLines <- 3, MaxTotal <- 5, MaxSources <- 2

\* Documents, as MergeYaml represents them.
Scalar(x) == [t |-> "scalar", val |-> x]
List(items) == [t |-> "list", id |-> <<>>, val |-> items]
Mapping(keys, values) ==
    {[t |-> "dict", val |-> f] : f \in UNION {[S -> values] : S \in SUBSET keys}}
Leaf == {Scalar("null"), Scalar("1"), List(<<"1">>), List(<<"2">>)}
Document(keys) ==
    Mapping(keys, Leaf \cup Mapping({"x"}, Leaf)) \cup Leaf \cup {[t |-> "absent"]}
Documents == {<<d, e>> : d, e \in Document({"a", "b"})}
             \cup {<<d, e, f>> : d, e, f \in Document({"a"})}

Yaml == INSTANCE MergeYaml WITH
    Tasks <- Documents,
    Paths <- {<<"a">>, <<"b">>, <<"a", "x">>, <<"b", "x">>}

filesVars == <<paramsVars, passwordVars, mergeVars, addressVars>>

NoParams == NoCompare /\ NoOptions
NoPasswords == PasswordsInit /\ workflow = "vault" /\ deployed = [ssh |-> Pair("c", "d")]
NoMerge == sources = <<>> /\ read = 0 /\ outcome = "none"
NoIni == sections = <<>> /\ text = <<>>
NoYaml == aliases = FALSE /\ extend_lists = FALSE /\ output = <<>> /\ extended = <<>>
NoAddress == AddressInit /\ family = "ipv4" /\ ~haproxy /\ spelled

FilesInit ==
    \/ ParamsInit /\ NoPasswords /\ NoMerge /\ NoIni /\ NoYaml /\ NoAddress
    \/ /\ NoParams
       /\ \/ chosen = "passwords" /\ PasswordsInit /\ NoMerge /\ NoIni /\ NoYaml /\ NoAddress
          \/ chosen = "ini" /\ NoPasswords /\ Ini!Init /\ NoYaml /\ NoAddress
          \/ chosen = "yaml" /\ NoPasswords /\ Yaml!Init /\ NoIni /\ NoAddress
          \/ chosen = "address" /\ NoPasswords /\ NoMerge /\ NoIni /\ NoYaml /\ AddressInit

FilesNext ==
    \/ ParamsNext /\ UNCHANGED <<passwordVars, mergeVars, addressVars>>
    \/ /\ \/ /\ chosen = "passwords" /\ PasswordsNext
             /\ UNCHANGED <<mergeVars, addressVars>>
          \/ /\ chosen = "ini" /\ Ini!Next
             /\ UNCHANGED <<passwordVars, aliases, extend_lists, output, extended,
                            addressVars>>
          \/ /\ chosen = "yaml" /\ Yaml!Next
             /\ UNCHANGED <<passwordVars, sections, text, addressVars>>
          \/ chosen = "address" /\ AddressNext /\ UNCHANGED <<passwordVars, mergeVars>>
       /\ UNCHANGED paramsVars

\* The operator goes on with the workflow, and a tool that is not killed runs.
FilesSpec ==
    /\ FilesInit
    /\ [][FilesNext]_filesVars
    /\ WF_passwordVars(chosen = "passwords" /\ (Operator \/ Tool))

\* The use of Vault alone.
VaultSpec ==
    /\ chosen = "passwords" /\ FilesInit /\ workflow = "vault"
    /\ [][FilesNext]_filesVars

-----------------------------------------------------------------------------
\* A merged ini file has, for every key, the values of the last source with it,
\* and reads back as what was merged.
IniFileIsTheMerge == chosen = "ini" => Ini!LastSourceWins /\ Ini!FileReadsBack

\* A merged YAML file has at every path what the last document has there, and
\* merge_yaml fails exactly for documents of kinds that do not fit.
YamlFileIsTheMerge == chosen = "yaml" => Yaml!MergedByPath /\ Yaml!FailsOnConflict

=============================================================================
