------------------------------- MODULE Networks -------------------------------
(***************************************************************************)
(* lib/networks.js: the list of networks and the map that finds a network  *)
(* by its names, version numbers, ports and seeds.  Networks are added and *)
(* removed while the process runs.  A network is an object of its own      *)
(* every time it is added: it is a number here, the index of what created  *)
(* it.  A key of the map is <<kind, value>>, kind "text" or "number".      *)
(***************************************************************************)
EXTENDS Integers, SequencesExt

CONSTANTS
  LivenetData, TestnetData,   \* what add is called with when the module is loaded
  TestnetPort, RegtestPort,
  CustomData,                 \* what a client may add
  MaxCreated                  \* bound: the networks there ever are

VARIABLES
  created,          \* by object: its data
  networks,         \* the list, of objects
  networkMaps,      \* by key: an object
  regtestEnabled    \* testnet.regtestEnabled

networkVars == <<created, networks, networkMaps, regtestEnabled>>

livenet == 1
testnet == 2
NoNetwork == 0

VersionFields ==
  {"pubkeyhash", "privatekey", "scripthash", "xpubkey", "xprivkey", "xpubkey256bit", "xprivkey256bit"}
Text(name) == <<"text", name>>
Num(n) == <<"number", n>>

\* The keys a network is added under: each element of an array, and each value
\* that is no object.
KeysOf(data) ==
  {Text(name) : name \in {data.name} \cup data.alias \cup data.dnsSeeds}
  \cup {Num(data[field]) : field \in VersionFields \cap DOMAIN data}
  \cup (IF "port" \in DOMAIN data THEN {Num(data.port)} ELSE {})

Put1(map, keys, network) ==
  [key \in DOMAIN map \cup keys |-> IF key \in keys THEN network ELSE map[key]]

\* The module's own two calls of add, and the ports of testnet and regtest.  The
\* seeds that testnet lists by a getter come after its add: they are arrays, which the
\* loops that put the ports into the map pass over.
InitNetworks ==
  /\ created = <<LivenetData, TestnetData>>
  /\ networks = <<livenet, testnet>>
  /\ networkMaps = Put1(Put1([key \in KeysOf(LivenetData) |-> livenet], KeysOf(TestnetData), testnet),
                        {Num(TestnetPort), Num(RegtestPort)}, testnet)
  /\ regtestEnabled = FALSE

-----------------------------------------------------------------------------
(* Looking up *)

\* get with one argument: an object of the list itself, or by a key; an object that
\* is not in the list any more is looked up by its name.
Find(key) == IF key \in DOMAIN networkMaps THEN networkMaps[key] ELSE NoNetwork
FindObject(network) ==
  IF Contains(networks, network) THEN network ELSE Find(Text(created[network].name))

\* get with the field to look at: the first of the list
FindBy(value, field) ==
  LET found == SelectSeq(networks, LAMBDA n : field \in DOMAIN created[n] /\ created[n][field] = value)
  IN  IF found = <<>> THEN NoNetwork ELSE Head(found)

PortOf(network) ==
  IF network # testnet THEN created[network].port
  ELSE IF regtestEnabled THEN RegtestPort ELSE TestnetPort

-----------------------------------------------------------------------------
(* Steps *)

Get(key) ==
  /\ key \in {Text("local"), Text("regtest")} /\ Find(key) = testnet
  /\ regtestEnabled' = TRUE
  /\ UNCHANGED <<created, networks, networkMaps>>

\* (fault) a key that is taken stays with the network that has it
AddNetworkKeeping(data) ==
  /\ Len(created) < MaxCreated
  /\ created' = Append(created, data)
  /\ networks' = Append(networks, Len(created'))
  /\ networkMaps' = Put1(networkMaps, KeysOf(data) \ DOMAIN networkMaps, Len(created'))
  /\ UNCHANGED regtestEnabled

AddNetwork(data) ==
  /\ Len(created) < MaxCreated
  /\ created' = Append(created, data)
  /\ networks' = Append(networks, Len(created'))
  /\ networkMaps' = Put1(networkMaps, KeysOf(data), Len(created'))
  /\ UNCHANGED regtestEnabled

RemoveNetwork(network) ==
  /\ networks' = IF Contains(networks, network)
                    THEN RemoveAt(networks, CHOOSE i \in DOMAIN networks : networks[i] = network)
                    ELSE networks
  /\ networkMaps' = [key \in {k \in DOMAIN networkMaps : networkMaps[k] # network} |-> networkMaps[key]]
  /\ UNCHANGED <<created, regtestEnabled>>

SetRegtest(enabled) ==
  /\ regtestEnabled' = enabled
  /\ UNCHANGED <<created, networks, networkMaps>>

NetworkStep ==
  \/ \E key \in DOMAIN networkMaps : Get(key)
  \/ \E data \in CustomData : AddNetwork(data)
  \/ \E network \in DOMAIN created : RemoveNetwork(network)
  \/ \E enabled \in BOOLEAN : SetRegtest(enabled)

-----------------------------------------------------------------------------
(* Properties *)

\* What a network was added with, and testnet's two ports
Own(network) ==
  KeysOf(created[network]) \cup (IF network = testnet THEN {Num(TestnetPort), Num(RegtestPort)} ELSE {})

\* The network at index i of the list has the key and none behind it has.
IsLastWith(key, i) ==
  /\ key \in Own(networks[i])
  /\ \A j \in DOMAIN networks : i < j => key \notin Own(networks[j])

\* No network was ever added with the key but this one.
Alone(key, network) == \A other \in DOMAIN created : key \in Own(other) => other = network

HasPort(network) == network = testnet \/ "port" \in DOMAIN created[network]

\* What a key finds is in the list, has that key, and is the one added last of
\* those in the list that have it; and a network in the list is found under each of
\* these keys that no other was ever added with, the port it has by then among them.
\* (The seeds that testnet lists were never put into the map: they find nothing.)
\* add overwrites the map and remove deletes from it, both key by key, next to a list
\* that is changed by object (networks.js:115 and 144).
NetworksFound ==
  /\ \A key \in DOMAIN networkMaps :
       \E i \in DOMAIN networks : networkMaps[key] = networks[i] /\ IsLastWith(key, i)
  /\ \A i \in DOMAIN networks : \A key \in Own(networks[i]) :
       Alone(key, networks[i]) => Find(key) = networks[i]
  /\ \A i \in DOMAIN networks :
       HasPort(networks[i]) /\ Alone(Num(PortOf(networks[i])), networks[i])
       => Find(Num(PortOf(networks[i]))) = networks[i]
=============================================================================
