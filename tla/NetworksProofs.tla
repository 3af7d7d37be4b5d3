--------------------------- MODULE NetworksProofs ---------------------------
(***************************************************************************)
(* The registry of networks is what its list says, for any networks that   *)
(* are added and removed in any order.  Library takes these steps, and no  *)
(* other step of it changes a variable of the registry.                    *)
(***************************************************************************)
EXTENDS Networks, SumsProofs

NetworkSpec == InitNetworks /\ [][NetworkStep]_networkVars

Data == {LivenetData, TestnetData} \cup CustomData

\* An object is in the list at most once, and the list is in the order of addition.
ListInv ==
  /\ created \in Seq(Data)
  /\ networks \in Seq(Nat)
  /\ \A i \in DOMAIN networks : networks[i] \in DOMAIN created
  /\ \A i, j \in DOMAIN networks : i < j => networks[i] < networks[j]

\* What the map has for a key is the last of the list with it.
MapInv ==
  \A key \in DOMAIN networkMaps :
    \E i \in DOMAIN networks : networkMaps[key] = networks[i] /\ IsLastWith(key, i)

\* What nobody else was added with is in the map.
FoundInv ==
  \A i \in DOMAIN networks : \A key \in Own(networks[i]) :
    Alone(key, networks[i]) => key \in DOMAIN networkMaps /\ networkMaps[key] = networks[i]

Inv == ListInv /\ MapInv /\ FoundInv

\* Own, by what the networks were created with
OwnIn(data, network) ==
  KeysOf(data[network]) \cup (IF network = testnet THEN {Num(TestnetPort), Num(RegtestPort)} ELSE {})

LEMMA ListDomain ==
  ASSUME ListInv
  PROVE  /\ Len(networks) \in Nat /\ DOMAIN networks = 1 .. Len(networks)
         /\ Len(created) \in Nat /\ DOMAIN created = 1 .. Len(created)
BY DEF ListInv

LEMMA InitInv == InitNetworks => Inv
<1> SUFFICES ASSUME InitNetworks PROVE Inv
  OBVIOUS
<1> DEFINE live == [key \in KeysOf(LivenetData) |-> livenet]
           both == Put1(live, KeysOf(TestnetData), testnet)
           ports == {Num(TestnetPort), Num(RegtestPort)}
<1>1. /\ created = <<LivenetData, TestnetData>> /\ networks = <<livenet, testnet>>
      /\ networkMaps = Put1(both, ports, testnet)
  BY DEF InitNetworks
<1>2. Own(livenet) = KeysOf(LivenetData) /\ Own(testnet) = KeysOf(TestnetData) \cup ports
  BY <1>1 DEF Own, livenet, testnet
<1>3. /\ DOMAIN networkMaps = Own(livenet) \cup Own(testnet)
      /\ \A key \in Own(testnet) : networkMaps[key] = testnet
      /\ \A key \in Own(livenet) \ Own(testnet) : networkMaps[key] = livenet
  <2>1. DOMAIN live = KeysOf(LivenetData) /\ \A key \in KeysOf(LivenetData) : live[key] = livenet
    OBVIOUS
  <2>2. /\ DOMAIN both = DOMAIN live \cup KeysOf(TestnetData)
        /\ \A key \in DOMAIN live \cup KeysOf(TestnetData) :
             both[key] = IF key \in KeysOf(TestnetData) THEN testnet ELSE live[key]
    <3> HIDE DEF live
    <3> QED BY DEF Put1
  <2>3. /\ DOMAIN networkMaps = DOMAIN both \cup ports
        /\ \A key \in DOMAIN both \cup ports :
             networkMaps[key] = IF key \in ports THEN testnet ELSE both[key]
    <3> HIDE DEF both, ports
    <3> QED BY <1>1 DEF Put1
  <2> HIDE DEF live, both, ports
  <2> QED BY <1>2, <2>1, <2>2, <2>3
<1> HIDE DEF live, both, ports
<1>4. /\ DOMAIN networks = {1, 2} /\ networks[1] = livenet /\ networks[2] = testnet
      /\ DOMAIN created = {1, 2} /\ networks \in Seq(Nat)
      /\ created \in Seq({LivenetData, TestnetData} \cup CustomData)
  BY <1>1 DEF livenet, testnet
<1>5. livenet = 1 /\ testnet = 2
  BY DEF livenet, testnet
<1>6. ListInv
  BY <1>4, <1>5 DEF ListInv, Data
<1>7. MapInv
  <2> SUFFICES ASSUME NEW key \in DOMAIN networkMaps
               PROVE  \E i \in DOMAIN networks : networkMaps[key] = networks[i] /\ IsLastWith(key, i)
    BY DEF MapInv
  <2>1. CASE key \in Own(testnet)
    BY <1>3, <1>4, <2>1 DEF IsLastWith
  <2>2. CASE key \notin Own(testnet)
    BY <1>3, <1>4, <2>2 DEF IsLastWith
  <2> QED BY <2>1, <2>2
<1>8. FoundInv
  <2> SUFFICES ASSUME NEW i \in DOMAIN networks, NEW key \in Own(networks[i]), Alone(key, networks[i])
               PROVE  key \in DOMAIN networkMaps /\ networkMaps[key] = networks[i]
    BY DEF FoundInv
  <2>1. CASE i = 1
    <3>1. key \notin Own(testnet)
      BY <1>4, <1>5, <2>1 DEF Alone
    <3> QED BY <1>3, <1>4, <2>1, <3>1
  <2>2. CASE i = 2
    BY <1>3, <1>4, <2>2
  <2> QED BY <1>4, <2>1, <2>2
<1> QED BY <1>6, <1>7, <1>8 DEF Inv

\* A network keeps its keys while others are added.
LEMMA OwnStays ==
  ASSUME ListInv, NEW data \in CustomData, created' = Append(created, data)
  PROVE  /\ created' \in Seq(Data) /\ DOMAIN created' = DOMAIN created \cup {Len(created) + 1}
         /\ Len(created') = Len(created) + 1
         /\ \A network \in DOMAIN created : OwnIn(created', network) = Own(network)
<1>1. created \in Seq(Data) /\ data \in Data
  BY DEF ListInv, Data
<1>2. /\ created' \in Seq(Data) /\ DOMAIN created' = DOMAIN created \cup {Len(created) + 1}
      /\ Len(created') = Len(created) + 1
      /\ \A network \in DOMAIN created : created'[network] = created[network]
  BY <1>1
<1> QED BY <1>2 DEF Own, OwnIn

LEMMA AddInv ==
  ASSUME Inv, NEW data \in CustomData, AddNetwork(data), testnet \in DOMAIN created
  PROVE  Inv'
<1> DEFINE new == Len(created) + 1
           n == Len(networks)
<1>1. /\ created' = Append(created, data)
      /\ networks' = Append(networks, Len(created'))
      /\ networkMaps' = Put1(networkMaps, KeysOf(data), Len(created'))
  BY DEF AddNetwork
<1>2. /\ n \in Nat /\ DOMAIN networks = 1 .. n
      /\ Len(created) \in Nat /\ DOMAIN created = 1 .. Len(created)
  BY ListDomain DEF Inv
<1>3. /\ created' \in Seq(Data) /\ DOMAIN created' = DOMAIN created \cup {new}
      /\ Len(created') = new
      /\ \A network \in DOMAIN created : OwnIn(created', network) = Own(network)
  BY <1>1, OwnStays DEF Inv
<1>4. OwnIn(created', new) = KeysOf(data)
  <2>1. created'[new] = data
    BY <1>1, <1>2 DEF Inv, ListInv
  <2>2. new # testnet
    BY <1>2
  <2> HIDE DEF new
  <2> QED BY <2>1, <2>2 DEF OwnIn
<1>5. /\ networks' \in Seq(Nat) /\ DOMAIN networks' = 1 .. n + 1
      /\ \A i \in 1 .. n : networks'[i] = networks[i]
      /\ networks'[n + 1] = new
  BY <1>1, <1>2, <1>3 DEF Inv, ListInv
<1>6. /\ DOMAIN networkMaps' = DOMAIN networkMaps \cup KeysOf(data)
      /\ \A key \in DOMAIN networkMaps \cup KeysOf(data) :
           networkMaps'[key] = IF key \in KeysOf(data) THEN new ELSE networkMaps[key]
  BY <1>1, <1>3 DEF Put1
<1>7. \A i \in 1 .. n : networks[i] \in DOMAIN created
  BY <1>2 DEF Inv, ListInv
<1>8. ListInv'
  <2>1. \A i \in DOMAIN networks' : networks'[i] \in DOMAIN created'
    BY <1>2, <1>3, <1>5, <1>7
  <2>2. ASSUME NEW i \in DOMAIN networks', NEW j \in DOMAIN networks', i < j
        PROVE  networks'[i] < networks'[j]
    <3>1. i \in 1 .. n
      BY <1>2, <1>5, <2>2
    <3>2. CASE j = n + 1
      BY <1>2, <1>5, <1>7, <3>1, <3>2
    <3>3. CASE j \in 1 .. n
      BY <1>2, <1>5, <2>2, <3>1, <3>3 DEF Inv, ListInv
    <3> QED BY <1>2, <1>5, <3>2, <3>3
  <2> QED BY <1>3, <1>5, <2>1, <2>2 DEF ListInv
<1> HIDE DEF n, new
<1>9. MapInv'
  <2> SUFFICES ASSUME NEW key \in DOMAIN networkMaps'
               PROVE  \E i \in DOMAIN networks' :
                        /\ networkMaps'[key] = networks'[i]
                        /\ key \in OwnIn(created', networks'[i])
                        /\ \A j \in DOMAIN networks' : i < j => key \notin OwnIn(created', networks'[j])
    BY DEF MapInv, IsLastWith, Own, OwnIn
  <2>1. CASE key \in KeysOf(data)
    BY <1>2, <1>4, <1>5, <1>6, <2>1
  <2>2. CASE key \notin KeysOf(data)
    <3>1. PICK i \in 1 .. n : networkMaps[key] = networks[i] /\ IsLastWith(key, i)
      BY <1>2, <1>6, <2>2 DEF Inv, MapInv
    <3>2. key \in OwnIn(created', networks'[i])
      BY <1>3, <1>5, <1>7, <3>1 DEF IsLastWith
    <3>3. ASSUME NEW j \in 1 .. n + 1, i < j PROVE key \notin OwnIn(created', networks'[j])
      <4>1. CASE j = n + 1
        BY <1>4, <1>5, <2>2, <4>1
      <4>2. CASE j \in 1 .. n
        <5>1. key \notin Own(networks[j])
          BY <1>2, <3>1, <3>3, <4>2 DEF IsLastWith
        <5> QED BY <1>3, <1>5, <1>7, <4>2, <5>1
      <4> QED BY <1>2, <4>1, <4>2
    <3>4. i \in DOMAIN networks' /\ networkMaps'[key] = networks'[i]
      BY <1>2, <1>5, <1>6, <2>2, <3>1
    <3> QED BY <1>5, <3>2, <3>3, <3>4
  <2> QED BY <2>1, <2>2
<1>10. FoundInv'
  <2> SUFFICES ASSUME NEW i \in DOMAIN networks', NEW key \in OwnIn(created', networks'[i]),
                      \A other \in DOMAIN created' : key \in OwnIn(created', other) => other = networks'[i]
               PROVE  key \in DOMAIN networkMaps' /\ networkMaps'[key] = networks'[i]
    BY DEF FoundInv, Alone, Own, OwnIn
  <2>1. CASE i = n + 1
    BY <1>4, <1>5, <1>6, <2>1
  <2>2. CASE i \in 1 .. n
    <3>1. networks'[i] = networks[i] /\ networks[i] \in DOMAIN created
      BY <1>5, <1>7, <2>2
    <3>2. key \in Own(networks[i]) /\ Alone(key, networks[i])
      BY <1>3, <3>1 DEF Alone
    <3>3. key \in DOMAIN networkMaps /\ networkMaps[key] = networks[i]
      BY <1>2, <2>2, <3>2 DEF Inv, FoundInv
    <3>4. key \notin KeysOf(data)
      <4>1. networks[i] # new
        BY <1>2, <3>1 DEF new
      <4> QED BY <1>3, <1>4, <3>1, <4>1
    <3> QED BY <1>6, <3>1, <3>3, <3>4
  <2> QED BY <1>2, <1>5, <2>1, <2>2
<1> QED BY <1>8, <1>9, <1>10 DEF Inv

LEMMA RemoveInv ==
  ASSUME Inv, NEW network \in DOMAIN created, RemoveNetwork(network)
  PROVE  Inv'
<1> DEFINE n == Len(networks)
           kept == {key \in DOMAIN networkMaps : networkMaps[key] # network}
<1>1. /\ created' = created
      /\ networkMaps' = [key \in kept |-> networkMaps[key]]
  BY DEF RemoveNetwork
<1>2. /\ n \in Nat /\ DOMAIN networks = 1 .. n
      /\ Len(created) \in Nat /\ DOMAIN created = 1 .. Len(created)
  BY ListDomain DEF Inv
<1>3. \A other : Own(other)' = Own(other)
  BY <1>1 DEF Own
<1>4. DOMAIN networkMaps' = kept /\ \A key \in kept : networkMaps'[key] = networkMaps[key]
  BY <1>1
\* Where the elements that stay go to
<1>5. PICK at : /\ \A i \in 1 .. n : networks[i] # network =>
                     at[i] \in DOMAIN networks' /\ networks'[at[i]] = networks[i]
                /\ \A j \in DOMAIN networks' :
                     \E i \in 1 .. n : networks[i] # network /\ at[i] = j
                /\ \A i, j \in 1 .. n : networks[i] # network /\ networks[j] # network
                     => at[i] \in Nat /\ (at[i] < at[j] <=> i < j)
                /\ networks' \in Seq(Nat)
  <2>1. CASE ~Contains(networks, network)
    <3>1. networks' = networks
      BY <2>1 DEF RemoveNetwork
    <3> DEFINE at == [i \in 1 .. n |-> i]
    <3>2. \A i \in 1 .. n : at[i] = i /\ i \in Nat
      BY <1>2
    <3>3. ASSUME NEW j \in DOMAIN networks' PROVE \E i \in 1 .. n : networks[i] # network /\ at[i] = j
      BY <1>2, <2>1, <3>1 DEF Contains
    <3>4. networks' \in Seq(Nat) /\ DOMAIN networks' = 1 .. n
      BY <1>2, <3>1 DEF Inv, ListInv
    <3> HIDE DEF at, n
    <3> QED BY <3>1, <3>2, <3>3, <3>4
  <2>2. CASE Contains(networks, network)
    <3> DEFINE k == CHOOSE i \in DOMAIN networks : networks[i] = network
    <3>1. k \in 1 .. n /\ networks[k] = network
      BY <1>2, <2>2 DEF Contains
    <3>2. networks' = RemoveAt(networks, k)
      BY <2>2 DEF RemoveNetwork
    <3> HIDE DEF k
    <3>3. \A i \in 1 .. n : networks[i] = network => i = k
      <4> SUFFICES ASSUME NEW i \in 1 .. n, networks[i] = network, i # k PROVE FALSE
        OBVIOUS
      <4>1. networks[i] \in Nat
        BY <1>2 DEF Inv, ListInv
      <4> QED BY <1>2, <3>1, <4>1 DEF Inv, ListInv
    <3>4. /\ networks' \in Seq(Nat) /\ Len(networks') = n - 1
          /\ \A j \in 1 .. n - 1 : networks'[j] = IF j < k THEN networks[j] ELSE networks[j + 1]
      <4>1. networks \in Seq(Nat) /\ k \in 1 .. Len(networks)
        BY <3>1 DEF Inv, ListInv
      <4> QED BY Zenon, <3>2, <4>1, RemoveAtElements
    <3>5. DOMAIN networks' = 1 .. n - 1
      BY <1>2, <3>4
    <3> DEFINE at == [i \in 1 .. n |-> IF i < k THEN i ELSE i - 1]
    <3>6. ASSUME NEW i \in 1 .. n, networks[i] # network
          PROVE  at[i] \in DOMAIN networks' /\ networks'[at[i]] = networks[i]
      <4>1. i # k
        BY <3>1, <3>6
      <4> HIDE DEF n
      <4>2. CASE i < k
        BY <1>2, <3>1, <3>4, <3>5, <4>2
      <4>3. CASE k < i
        <5>1. at[i] = i - 1 /\ i - 1 \in 1 .. n - 1 /\ ~(i - 1 < k) /\ (i - 1) + 1 = i
          BY <1>2, <3>1, <4>3
        <5> QED BY <3>4, <3>5, <5>1
      <4> QED BY <1>2, <3>1, <4>1, <4>2, <4>3
    <3>7. ASSUME NEW j \in DOMAIN networks'
          PROVE  \E i \in 1 .. n : networks[i] # network /\ at[i] = j
      <4>1. CASE j < k
        <5>1. j \in 1 .. n /\ at[j] = j /\ j # k
          BY <1>2, <3>1, <3>5, <4>1
        <5> QED BY <3>3, <5>1
      <4>2. CASE ~(j < k)
        <5>1. j + 1 \in 1 .. n /\ at[j + 1] = j /\ j + 1 # k
          BY <1>2, <3>1, <3>5, <4>2
        <5> QED BY <3>3, <5>1
      <4> QED BY <4>1, <4>2
    <3>8. \A i, j \in 1 .. n : networks[i] # network /\ networks[j] # network
                     => at[i] \in Nat /\ (at[i] < at[j] <=> i < j)
      <4> SUFFICES ASSUME NEW i \in 1 .. n, NEW j \in 1 .. n, i # k, j # k
                   PROVE  at[i] \in Nat /\ (at[i] < at[j] <=> i < j)
        BY <3>1
      <4> QED BY <1>2, <3>1
    <3> HIDE DEF at
    <3> QED BY <3>4, <3>6, <3>7, <3>8
  <2> QED BY <2>1, <2>2
<1> HIDE DEF n, kept
<1>6. ListInv'
  <2>1. ASSUME NEW j \in DOMAIN networks' PROVE networks'[j] \in DOMAIN created'
    <3>1. PICK i \in 1 .. n : networks[i] # network /\ at[i] = j
      BY <1>5
    <3> QED BY <1>1, <1>2, <1>5, <3>1 DEF Inv, ListInv
  <2>2. ASSUME NEW j \in DOMAIN networks', NEW k \in DOMAIN networks', j < k
        PROVE  networks'[j] < networks'[k]
    <3>1. PICK i \in 1 .. n : networks[i] # network /\ at[i] = j
      BY <1>5
    <3>2. PICK l \in 1 .. n : networks[l] # network /\ at[l] = k
      BY <1>5
    <3>3. i < l
      BY <1>5, <2>2, <3>1, <3>2
    <3>4. networks[i] < networks[l]
      BY <1>2, <3>3 DEF Inv, ListInv
    <3> QED BY <1>5, <3>1, <3>2, <3>4
  <2>3. created' \in Seq(Data)
    BY <1>1 DEF Inv, ListInv
  <2> QED BY <1>5, <2>1, <2>2, <2>3 DEF ListInv
<1>7. MapInv'
  <2> SUFFICES ASSUME NEW key \in kept
               PROVE  \E i \in DOMAIN networks' :
                        /\ networkMaps[key] = networks'[i]
                        /\ key \in Own(networks'[i])
                        /\ \A j \in DOMAIN networks' : i < j => key \notin Own(networks'[j])
    BY <1>3, <1>4 DEF MapInv, IsLastWith
  <2>1. key \in DOMAIN networkMaps /\ networkMaps[key] # network
    BY DEF kept
  <2>2. PICK i \in 1 .. n : networkMaps[key] = networks[i] /\ IsLastWith(key, i)
    BY <1>2, <2>1 DEF Inv, MapInv
  <2>3. at[i] \in DOMAIN networks' /\ networks'[at[i]] = networks[i]
    BY <1>5, <2>1, <2>2
  <2>4. ASSUME NEW j \in DOMAIN networks', at[i] < j PROVE key \notin Own(networks'[j])
    <3>1. PICK l \in 1 .. n : networks[l] # network /\ at[l] = j
      BY <1>5
    <3>2. networks'[j] = networks[l] /\ i < l
      BY <1>5, <2>1, <2>2, <2>4, <3>1
    <3> QED BY <1>2, <2>2, <3>2 DEF IsLastWith
  <2> QED BY <2>2, <2>3, <2>4 DEF IsLastWith
<1>8. FoundInv'
  <2> SUFFICES ASSUME NEW j \in DOMAIN networks', NEW key \in Own(networks'[j]),
                      \A other \in DOMAIN created : key \in Own(other) => other = networks'[j]
               PROVE  key \in kept /\ networkMaps[key] = networks'[j]
    BY <1>1, <1>3, <1>4 DEF FoundInv, Alone
  <2>1. PICK i \in 1 .. n : networks[i] # network /\ at[i] = j
    BY <1>5
  <2>2. networks'[j] = networks[i]
    BY <1>5, <2>1
  <2>3. key \in DOMAIN networkMaps /\ networkMaps[key] = networks[i]
    BY <1>2, <2>2 DEF Inv, FoundInv, Alone
  <2> QED BY <2>1, <2>2, <2>3 DEF kept
<1> QED BY <1>6, <1>7, <1>8 DEF Inv

\* The two networks of the module are never lost as objects.
BuiltIn == Len(created) >= testnet

LEMMA StepInv ==
  ASSUME Inv, BuiltIn, [NetworkStep]_networkVars
  PROVE  Inv' /\ BuiltIn'
<1>1. Len(created) \in Nat /\ DOMAIN created = 1 .. Len(created)
  BY ListDomain DEF Inv
<1>2. testnet \in DOMAIN created
  BY <1>1 DEF BuiltIn, testnet
<1>3. ASSUME NEW data \in CustomData, AddNetwork(data) PROVE Inv' /\ BuiltIn'
  <2>1. Len(created') = Len(created) + 1
    BY <1>3, OwnStays DEF AddNetwork, Inv
  <2> QED BY <1>1, <1>2, <1>3, <2>1, AddInv DEF BuiltIn, testnet
<1>4. ASSUME NEW network \in DOMAIN created, RemoveNetwork(network) PROVE Inv' /\ BuiltIn'
  BY <1>4, RemoveInv DEF RemoveNetwork, BuiltIn
<1>5. ASSUME UNCHANGED <<created, networks, networkMaps>> PROVE Inv' /\ BuiltIn'
  BY <1>5 DEF Inv, ListInv, MapInv, FoundInv, BuiltIn, IsLastWith, Alone, Own
<1>6. CASE UNCHANGED networkVars
  BY <1>5, <1>6 DEF networkVars
<1>7. ASSUME NEW key \in DOMAIN networkMaps, Get(key) PROVE UNCHANGED <<created, networks, networkMaps>>
  BY <1>7 DEF Get
<1>8. ASSUME NEW enabled \in BOOLEAN, SetRegtest(enabled)
      PROVE  UNCHANGED <<created, networks, networkMaps>>
  BY <1>8 DEF SetRegtest
<1> QED BY <1>3, <1>4, <1>5, <1>6, <1>7, <1>8 DEF NetworkStep

(* A key of the map leads to the network of the list that was added last of those
   that have it, and a network of the list is found under every key of its own and
   under the port that it has by then, whatever is added, removed and switched to
   regtest (addNetwork, removeNetwork, get). *)
THEOREM NetworksAreFound == NetworkSpec => []NetworksFound
<1>1. InitNetworks => Inv /\ BuiltIn
  BY InitInv DEF InitNetworks, BuiltIn, testnet
<1>2. Inv /\ BuiltIn /\ [NetworkStep]_networkVars => Inv' /\ BuiltIn'
  BY StepInv
<1>3. Inv => NetworksFound
  <2> SUFFICES ASSUME Inv PROVE NetworksFound
    OBVIOUS
  <2>1. \A i \in DOMAIN networks : \A key \in Own(networks[i]) :
          Alone(key, networks[i]) => Find(key) = networks[i]
    BY DEF Inv, FoundInv, Find
  <2>2. ASSUME NEW i \in DOMAIN networks, HasPort(networks[i])
        PROVE  Num(PortOf(networks[i])) \in Own(networks[i])
    <3>1. CASE networks[i] = testnet
      BY <3>1 DEF PortOf, Own
    <3>2. CASE networks[i] # testnet
      BY <2>2, <3>2 DEF HasPort, PortOf, Own, KeysOf
    <3> QED BY <3>1, <3>2
  <2> QED BY <2>1, <2>2 DEF Inv, MapInv, NetworksFound
<1> QED BY <1>1, <1>2, <1>3, PTL DEF NetworkSpec
=============================================================================
