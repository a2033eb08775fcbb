---------------------------- MODULE ConfigProofs ----------------------------
(***************************************************************************)
(* Proofs about Config, for any sources: that the credentials of a request *)
(* are accepted exactly if the source in force lists them.                 *)
(***************************************************************************)
EXTENDS Config, SequenceLemmas

\* The map of clients after the first n entries.
After(creds) ==
    CHOOSE after : after = [n \in 0 .. Len(creds) |->
        IF n = 0 THEN Default.clients ELSE AddEntry(after[n - 1], creds[n])]

\* There is one, and it is what parseClientCredentials builds.
LEMMA Parsed ==
    ASSUME NEW creds, Len(creds) \in Nat
    PROVE  LET after == After(creds)
           IN  /\ after[0] = Default.clients
               /\ \A n \in 1 .. Len(creds) : after[n] = AddEntry(after[n - 1], creds[n])
               /\ parseClientCredentials(creds) = after[Len(creds)]
<1> DEFINE step(n, clients) == AddEntry(clients, creds[n])
           first == Default.clients
           Built(n, f) == f = [k \in 0 .. n |-> IF k = 0 THEN first ELSE step(k, f[k - 1])]
           S == {n \in Nat : \E f : Built(n, f)}
<1>1. parseClientCredentials(creds) = After(creds)[Len(creds)]
    BY DEF parseClientCredentials, After
<1>2. After(creds) = CHOOSE f : Built(Len(creds), f)
    BY DEF After
<1> HIDE DEF step, first
<1>3. 0 \in S
  <2>1. Built(0, [k \in 0 .. 0 |-> first])
      OBVIOUS
  <2> QED BY <2>1
<1>4. ASSUME NEW n \in Nat, n \in S
      PROVE  n + 1 \in S
  <2>1. PICK f : Built(n, f)
      BY <1>4
  <2> DEFINE g == [k \in 0 .. n + 1 |-> IF k = n + 1 THEN step(n + 1, f[n]) ELSE f[k]]
  <2>2. \A k \in 1 .. n + 1 : k - 1 \in 0 .. n /\ g[k - 1] = f[k - 1]
      OBVIOUS
  <2>3. \A k \in 0 .. n + 1 : g[k] = IF k = 0 THEN first ELSE step(k, g[k - 1])
    <3> SUFFICES ASSUME NEW k \in 0 .. n + 1
                 PROVE  g[k] = IF k = 0 THEN first ELSE step(k, g[k - 1])
        OBVIOUS
    <3>1. CASE k = n + 1
        BY <2>2, <3>1
    <3>2. CASE k # n + 1
      <4>1. k \in 0 .. n /\ g[k] = f[k]
          BY <3>2
      <4>2. f[k] = IF k = 0 THEN first ELSE step(k, f[k - 1])
          BY <2>1, <4>1
      <4>3. k # 0 => g[k - 1] = f[k - 1]
          BY <2>2
      <4> QED BY <4>1, <4>2, <4>3
    <3> QED BY <3>1, <3>2
  <2>4. g = [k \in 0 .. n + 1 |-> g[k]]
      OBVIOUS
  <2> HIDE DEF g
  <2>5. Built(n + 1, g)
      BY <2>3, <2>4
  <2> QED BY <2>5
<1> HIDE DEF Built
<1>5. Len(creds) \in S
    BY <1>3, <1>4, NatSetInduction
<1>6. Built(Len(creds), After(creds))
    BY <1>2, <1>5, Zenon
<1>7. \A k \in 0 .. Len(creds) : After(creds)[k] = IF k = 0 THEN first ELSE step(k, After(creds)[k - 1])
    BY <1>6 DEF Built
<1> QED BY <1>1, <1>7 DEF step, first

\* An entry with a name and a key.
HasBoth(pair) == Len(pair) > 1 /\ pair[1] # "" /\ Tail(pair) # <<"">>
Usable(creds) == {i \in DOMAIN creds : HasBoth(creds[i])}

\* Such an entry sets the key of its client and of no other.
LEMMA EntryAdded ==
    ASSUME NEW pair \in Seq(STRING), HasBoth(pair), NEW clients
    PROVE  /\ DOMAIN AddEntry(clients, pair) = {<<pair[1]>>} \cup DOMAIN clients
           /\ AddEntry(clients, pair)[<<pair[1]>>] = Tail(pair)
           /\ \A key \in DOMAIN clients :
                  key # <<pair[1]>> => AddEntry(clients, pair)[key] = clients[key]
<1> DEFINE name == <<pair[1]>>
           more == [n \in {name} \cup DOMAIN clients |-> IF n = name THEN Tail(pair) ELSE clients[n]]
<1>1. ~(Len(pair) < 2)
  <2>1. Len(pair) > 1
      BY Zenon DEF HasBoth
  <2>2. Len(pair) \in Nat
      OBVIOUS
  <2> QED BY <2>1, <2>2
<1>2. Head(pair) = pair[1]
    OBVIOUS
<1>3. AddEntry(clients, pair) = more
    BY <1>1, <1>2, Zenon DEF HasBoth, AddEntry
<1> HIDE DEF name
<1>4. /\ DOMAIN more = {name} \cup DOMAIN clients /\ more[name] = Tail(pair)
      /\ \A key \in DOMAIN clients : key # name => more[key] = clients[key]
    OBVIOUS
<1> HIDE DEF more
<1> QED BY <1>3, <1>4, Zenon DEF name

\* Another entry is skipped.
LEMMA EntrySkipped ==
    ASSUME NEW pair \in Seq(STRING), ~HasBoth(pair), NEW clients
    PROVE  AddEntry(clients, pair) = clients
<1>1. Len(pair) > 1 \/ Len(pair) < 2
    OBVIOUS
<1> QED BY <1>1, Zenon DEF HasBoth, AddEntry

\* i is the last entry of its client among the first n.
LastOfItsClient(creds, i, n) ==
    /\ i \in Usable(creds) /\ i <= n
    /\ \A j \in Usable(creds) : i < j /\ j <= n => creds[j][1] # creds[i][1]

\* Each client that the entries list has the key of its last entry.
LEMMA LastEntryCounts ==
    ASSUME NEW creds \in Seq(Seq(STRING))
    PROVE  LET clients == parseClientCredentials(creds)
           IN  /\ \A i \in Usable(creds) : <<creds[i][1]>> \in DOMAIN clients
               /\ \A key \in DOMAIN clients : \E i \in Usable(creds) :
                      /\ LastOfItsClient(creds, i, Len(creds))
                      /\ key = <<creds[i][1]>> /\ clients[key] = Tail(creds[i])
<1> DEFINE after == After(creds)
           Held(n) ==
               /\ \A i \in Usable(creds) : i <= n => <<creds[i][1]>> \in DOMAIN after[n]
               /\ \A key \in DOMAIN after[n] : \E i \in Usable(creds) :
                      /\ LastOfItsClient(creds, i, n)
                      /\ key = <<creds[i][1]>> /\ after[n][key] = Tail(creds[i])
           S == {n \in Nat : n <= Len(creds) => Held(n)}
<1>1. Len(creds) \in Nat /\ DOMAIN creds = 1 .. Len(creds) /\ Usable(creds) \subseteq 1 .. Len(creds)
  <2>1. Usable(creds) \subseteq DOMAIN creds
      BY Zenon DEF Usable
  <2> QED BY <2>1
<1>2. /\ after[0] = Default.clients
      /\ \A n \in 1 .. Len(creds) : after[n] = AddEntry(after[n - 1], creds[n])
      /\ parseClientCredentials(creds) = after[Len(creds)]
    BY <1>1, Parsed
<1> HIDE DEF after
<1>3. 0 \in S
  <2>1. DOMAIN after[0] = {}
      BY <1>2 DEF Default
  <2> QED BY <1>1, <2>1
<1>4. ASSUME NEW n \in Nat, n \in S
      PROVE  n + 1 \in S
  <2> SUFFICES ASSUME n + 1 <= Len(creds)
               PROVE  Held(n + 1)
    <3> HIDE DEF Held
    <3> QED OBVIOUS
  <2>1. /\ n + 1 \in DOMAIN creds /\ Held(n)
        /\ after[n + 1] = AddEntry(after[n], creds[n + 1])
      BY <1>1, <1>2, <1>4
  <2>2. CASE n + 1 \in Usable(creds)
    <3> DEFINE name == <<creds[n + 1][1]>>
    <3>1. /\ DOMAIN after[n + 1] = {name} \cup DOMAIN after[n]
          /\ after[n + 1][name] = Tail(creds[n + 1])
          /\ \A key \in DOMAIN after[n] : key # name => after[n + 1][key] = after[n][key]
      <4>1. creds[n + 1] \in Seq(STRING) /\ HasBoth(creds[n + 1])
          BY <2>1, <2>2 DEF Usable
      <4>2. PICK pair \in Seq(STRING) : pair = creds[n + 1] /\ HasBoth(pair)
          BY <4>1, Zenon
      <4>3. PICK more : more = AddEntry(after[n], pair)
          OBVIOUS
      <4>4. /\ DOMAIN more = {<<pair[1]>>} \cup DOMAIN after[n] /\ more[<<pair[1]>>] = Tail(pair)
            /\ \A key \in DOMAIN after[n] : key # <<pair[1]>> => more[key] = after[n][key]
          BY <4>2, <4>3, EntryAdded, Zenon
      <4>5. after[n + 1] = more
          BY <2>1, <4>2, <4>3, Zenon
      <4> QED BY <4>2, <4>4, <4>5, Zenon
    <3>2. ASSUME NEW i \in Usable(creds), i <= n + 1
          PROVE  <<creds[i][1]>> \in DOMAIN after[n + 1]
      <4>1. i = n + 1 \/ i <= n
          BY <1>1, <3>2
      <4> QED BY <2>1, <3>1, <4>1
    <3>3. LastOfItsClient(creds, n + 1, n + 1)
        BY <1>1, <2>2 DEF LastOfItsClient
    <3>4. ASSUME NEW key \in DOMAIN after[n], key # name
          PROVE  \E i \in Usable(creds) :
                     /\ LastOfItsClient(creds, i, n + 1)
                     /\ key = <<creds[i][1]>> /\ after[n + 1][key] = Tail(creds[i])
      <4>1. PICK i \in Usable(creds) : /\ LastOfItsClient(creds, i, n)
                                       /\ key = <<creds[i][1]>> /\ after[n][key] = Tail(creds[i])
          BY <2>1
      <4>2. creds[n + 1][1] # creds[i][1]
          BY <3>4, <4>1
      <4>3. \A j \in Usable(creds) : j <= n + 1 => j <= n \/ j = n + 1
          BY <1>1
      <4>4. i <= n + 1
          BY <1>1, <4>1 DEF LastOfItsClient
      <4>5. LastOfItsClient(creds, i, n + 1)
          BY <4>1, <4>2, <4>3, <4>4 DEF LastOfItsClient
      <4> QED BY <3>1, <3>4, <4>1, <4>5
    <3> QED BY <2>2, <3>1, <3>2, <3>3, <3>4
  <2>3. CASE n + 1 \notin Usable(creds)
    <3>1. after[n + 1] = after[n]
      <4>1. creds[n + 1] \in Seq(STRING) /\ ~HasBoth(creds[n + 1])
          BY <2>1, <2>3 DEF Usable
      <4> QED BY <2>1, <4>1, EntrySkipped, Zenon
    <3>2. \A j \in Usable(creds) : j <= n + 1 <=> j <= n
        BY <1>1, <2>3
    <3>3. \A i : LastOfItsClient(creds, i, n) => LastOfItsClient(creds, i, n + 1)
        BY <3>2 DEF LastOfItsClient
    <3> QED BY <2>1, <3>1, <3>2, <3>3
  <2> QED BY <2>2, <2>3
<1>5. Len(creds) \in S
    BY <1>1, <1>3, <1>4, NatSetInduction
<1>6. Held(Len(creds))
    BY <1>1, <1>5
<1> QED BY <1>1, <1>2, <1>6

Creds(s) == IF "clients" \in DOMAIN s.env THEN s.env.clients ELSE <<>>

\* The clients that count are those of the environment if it has a usable
\* entry, else those of the file.
LEMMA ClientsLoaded ==
    ASSUME NEW s, WellTyped(s)
    PROVE  Load(s).clients =
               IF Usable(Creds(s)) # {} THEN parseClientCredentials(Creds(s))
               ELSE IF "clients" \in DOMAIN s.yaml /\ s.yaml.clients # Bad THEN s.yaml.clients
                    ELSE Default.clients
<1> DEFINE file == loadFromYAML(Default, s.yaml)
           env == [f \in DOMAIN s.env |-> IF f = "clients" THEN EnvClients(s.env.clients)
                                         ELSE s.env[f]]
<1>1. "clients" \in DOMAIN Default
    BY DEF Default
<1>2. /\ "clients" \in DOMAIN file
      /\ file["clients"] = IF "clients" \in DOMAIN s.yaml /\ s.yaml["clients"] # Bad
                           THEN s.yaml["clients"] ELSE Default["clients"]
    BY <1>1, Zenon DEF loadFromYAML, Overlay
<1>3. /\ DOMAIN env = DOMAIN s.env
      /\ "clients" \in DOMAIN s.env => env["clients"] = EnvClients(s.env["clients"])
    OBVIOUS
<1>4. Load(s) = Overlay(file, env)
    BY DEF Load, loadFromEnv
<1> HIDE DEF file, env
<1>5. Load(s)["clients"] = IF "clients" \in DOMAIN env /\ env["clients"] # Bad
                           THEN env["clients"] ELSE file["clients"]
    BY <1>2, <1>4, Zenon DEF Overlay
<1>6. CASE "clients" \notin DOMAIN s.env
  <2>1. Usable(Creds(s)) = {}
      BY <1>6 DEF Creds, Usable
  <2> QED BY <1>2, <1>3, <1>5, <1>6, <2>1
<1>7. CASE "clients" \in DOMAIN s.env
  <2>1. Creds(s) = s.env["clients"] /\ Creds(s) \in Seq(Seq(STRING))
      BY <1>7 DEF Creds, WellTyped
  <2> DEFINE clients == parseClientCredentials(Creds(s))
  <2>2. clients # Bad
      BY <1>7, <2>1 DEF WellTyped
  <2>3. DOMAIN clients = {} <=> Usable(Creds(s)) = {}
      BY <2>1, LastEntryCounts
  <2>4. env["clients"] = IF DOMAIN clients = {} THEN Bad ELSE clients
      BY <1>3, <1>7, <2>1 DEF EnvClients
  <2> HIDE DEF clients
  <2> QED BY <1>2, <1>3, <1>5, <1>7, <2>2, <2>3, <2>4 DEF clients
<1> QED BY <1>6, <1>7

\* A text is its first word and the rest, and is told by them.
LEMMA Words ==
    ASSUME NEW text \in Seq(STRING), NEW other \in Seq(STRING), Len(text) > 1, Len(other) > 1,
           text[1] = other[1], Tail(text) = Tail(other)
    PROVE  text = other
<1>1. text = <<text[1]>> \o Tail(text) /\ other = <<other[1]>> \o Tail(other)
    OBVIOUS
<1> QED BY <1>1

\* The credentials of a request are accepted only if the source in force
\* lists them.
LEMMA AcceptedIsListed ==
    ASSUME NEW s, WellTyped(s), NEW text \in Seq(STRING), BasicAuth(Load(s).clients, text)
    PROVE  Listed(s, text)
<1> DEFINE clients == Load(s).clients
<1>1. Len(text) > 1 /\ <<text[1]>> \in DOMAIN clients /\ clients[<<text[1]>>] = Tail(text)
    BY DEF BasicAuth
<1> HIDE DEF clients
<1>2. CASE Usable(Creds(s)) # {}
  <2>1. Creds(s) \in Seq(Seq(STRING)) /\ clients = parseClientCredentials(Creds(s))
      BY <1>2, ClientsLoaded DEF clients, Creds, WellTyped, Usable
  <2>2. PICK i \in Usable(Creds(s)) :
            /\ LastOfItsClient(Creds(s), i, Len(Creds(s)))
            /\ <<text[1]>> = <<Creds(s)[i][1]>> /\ clients[<<text[1]>>] = Tail(Creds(s)[i])
      BY <1>1, <2>1, LastEntryCounts
  <2>3. Creds(s)[i] = text
    <3>1. Creds(s)[i] \in Seq(STRING) /\ Len(Creds(s)[i]) > 1
      <4>1. i \in DOMAIN Creds(s) /\ Len(Creds(s)[i]) > 1
          BY Zenon DEF Usable, HasBoth
      <4> QED BY <2>1, <4>1
    <3>2. text[1] = Creds(s)[i][1] /\ Tail(text) = Tail(Creds(s)[i])
        BY <1>1, <2>2
    <3> QED BY <1>1, <3>1, <3>2, Words, Zenon
  <2>4. \A j \in Usable(Creds(s)) : j > i => Creds(s)[j][1] # text[1]
      BY <2>1, <2>2, <2>3 DEF LastOfItsClient, Usable
  <2> QED BY <1>2, <2>2, <2>3, <2>4, Zenon DEF Listed, Creds, Usable, HasBoth
<1>3. CASE Usable(Creds(s)) = {}
  <2>1. "clients" \in DOMAIN s.yaml /\ s.yaml.clients # Bad /\ clients = s.yaml.clients
      BY <1>1, <1>3, ClientsLoaded DEF clients, Default
  <2>2. <<text[1]>> \o clients[<<text[1]>>] = text
      BY <1>1
  <2> QED BY <1>1, <1>3, <2>1, <2>2, Zenon DEF Listed, Creds, Usable, HasBoth
<1> QED BY <1>2, <1>3

\* A client that is listed is accepted, if no name has a colon.
LEMMA ListedIsAccepted ==
    ASSUME NEW s, WellTyped(s), NEW text \in Seq(STRING), Listed(s, text),
           \A name \in DOMAIN Load(s).clients : Len(name) = 1
    PROVE  BasicAuth(Load(s).clients, text)
<1> DEFINE clients == Load(s).clients
<1> SUFFICES /\ Len(text) > 1 /\ <<text[1]>> \in DOMAIN clients
             /\ clients[<<text[1]>>] = Tail(text)
  <2> HIDE DEF clients
  <2> QED BY DEF BasicAuth, clients
<1>1. CASE Usable(Creds(s)) # {}
  <2>1. Creds(s) \in Seq(Seq(STRING)) /\ clients = parseClientCredentials(Creds(s))
      BY <1>1, ClientsLoaded DEF Creds, WellTyped, Usable
  <2>2. PICK i \in Usable(Creds(s)) :
            Creds(s)[i] = text /\ \A j \in Usable(Creds(s)) : j > i => Creds(s)[j][1] # text[1]
      BY <1>1, Zenon DEF Listed, Creds, Usable, HasBoth
  <2>3. Len(text) > 1
      BY <2>2 DEF Usable, HasBoth
  <2>4. <<text[1]>> \in DOMAIN clients
      BY <2>1, <2>2, LastEntryCounts
  <2>5. PICK k \in Usable(Creds(s)) :
            /\ LastOfItsClient(Creds(s), k, Len(Creds(s)))
            /\ <<text[1]>> = <<Creds(s)[k][1]>> /\ clients[<<text[1]>>] = Tail(Creds(s)[k])
      BY <2>1, <2>4, LastEntryCounts
  <2>6. k = i
    <3>1. i \in 1 .. Len(Creds(s)) /\ k \in 1 .. Len(Creds(s)) /\ Len(Creds(s)) \in Nat
        BY <2>1 DEF Usable
    <3>2. ~(k > i)
        BY <2>2, <2>5
    <3>3. ~(i > k)
        BY <2>2, <2>5, <3>1 DEF LastOfItsClient
    <3> QED BY <3>1, <3>2, <3>3
  <2> QED BY <2>2, <2>3, <2>4, <2>5, <2>6
<1>2. CASE Usable(Creds(s)) = {}
  <2>1. PICK name \in DOMAIN s.yaml.clients :
            /\ name \o s.yaml.clients[name] = text
            /\ "clients" \in DOMAIN s.yaml /\ s.yaml.clients # Bad
      BY <1>2, Zenon DEF Listed, Creds, Usable, HasBoth
  <2>2. clients = s.yaml.clients
      BY <1>2, <2>1, ClientsLoaded
  <2>3. name \in Seq(STRING) /\ Len(name) = 1 /\ clients[name] \in Seq(STRING) \ {<<>>}
      BY <2>1, <2>2 DEF WellTyped
  <2> DEFINE key == clients[name]
  <2>4. text = name \o key /\ key \in Seq(STRING) /\ Len(key) > 0
    <3>1. text = name \o key
        BY <2>1, <2>2
    <3> HIDE DEF clients
    <3> QED BY <2>3, <3>1
  <2>5. name \in DOMAIN clients
      BY <2>1, <2>2
  <2> HIDE DEF key
  <2>6. Len(text) > 1 /\ name = <<text[1]>> /\ Tail(text) = key
    <3>1. name = <<name[1]>>
        BY <2>3
    <3>2. /\ text = <<name[1]>> \o key /\ Len(text) = 1 + Len(key)
          /\ \A i \in 1 .. Len(key) : text[i + 1] = key[i]
      <4>1. PICK word : word = name[1]
          OBVIOUS
      <4>2. text = <<word>> \o key
          BY <2>4, <3>1, <4>1, Zenon
      <4>3. Len(text) = 1 + Len(key) /\ \A i \in 1 .. Len(key) : text[i + 1] = key[i]
          BY <2>4, <4>2
      <4> QED BY <4>1, <4>2, <4>3, Zenon
    <3>3. text[1] = name[1]
        BY <2>3, <2>4, <3>2
    <3>4. Tail(text) = key
        BY <2>4, <3>2
    <3>5. Len(text) > 1
        BY <2>4, <3>2
    <3> QED BY <3>1, <3>3, <3>4, <3>5
  <2> QED BY <2>5, <2>6 DEF key
<1> QED BY <1>1, <1>2

\* If the operator asked for authentication, the configuration that is
\* loaded has it: the environment decides if it can, else the file.
LEMMA AskedIsLoaded ==
    ASSUME NEW s, WellTyped(s), Bad \notin BOOLEAN, AuthAsked(s)
    PROVE  Load(s).enabled = TRUE
<1> DEFINE mentions(source) == "enabled" \in DOMAIN source /\ source.enabled \in BOOLEAN
           file == loadFromYAML(Default, s.yaml)
           env == [f \in DOMAIN s.env |-> IF f = "clients" THEN EnvClients(s.env.clients)
                                         ELSE s.env[f]]
<1>1. \/ mentions(s.env) /\ s.env.enabled = TRUE
      \/ ~mentions(s.env) /\ mentions(s.yaml) /\ s.yaml.enabled = TRUE
    BY DEF AuthAsked
<1>2. "enabled" \in DOMAIN file
    BY DEF loadFromYAML, Overlay, Default
<1>3. file.enabled = IF "enabled" \in DOMAIN s.yaml /\ s.yaml.enabled # Bad
                     THEN s.yaml.enabled ELSE FALSE
    BY DEF loadFromYAML, Overlay, Default
<1>4. /\ DOMAIN env = DOMAIN s.env
      /\ "enabled" \in DOMAIN s.env => env.enabled = s.env.enabled
    OBVIOUS
<1>5. Load(s) = Overlay(file, env)
    BY DEF Load, loadFromEnv
<1> HIDE DEF file, env
<1>6. Load(s).enabled = IF "enabled" \in DOMAIN env /\ env.enabled # Bad
                        THEN env.enabled ELSE file.enabled
    BY <1>2, <1>5 DEF Overlay
<1>7. TRUE # Bad /\ ("enabled" \in DOMAIN s.env => s.env.enabled \in BOOLEAN \/ s.env.enabled = Bad)
    BY DEF WellTyped
<1>8. CASE mentions(s.env) /\ s.env.enabled = TRUE
  <2>1. "enabled" \in DOMAIN env /\ env.enabled = TRUE
      BY <1>4, <1>8, Zenon
  <2> QED BY <1>6, <1>7, <2>1, Zenon
<1>9. CASE ~mentions(s.env) /\ mentions(s.yaml) /\ s.yaml.enabled = TRUE
  <2>1. "enabled" \in DOMAIN s.yaml /\ s.yaml.enabled # Bad
      BY <1>7, <1>9, Zenon
  <2>2. file.enabled = TRUE
      BY <1>3, <1>9, <2>1, Zenon
  <2>3. ~("enabled" \in DOMAIN env /\ env.enabled # Bad)
      BY <1>4, <1>7, <1>9, Zenon
  <2> QED BY <1>6, <2>2, <2>3, Zenon
<1> QED BY <1>1, <1>8, <1>9
=============================================================================
