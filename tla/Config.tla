------------------------------- MODULE Config -------------------------------
(***************************************************************************)
(* The configuration (internal/config/config.go) and the one place that    *)
(* decides with it, BasicAuth (internal/middleware/auth.go).               *)
(*                                                                         *)
(* A source, config.yaml or the environment, is a function from the fields *)
(* it mentions to values.  A text that holds credentials is the sequence   *)
(* of the words between its colons; the blanks TrimSpace removes and the   *)
(* commas between the entries of CLIENT_CREDENTIALS are left out.          *)
(***************************************************************************)
EXTENDS Integers, SequencesExt

CONSTANT Bad    \* a value that the parser of its field refuses

Default == [port |-> 80, readTimeout |-> 10, writeTimeout |-> 10, idleTimeout |-> 60,
            enabled |-> FALSE, clients |-> [name \in {} |-> <<>>],
            level |-> "info", format |-> "text"]

ValidLevels == {"debug", "info", "warn", "error"}

\* A field that is missing, or refused with a warning, keeps its value.
Overlay(cfg, source) ==
    [f \in DOMAIN cfg |->
        IF f \in DOMAIN source /\ source[f] # Bad THEN source[f] ELSE cfg[f]]

\* yaml.Unmarshal decodes what it can and reports the rest in one error,
\* which Load only logs; a file that is missing or no YAML mentions nothing.
loadFromYAML(cfg, yaml) == Overlay(cfg, yaml)

\* SplitN at the first colon; the name and the key must not be empty.
AddEntry(clients, pair) ==
    IF Len(pair) < 2 \/ pair[1] = "" \/ Tail(pair) = <<"">> THEN clients
    ELSE [name \in {<<Head(pair)>>} \cup DOMAIN clients |->
             IF name = <<Head(pair)>> THEN Tail(pair) ELSE clients[name]]

\* Of two entries with one name the later counts.
parseClientCredentials(creds) ==
    LET after[n \in 0 .. Len(creds)] ==
            IF n = 0 THEN Default.clients ELSE AddEntry(after[n - 1], creds[n])
    IN  after[Len(creds)]

\* The clients of the environment replace those of the file, unless none
\* can be read.
EnvClients(creds) ==
    LET clients == parseClientCredentials(creds)
    IN  IF DOMAIN clients = {} THEN Bad ELSE clients

loadFromEnv(cfg, env) ==
    Overlay(cfg, [f \in DOMAIN env |->
                    IF f = "clients" THEN EnvClients(env.clients) ELSE env[f]])

\* Mutant: the file is read after the environment.
LoadYAMLLast(given) == loadFromYAML(loadFromEnv(Default, given.env), given.yaml)

\* What a source can hold: the decoder of a field yields a value of its type
\* or refuses it (Bad is no such value), and a key has a word at least.
WellTyped(given) ==
    /\ \A source \in {given.yaml, given.env} :
          "enabled" \in DOMAIN source => source.enabled \in BOOLEAN \cup {Bad}
    /\ "clients" \in DOMAIN given.env =>
          /\ given.env.clients \in Seq(Seq(STRING))
          /\ parseClientCredentials(given.env.clients) # Bad
    /\ "clients" \in DOMAIN given.yaml /\ given.yaml.clients # Bad =>
          \A name \in DOMAIN given.yaml.clients :
              name \in Seq(STRING) /\ given.yaml.clients[name] \in Seq(STRING) \ {<<>>}

\* given: what the operator set up before the start.
Load(given) == loadFromEnv(loadFromYAML(Default, given.yaml), given.env)

Validate(cfg) ==
    /\ cfg.port \in 1 .. 65535
    /\ cfg.readTimeout > 0 /\ cfg.writeTimeout > 0 /\ cfg.idleTimeout > 0
    /\ cfg.level \in ValidLevels

\* Mutant: the credentials are split at their last colon.
BasicAuthLastColon(clients, credentials) ==
    /\ Len(credentials) >= 2
    /\ Front(credentials) \in DOMAIN clients
    /\ clients[Front(credentials)] = <<Last(credentials)>>

\* credentials: the decoded text, no words at all if the header is not Basic
\* or not base64.
BasicAuth(clients, credentials) ==
    /\ Len(credentials) >= 2
    /\ <<Head(credentials)>> \in DOMAIN clients
    /\ clients[<<Head(credentials)>>] = Tail(credentials)

-----------------------------------------------------------------------------
(* What the operator asked for, read off the sources.                      *)

\* The client with this text as its credentials is listed by the source in
\* force: by an entry of CLIENT_CREDENTIALS that no later one replaces, or,
\* if no entry there has both a name and a key, by the file.
Listed(given, text) ==
    LET creds == IF "clients" \in DOMAIN given.env THEN given.env.clients ELSE <<>>
        usable == {i \in DOMAIN creds : /\ Len(creds[i]) > 1
                                        /\ creds[i][1] # "" /\ Tail(creds[i]) # <<"">>}
        file == IF "clients" \in DOMAIN given.yaml THEN given.yaml.clients ELSE Bad
    IN  IF usable # {}
        THEN \E i \in usable : /\ creds[i] = text
                               /\ \A j \in usable : j > i => creds[j][1] # text[1]
        ELSE file # Bad /\ \E name \in DOMAIN file : name \o file[name] = text

\* Whether requests need credentials.
AuthAsked(given) ==
    LET asked(source) == {source[f] : f \in {"enabled"} \cap DOMAIN source} \cap BOOLEAN
    IN  IF asked(given.env) # {} THEN TRUE \in asked(given.env) ELSE TRUE \in asked(given.yaml)
=============================================================================
