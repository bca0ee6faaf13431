------------------------------- MODULE Config -------------------------------
(***************************************************************************)
(* How both programs get their options: the flags, a JSON file and the     *)
(* environment (internal/config), and the RSA key file that one option     *)
(* names (internal/crypto/keys.go).  None is the empty text, the number 0, *)
(* false and the missing file; "zero" is the text of 0 or false, "bad" one *)
(* that the option's parser rejects, "negative" a negative number.  What a *)
(* path names stands for the path: a configuration file is [readable,      *)
(* values], a key file the kind of key it holds.                           *)
(***************************************************************************)
CONSTANT None

ServerOptions == {"address", "logLevel", "dsn", "file", "auditFile", "auditURL", "key",
                  "cryptoKey", "storeInterval", "restore", "subnet"}
Numbers       == {"pollInterval", "reportInterval", "rateLimit"}
AgentOptions  == {"address", "key", "cryptoKey"} \cup Numbers
Parsed        == {"storeInterval", "restore"} \cup Numbers

\* What one program is started with: texts by option in the environment and
\* in the flags, where a flag that is not given has its default, and the files
\* that -c, -config and CONFIG name.
Sources(options, texts, files) ==
    [env : [options -> texts], flags : [options -> texts],
     c : files, config : files, CONFIG : files]

-----------------------------------------------------------------------------
Parse(o, text) == IF o \in Parsed /\ text = "zero" THEN None ELSE text

GetEnvOrDefault(s, o) == IF s.env[o] # None THEN s.env[o] ELSE s.flags[o]

getConfigPath(s) ==
    IF s.c # None THEN s.c ELSE IF s.config # None THEN s.config ELSE s.CONFIG

\* LoadFromJSON and LoadAgentFromJSON succeed, or are not called.
Readable(s) == getConfigPath(s) # None => getConfigPath(s).readable

\* A duration that does not parse is passed over, and a rate limit below 1.
Usable(o, text) == text # "bad" /\ (o = "rateLimit" => text # "negative")

\* ApplyToServerConfig and ApplyToAgentConfig: the file, which has no trusted
\* subnet, fills what is still empty.
Apply(values, cfg) ==
    [o \in DOMAIN cfg |->
        IF o # "subnet" /\ cfg[o] = None /\ Usable(o, values[o]) THEN Parse(o, values[o]) ELSE cfg[o]]

Filled(s, cfg) == IF getConfigPath(s) = None THEN cfg ELSE Apply(getConfigPath(s).values, cfg)

\* The assignments after the file has been applied.  Every option is set from
\* the environment or its flag, whatever the file gave; only the subnet, whose
\* flag was bound to the option itself, keeps its value without a variable.
Overwrite(s, cfg) ==
    [o \in DOMAIN cfg |->
        IF o = "subnet" /\ s.env[o] = None THEN cfg[o] ELSE Parse(o, GetEnvOrDefault(s, o))]

-----------------------------------------------------------------------------
\* Before the file is read: nothing, but what flag.StringVar has bound.
Bound(s, options) == [o \in options |-> IF o = "subnet" THEN s.flags[o] ELSE None]

\* The options of the server, or None when it refuses to start.
NewServerConfig(s) ==
    LET cfg == Overwrite(s, Filled(s, Bound(s, ServerOptions)))
    IN  IF /\ Readable(s)
           /\ \A o \in {"storeInterval", "restore", "subnet"} : cfg[o] # "bad"
           /\ cfg["address"] # None
        THEN cfg ELSE None

\* The options of the agent, or None; Validate wants positive numbers.
NewAgentConfig(s) ==
    LET cfg == Overwrite(s, Filled(s, Bound(s, AgentOptions)))
    IN  IF Readable(s) /\ \A o \in Numbers : cfg[o] \notin {"bad", "negative", None}
        THEN cfg ELSE None

\* The key can be used: an RSA key in a PRIVATE KEY or RSA PRIVATE KEY block.
LoadPrivateKey(path) == path = "private"

\* An RSA key in a PUBLIC KEY block.
LoadPublicKey(path) == path = "public"
=============================================================================
