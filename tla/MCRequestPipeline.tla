------------------------- MODULE MCRequestPipeline -------------------------
(* Two keys, so that a hash can be right, wrong or missing.  The clients   *)
(* send plain, compressed and encrypted JSON, rightly and wrongly labelled. *)
(* The options that matter come from the environment, the flags, a file, a *)
(* file that cannot be read, or several of them.                           *)
EXTENDS RequestPipeline, TLC

CONSTANTS k1, k2

MCKeys == {k1, k2}

Post(from, path, body, encoding, hash, ip, gzip) ==
    [from |-> from, path |-> path, body |-> body, encoding |-> encoding,
     hash |-> hash, ip |-> ip, gzip |-> gzip]

MCOtherPosts ==
    {Post("client", p, b, e, Sign(k, <<>>), "inside", FALSE) :
        p \in {"/update/", "/value/"}, b \in {<<>>, <<"gzip">>, <<"rsa">>},
        e \in {None, "gzip", "rsa"}, k \in {None, k1}}
    \cup {Post("resty", p, <<"gzip">>, "gzip", None, "none", TRUE) : p \in Paths}
    \cup {Post("client", "/updates/", b, "gzip", Sign(k, <<"gzip">>), ip, TRUE) :
            b \in {<<>>, <<"gzip">>}, k \in MCKeys, ip \in Addresses}

Unset(options) == [o \in options |-> None]
Defaults(options) ==
    [o \in options |-> IF o \in {"key", "cryptoKey", "subnet", "dsn", "auditFile", "auditURL"}
                       THEN None ELSE "set"]

\* A file that sets everything, and one that is no JSON.
File(options) ==
    [readable |-> TRUE,
     values |-> [o \in options \ {"subnet"} |->
                    CASE o = "key" -> k2 [] o = "cryptoKey" -> "private"
                      [] o = "storeInterval" -> "bad" [] o = "rateLimit" -> "negative"
                      [] OTHER -> "set"]]
Garbage(options) == [File(options) EXCEPT !.readable = FALSE]

Given(options, env, flags, c, CONFIG) ==
    [env |-> env @@ Unset(options), flags |-> flags @@ Defaults(options),
     c |-> c, config |-> None, CONFIG |-> CONFIG]

MCServerSources ==
    {Given(ServerOptions, env, flags, c, None) :
        env \in {"key" :> None, "key" :> k1, "cryptoKey" :> "private", "cryptoKey" :> "public",
                 "subnet" :> "set"},
        flags \in {"key" :> None, "key" :> k2, "subnet" :> "set", "cryptoKey" :> "private"},
        c \in {None, File(ServerOptions)}}
    \cup {Given(ServerOptions, "key" :> None, "key" :> None, File(ServerOptions), Garbage(ServerOptions)),
          Given(ServerOptions, "key" :> None, "key" :> k1, None, Garbage(ServerOptions))}
    \cup {Given(ServerOptions, o :> "bad", "key" :> k1, None, None) : o \in {"storeInterval", "restore", "subnet"}}
    \cup {Given(ServerOptions, "storeInterval" :> "zero", "address" :> a, None, None) : a \in {None, "set"}}

MCAgentSources ==
    {Given(AgentOptions, env, flags, c, None) :
        env \in {"key" :> None, "key" :> k1, "cryptoKey" :> "private", "cryptoKey" :> "public"},
        flags \in {"key" :> None, "key" :> k2, "cryptoKey" :> "public"},
        c \in {None, File(AgentOptions)}}
    \cup {Given(AgentOptions, "rateLimit" :> n, "key" :> k1, None, None) : n \in {"zero", "bad", "negative"}}
    \cup {Given(AgentOptions, "key" :> None, "key" :> k1, None, Garbage(AgentOptions))}
=============================================================================
