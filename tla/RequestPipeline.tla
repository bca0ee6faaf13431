-------------------------- MODULE RequestPipeline --------------------------
(***************************************************************************)
(* One POST on its way through the middleware chain that Run puts before   *)
(* the handlers (internal/server/server.go), and its answer on the way     *)
(* back.  The server is started first; then the agent is started and sends *)
(* (internal/agent/sender.go), or some other client does.  What both do    *)
(* depends on the options that Config finds for them.  A body is the       *)
(* sequence of the encodings its JSON is wrapped in, the outermost first:  *)
(* <<>> is JSON, <<"rsa", "gzip">> a gzipped body that was then encrypted. *)
(* A hash names its key and the bytes it covers.  There is one RSA pair.   *)
(***************************************************************************)
EXTENDS Config, Sequences

CONSTANTS
    Keys,           \* the shared HMAC keys
    OtherPosts,     \* what clients other than the agent send
    ServerSources,  \* what the server may be started with
    AgentSources    \* what the agent may be started with

Addresses == {"none", "inside", "outside"}   \* of the trusted subnet
Paths     == {"/update/", "/updates/", "/value/"}
Bodies    == {<<>>, <<"gzip">>, <<"rsa">>, <<"rsa", "gzip">>}
Hashes    == [key : Keys, of : Bodies]

\* ip: the X-Real-IP header.  gzip: whether Accept-Encoding has "gzip".
Messages == [from : {"agent", "resty", "client"}, path : Paths, body : Bodies,
             encoding : {"gzip", "rsa", None}, hash : Hashes \cup {None},
             ip : Addresses, gzip : BOOLEAN]

\* refused: by the handler, for what the decoded update or query says.
Answers == [status : {"ok", "refused", "bad", "forbidden", None}, body : Bodies,
            encoding : {"gzip", None}, hash : Hashes \cup {None}]

Texts == Keys \cup {None, "zero", "bad", "negative", "set", "private", "public", "missing"}

Files(options) == [readable : BOOLEAN, values : [options \ {"subnet"} -> Texts]] \cup {None}

ASSUME PipelineAssumption ==
    /\ None \notin Keys \cup Messages \cup {"gzip", "rsa"}
    /\ \A m \in OtherPosts : m \in Messages /\ m.from # "agent"
    /\ ServerSources \subseteq Sources(ServerOptions, Texts, Files(ServerOptions))
    /\ AgentSources \subseteq Sources(AgentOptions, Texts, Files(AgentOptions))
    /\ \A s \in ServerSources \cup AgentSources : {s.env["key"], s.flags["key"]} \subseteq Keys \cup {None}

VARIABLES
    serverSource, agentSource,  \* what they were started with
    server, agent,              \* their options, None when not running
    localIP,   \* the address the agent found for itself
    at,        \* the middleware that has the message
    msg,       \* the message as the middlewares have left it
    answer,
    handled    \* history: the message the handler decoded

startVars == <<serverSource, agentSource, server, agent, localIP>>
vars == <<startVars, at, msg, answer, handled>>

Stations == {"boot", "up", "sender", "gunzip", "subnet", "decrypt", "verify", "compress",
             "handler", "sign", "done", "unsent", "stopped"}

TypeOK ==
    /\ serverSource \in ServerSources \cup {None}
    /\ agentSource \in AgentSources \cup {None}
    /\ server \in [ServerOptions -> Texts] \cup {None}
    /\ agent \in [AgentOptions -> Texts] \cup {None}
    /\ localIP \in Addresses
    /\ at \in Stations
    /\ msg \in Messages \cup {None}
    /\ answer \in Answers
    /\ handled \in Messages \cup {None}

Init ==
    /\ serverSource = None /\ agentSource = None
    /\ server = None /\ agent = None
    /\ localIP = "none"
    /\ at = "boot"
    /\ msg = None
    /\ answer = [status |-> None, body |-> <<>>, encoding |-> None, hash |-> None]
    /\ handled = None

-----------------------------------------------------------------------------
\* The starts.  A key file that cannot be used ends the program.

StartServer(s) ==
    /\ at = "boot"
    /\ serverSource' = s
    /\ LET cfg == NewServerConfig(s) IN
       \/ /\ cfg # None
          /\ cfg["cryptoKey"] # None => LoadPrivateKey(cfg["cryptoKey"])
          /\ server' = cfg
          /\ at' = "up"
       \/ /\ cfg # None => cfg["cryptoKey"] # None /\ ~LoadPrivateKey(cfg["cryptoKey"])
          /\ at' = "stopped"
          /\ UNCHANGED server
    /\ UNCHANGED <<agentSource, agent, localIP, msg, answer, handled>>

StartAgent(s, ip) ==
    /\ at = "up"
    /\ agentSource' = s
    /\ localIP' = ip
    /\ LET cfg == NewAgentConfig(s) IN
       \/ /\ cfg # None
          /\ cfg["cryptoKey"] # None => LoadPublicKey(cfg["cryptoKey"])
          /\ agent' = cfg
          /\ at' = "sender"
       \/ /\ cfg # None => cfg["cryptoKey"] # None /\ ~LoadPublicKey(cfg["cryptoKey"])
          /\ at' = "stopped"
          /\ UNCHANGED agent
    /\ UNCHANGED <<serverSource, server, msg, answer, handled>>

-----------------------------------------------------------------------------
\* The senders.

Encrypts == agent["cryptoKey"] # None

Sign(key, body) == IF key = None THEN None ELSE [key |-> key, of |-> body]

AgentSendsMutant(path) ==
    /\ at = "sender"
    /\ at' = "gunzip"
    /\ msg' = [from |-> "agent", path |-> path, body |-> <<"gzip", "gzip">>,
               encoding |-> "gzip", hash |-> Sign(agent["key"], <<>>),
               ip |-> localIP, gzip |-> TRUE]
    /\ UNCHANGED <<startVars, answer, handled>>

\* sendMetricJSON and SendBatchMetrics sign the JSON, compress it and encrypt
\* the result; RSA takes what fits its key, which a batch may not.
AgentSends(path) ==
    /\ at = "sender"
    /\ \/ /\ Encrypts /\ path = "/updates/"
          /\ at' = "unsent"
          /\ UNCHANGED msg
       \/ /\ at' = "gunzip"
          /\ msg' = [from |-> "agent", path |-> path,
                     body |-> IF Encrypts THEN <<"rsa", "gzip">> ELSE <<"gzip">>,
                     encoding |-> IF Encrypts THEN "rsa" ELSE "gzip",
                     hash |-> Sign(agent["key"], <<>>),
                     ip |-> localIP, gzip |-> TRUE]
    /\ UNCHANGED <<startVars, answer, handled>>

\* Any other client; "resty" stands for a User-Agent that contains go-resty.
ClientSends(m) ==
    /\ at = "up"
    /\ at' = "gunzip"
    /\ msg' = m
    /\ UNCHANGED <<startVars, answer, handled>>

-----------------------------------------------------------------------------
\* The chain, in the order of the router.Use calls.

Pass(from, to, m) ==
    /\ at = from
    /\ at' = to
    /\ msg' = m
    /\ UNCHANGED <<startVars, answer, handled>>

\* http.Error, straight to the client.
Refuse(from, status) ==
    /\ at = from
    /\ at' = "done"
    /\ answer' = [answer EXCEPT !.status = status]
    /\ UNCHANGED <<startVars, msg, handled>>

\* A middleware for messages of this Content-Encoding, which takes off the
\* encoding or fails because the body does not have it.
Unwrap(from, to, encoding) ==
    IF msg.encoding # encoding THEN Pass(from, to, msg)
    ELSE IF msg.body # <<>> /\ Head(msg.body) = encoding
         THEN Pass(from, to, [msg EXCEPT !.body = Tail(@), !.encoding = None])
         ELSE Refuse(from, "bad")

GzipDecompressRequestMutant ==
    at = "gunzip" /\ Pass("gunzip", "subnet", [msg EXCEPT !.encoding = None])

GzipDecompressRequest == at = "gunzip" /\ Unwrap("gunzip", "subnet", "gzip")

TrustedSubnetMiddleware ==
    IF server["subnet"] # None /\ msg.ip # "inside" THEN Refuse("subnet", "forbidden")
                                       ELSE Pass("subnet", "decrypt", msg)

DecryptionMiddleware ==
    IF server["cryptoKey"] # None THEN Unwrap("decrypt", "verify", "rsa")
                      ELSE Pass("decrypt", "verify", msg)

\* Only the two JSON update paths are verified, and no message of go-resty.
ShouldVerify ==
    /\ server["key"] # None
    /\ msg.from # "resty"
    /\ msg.path \in {"/update/", "/updates/"}

VerifyMutant ==
    IF ShouldVerify /\ msg.hash \notin {None, Sign(server["key"], msg.body)}
    THEN Refuse("verify", "bad")
    ELSE Pass("verify", "compress", msg)

\* The first half of SignatureMiddleware: the hash of the body as it is now.
Verify ==
    IF ShouldVerify /\ msg.hash # Sign(server["key"], msg.body)
    THEN Refuse("verify", "bad")
    ELSE Pass("verify", "compress", msg)

\* GzipCompressResponse announces the encoding before the handler runs.
GzipCompressResponse ==
    /\ at = "compress"
    /\ at' = "handler"
    /\ answer' = [answer EXCEPT !.encoding = IF msg.gzip THEN "gzip" ELSE None]
    /\ UNCHANGED <<startVars, msg, handled>>

\* The handler decodes the JSON.  Then MetricsService decides: a counter may be
\* refused, a metric unknown, a synchronous save fail.  What the handler writes
\* goes through the gzip writer, its errors too.
Handle ==
    /\ at = "handler"
    /\ at' = "sign"
    /\ \E status \in IF msg.body = <<>> THEN {"ok", "refused"} ELSE {"bad"} :
          answer' = [answer EXCEPT !.status = status,
                                   !.body = IF answer.encoding = "gzip" THEN <<"gzip">> ELSE <<>>]
    /\ handled' = msg
    /\ UNCHANGED <<startVars, msg>>

SignAnswerMutant ==
    /\ at = "sign"
    /\ at' = "done"
    /\ answer' = [answer EXCEPT !.hash = Sign(server["key"], <<>>)]
    /\ UNCHANGED <<startVars, msg, handled>>

\* The second half of SignatureMiddleware: the recorded answer is hashed, then
\* sent.
SignAnswer ==
    /\ at = "sign"
    /\ at' = "done"
    /\ answer' = [answer EXCEPT !.hash = Sign(server["key"], answer.body)]
    /\ UNCHANGED <<startVars, msg, handled>>

\* The client has its answer, the agent logged that it could not encrypt, or
\* a program has ended.
Over == at \in {"done", "unsent", "stopped"} /\ UNCHANGED vars

Next ==
    \/ \E s \in ServerSources : StartServer(s)
    \/ \E s \in AgentSources, ip \in Addresses : StartAgent(s, ip)
    \/ \E path \in {"/update/", "/updates/"} : AgentSends(path)
    \/ \E m \in OtherPosts : ClientSends(m)
    \/ GzipDecompressRequest
    \/ at = "subnet" /\ TrustedSubnetMiddleware
    \/ at = "decrypt" /\ DecryptionMiddleware
    \/ at = "verify" /\ Verify
    \/ GzipCompressResponse \/ Handle \/ SignAnswer
    \/ Over

Spec == Init /\ [][Next]_vars

-----------------------------------------------------------------------------
\* The option that s gives in the environment, or else in the flags.
Told(s, o) == IF s.env[o] # None THEN s.env[o] ELSE s.flags[o]
ServerKey  == Told(serverSource, "key")

(* Integrity of updates: with a key in the server's environment or flags   *)
(* the handlers of /update/ and /updates/ get from anyone but go-resty,    *)
(* whose messages are not verified, only bytes that the sender's hash      *)
(* covers, after every transformation of the chain before them.            *)
VerifiedBody ==
    handled # None => (/\ ServerKey # None
                       /\ handled.from # "resty" /\ handled.path # "/value/"
                       => handled.hash = [key |-> ServerKey, of |-> handled.body])

(* The hash on an answer of a handler covers the bytes that are sent, the  *)
(* compressed ones, and Content-Encoding tells how to read them, although  *)
(* they are announced, written, compressed and hashed at four places.      *)
AnswerVerifiable ==
    at = "done" =>
        /\ answer.body = (IF answer.encoding = None THEN <<>> ELSE <<answer.encoding>>)
        /\ handled # None => answer.hash = Sign(server["key"], answer.body)

\* The agent and the server run with options that fit.
Agreed ==
    /\ server["key"] \in {None, agent["key"]}
    /\ (server["cryptoKey"] = None) = (agent["cryptoKey"] = None)
    /\ server["subnet"] # None => localIP = "inside"

FromAgent == msg # None /\ msg.from = "agent"

\* The handler has got JSON that it can decode.
Delivered == handled # None /\ handled.body = <<>>

(* Without encryption, of an agent whose options agree with the server's   *)
(* every metric and every batch reaches the handler as the JSON that was   *)
(* sent: what the agent signs is what the server verifies, though the one  *)
(* signs before and the other after compression.  Only the handler may     *)
(* refuse it, for what MetricsService says of the update.                  *)
AgentAccepted ==
    FromAgent /\ at = "done" => (Agreed /\ ~Encrypts => Delivered)

(* sender.go:208 says of "rsa" that the server expects this header: with   *)
(* encryption too, the messages of an agent whose options agree with the   *)
(* server's reach the handler as JSON.                                     *)
EncryptedAgentAccepted ==
    FromAgent /\ at = "done" => (Agreed /\ Encrypts => Delivered)

(* json.go:110 says of ApplyToAgentConfig that it applies the values of    *)
(* the JSON file that were not set by flags or the environment: an agent   *)
(* told no key by either has the one of its file, and so for CRYPTO_KEY.   *)
FileOptionsApply ==
    agent # None /\ getConfigPath(agentSource) # None =>
        \A o \in {"key", "cryptoKey"} :
            Told(agentSource, o) = None => agent[o] = getConfigPath(agentSource).values[o]
=============================================================================
