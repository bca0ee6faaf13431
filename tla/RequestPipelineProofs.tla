----------------------- MODULE RequestPipelineProofs -----------------------
(***************************************************************************)
(* Proofs about the middleware chain for any keys, any other clients and   *)
(* anything the two programs may be started with.  OptInv says what the    *)
(* options of the running programs are, ChainInv what is left of a message *)
(* and its answer at each station.                                         *)
(***************************************************************************)
EXTENDS RequestPipeline, TLAPS

-----------------------------------------------------------------------------
\* What comes out of the configuration of each program.

LEMMA NoneIsNew ==
    /\ None \notin Keys /\ None # "gzip" /\ None # "rsa"
BY PipelineAssumption

LEMMA ServerConfigIs ==
    ASSUME NEW s \in ServerSources, NewServerConfig(s) # None
    PROVE  /\ NewServerConfig(s) \in [ServerOptions -> Texts]
           /\ \A o \in {"key", "cryptoKey", "subnet"} : NewServerConfig(s)[o] = Told(s, o)
           /\ Told(s, "key") \in Keys \cup {None}
<1>. DEFINE start == Bound(s, ServerOptions)
            full  == Filled(s, start)
            cfg   == Overwrite(s, full)
<1>0. /\ s.env \in [ServerOptions -> Texts] /\ s.flags \in [ServerOptions -> Texts]
      /\ {s.env["key"], s.flags["key"]} \subseteq Keys \cup {None}
  BY PipelineAssumption DEF Sources
<1>1. NewServerConfig(s) = cfg
  BY DEF NewServerConfig
<1>2. /\ DOMAIN start = ServerOptions
      /\ "subnet" \in ServerOptions /\ start["subnet"] = s.flags["subnet"]
  BY DEF Bound, ServerOptions
<1>3. DOMAIN full = ServerOptions /\ full["subnet"] = s.flags["subnet"]
  BY <1>2 DEF Filled, Apply
<1>. HIDE DEF full
<1>4. /\ DOMAIN cfg = ServerOptions
      /\ cfg = [o \in ServerOptions |->
                  IF o = "subnet" /\ s.env[o] = None THEN full[o] ELSE Parse(o, Told(s, o))]
  BY <1>3 DEF Overwrite, GetEnvOrDefault, Told
<1>. HIDE DEF cfg
<1>5. \A o \in ServerOptions : Told(s, o) \in Texts /\ Parse(o, Told(s, o)) \in Texts
  BY <1>0 DEF Told, Parse, Texts
<1>6. full["subnet"] \in Texts
  BY <1>0, <1>2, <1>3
<1>7. cfg \in [ServerOptions -> Texts]
  BY <1>4, <1>5, <1>6
<1>8. \A o \in {"key", "cryptoKey", "subnet"} : o \in ServerOptions /\ Parse(o, Told(s, o)) = Told(s, o)
  BY DEF Parse, Parsed, Numbers, ServerOptions
<1>9. \A o \in {"key", "cryptoKey", "subnet"} : cfg[o] = Told(s, o)
  BY <1>3, <1>4, <1>8 DEF Told
<1>10. QED
  BY <1>0, <1>1, <1>7, <1>9 DEF Told

LEMMA AgentConfigIs ==
    ASSUME NEW s \in AgentSources, NewAgentConfig(s) # None
    PROVE  /\ NewAgentConfig(s) \in [AgentOptions -> Texts]
           /\ \A o \in {"key", "cryptoKey"} : NewAgentConfig(s)[o] = Told(s, o)
           /\ Told(s, "key") \in Keys \cup {None}
<1>. DEFINE full == Filled(s, Bound(s, AgentOptions))
            cfg  == Overwrite(s, full)
<1>0. /\ s.env \in [AgentOptions -> Texts] /\ s.flags \in [AgentOptions -> Texts]
      /\ {s.env["key"], s.flags["key"]} \subseteq Keys \cup {None}
  BY PipelineAssumption DEF Sources
<1>1. NewAgentConfig(s) = cfg
  BY DEF NewAgentConfig
<1>2. DOMAIN full = AgentOptions
  BY DEF Filled, Apply, Bound
<1>3. "subnet" \notin AgentOptions /\ "key" \in AgentOptions /\ "cryptoKey" \in AgentOptions
  BY DEF AgentOptions, Numbers
<1>. HIDE DEF full
<1>4. cfg = [o \in AgentOptions |-> Parse(o, Told(s, o))]
  BY <1>2, <1>3 DEF Overwrite, GetEnvOrDefault, Told
<1>. HIDE DEF cfg
<1>5. \A o \in AgentOptions : Parse(o, Told(s, o)) \in Texts
  BY <1>0 DEF Told, Parse, Texts
<1>6. cfg["key"] = Told(s, "key") /\ cfg["cryptoKey"] = Told(s, "cryptoKey")
  BY <1>3, <1>4 DEF Parse, Parsed, Numbers
<1>7. QED
  BY <1>0, <1>1, <1>4, <1>5, <1>6 DEF Told

\* The body under the outermost encoding.
LEMMA Inner ==
    ASSUME NEW b \in Bodies, b # <<>>
    PROVE  Tail(b) \in Bodies /\ (Head(b) = "gzip" => Tail(b) = <<>>)
<1>1. Tail(<<"gzip">>) = <<>>
  OBVIOUS
<1>2. Tail(<<"rsa">>) = <<>>
  OBVIOUS
<1>3. Tail(<<"rsa", "gzip">>) = <<"gzip">>
  OBVIOUS
<1>4. CASE b = <<"gzip">>
  BY <1>1, <1>4 DEF Bodies
<1>5. CASE b = <<"rsa">>
  BY <1>2, <1>5 DEF Bodies
<1>6. CASE b = <<"rsa", "gzip">>
  BY <1>3, <1>6 DEF Bodies
<1>7. QED
  BY <1>4, <1>5, <1>6 DEF Bodies

-----------------------------------------------------------------------------
OptInv ==
    /\ at \in {"boot"} => server = None
    /\ at \in {"boot", "up"} => agent = None
    /\ at \notin {"boot", "stopped"} =>
         /\ serverSource \in ServerSources
         /\ server \in [ServerOptions -> Texts]
         /\ \A o \in {"key", "cryptoKey", "subnet"} : server[o] = Told(serverSource, o)
         /\ ServerKey \in Keys \cup {None}
    /\ at = "sender" \/ FromAgent =>
         /\ agentSource \in AgentSources
         /\ agent \in [AgentOptions -> Texts]
         /\ agent["key"] \in Keys \cup {None}

PipeInv ==
    /\ TypeOK
    /\ OptInv
    /\ IF at \in {"boot", "up", "sender", "unsent", "stopped"} THEN msg = None ELSE msg \in Messages

\* What a station does to the message, besides passing it on: it may take off
\* the outermost encoding, and then says so.
Decoded(m, n) ==
    \/ n = m
    \/ n = [m EXCEPT !.encoding = None]
    \/ /\ m.encoding = "gzip" \/ m.encoding = "rsa"
       /\ m.body # <<>> /\ Head(m.body) = m.encoding
       /\ n = [m EXCEPT !.body = Tail(@), !.encoding = None]

Chain == {"gunzip", "subnet", "decrypt", "verify"}

\* The stations before the handler, which pass on or refuse.
ChainStep ==
    /\ at \in Chain
    /\ UNCHANGED <<startVars, handled>>
    /\ \/ /\ UNCHANGED answer
          /\ Decoded(msg, msg')
          /\ <<at, at'>> \in {<<"gunzip", "subnet">>, <<"subnet", "decrypt">>,
                              <<"decrypt", "verify">>, <<"verify", "compress">>}
       \/ /\ at' = "done" /\ msg' = msg
          /\ \E st \in {"bad", "forbidden"} : answer' = [answer EXCEPT !.status = st]

LEMMA ChainSteps ==
    /\ GzipDecompressRequest => ChainStep
    /\ at = "subnet" /\ TrustedSubnetMiddleware => ChainStep
    /\ at = "decrypt" /\ DecryptionMiddleware => ChainStep
    /\ at = "verify" /\ Verify => ChainStep
BY DEF ChainStep, Chain, Decoded, Unwrap, Pass, Refuse, GzipDecompressRequest,
       TrustedSubnetMiddleware, DecryptionMiddleware, Verify

LEMMA DecodedIsMessage ==
    ASSUME NEW m \in Messages, NEW n, Decoded(m, n)
    PROVE  /\ n \in Messages
           /\ n.from = m.from /\ n.path = m.path /\ n.hash = m.hash /\ n.ip = m.ip
<1>1. m.body # <<>> => Tail(m.body) \in Bodies
  BY Inner DEF Messages
<1>2. QED
  BY <1>1 DEF Decoded, Messages

LEMMA SignIsHash ==
    ASSUME NEW k \in Keys \cup {None}, NEW b \in Bodies
    PROVE  Sign(k, b) \in Hashes \cup {None}
BY DEF Sign, Hashes

LEMMA PipeStep == PipeInv /\ [Next]_vars => PipeInv'
<1>. SUFFICES ASSUME PipeInv, [Next]_vars PROVE PipeInv'
  OBVIOUS
<1>. USE DEF PipeInv
<1>1. ASSUME NEW s \in ServerSources, StartServer(s) PROVE PipeInv'
  <2>1. \/ /\ NewServerConfig(s) # None /\ server' = NewServerConfig(s) /\ at' = "up"
           /\ server'["cryptoKey"] \in {None, "private"}
        \/ at' = "stopped" /\ server' = server
    BY <1>1 DEF StartServer, LoadPrivateKey
  <2>2. /\ serverSource' = s /\ at = "boot" /\ msg' = None /\ server = None /\ agent' = None
        /\ UNCHANGED <<agentSource, agent, localIP, msg, answer, handled>>
    BY <1>1 DEF StartServer, OptInv
  <2>3. TypeOK' /\ msg' = None
    BY <2>1, <2>2, ServerConfigIs DEF TypeOK, Stations
  <2>4. ~FromAgent' /\ at' # "sender"
    BY <2>1, <2>2 DEF FromAgent
  <2>5. OptInv'
    BY <2>1, <2>2, <2>4, ServerConfigIs DEF OptInv, ServerKey
  <2>6. QED
    BY <2>1, <2>3, <2>5
<1>2. ASSUME NEW s \in AgentSources, NEW ip \in Addresses, StartAgent(s, ip) PROVE PipeInv'
  <2>1. \/ /\ NewAgentConfig(s) # None /\ agent' = NewAgentConfig(s) /\ at' = "sender"
           /\ agent'["cryptoKey"] \in {None, "public"}
        \/ at' = "stopped" /\ agent' = agent
    BY <1>2 DEF StartAgent, LoadPublicKey
  <2>2. /\ agentSource' = s /\ at = "up" /\ msg' = None /\ localIP' = ip /\ agent = None
        /\ UNCHANGED <<serverSource, server, msg, answer, handled>>
    BY <1>2 DEF StartAgent, OptInv
  <2>3. TypeOK' /\ msg' = None
    BY <2>1, <2>2, AgentConfigIs DEF TypeOK, Stations
  <2>4. ~FromAgent'
    BY <2>2 DEF FromAgent
  <2>5. OptInv'
    BY <2>1, <2>2, <2>4, AgentConfigIs DEF OptInv, ServerKey
  <2>6. QED
    BY <2>1, <2>3, <2>5
<1>3. ASSUME NEW path \in {"/update/", "/updates/"}, AgentSends(path) PROVE PipeInv'
  <2>1. UNCHANGED <<startVars, answer, handled>> /\ at = "sender" /\ msg = None
    BY <1>3 DEF AgentSends
  <2>2. CASE at' = "unsent" /\ UNCHANGED msg
    BY <2>1, <2>2 DEF TypeOK, OptInv, Stations, startVars, FromAgent, ServerKey
  <2>3. CASE at' = "gunzip"
    <3>1. Sign(agent["key"], <<>>) \in Hashes \cup {None}
      BY <2>1, SignIsHash DEF OptInv, Bodies
    <3>2. msg' \in Messages
      <4>1. PICK b \in {<<"rsa", "gzip">>, <<"gzip">>}, e \in {"rsa", "gzip"} :
                msg' = [from |-> "agent", path |-> path, body |-> b, encoding |-> e,
                        hash |-> Sign(agent["key"], <<>>), ip |-> localIP, gzip |-> TRUE]
        BY <1>3, <2>1, <2>3 DEF AgentSends
      <4>2. b \in Bodies /\ e \in {"gzip", "rsa", None} /\ localIP \in Addresses /\ path \in Paths
        BY DEF Bodies, TypeOK, Paths
      <4>3. QED
        BY <3>1, <4>1, <4>2 DEF Messages
    <3>3. QED
      BY <2>1, <2>3, <3>2 DEF TypeOK, OptInv, Stations, startVars, FromAgent, ServerKey
  <2>4. QED
    BY <1>3, <2>2, <2>3 DEF AgentSends
<1>4. ASSUME NEW m \in OtherPosts, ClientSends(m) PROVE PipeInv'
  <2>1. m \in Messages /\ m.from # "agent"
    BY PipelineAssumption
  <2>2. UNCHANGED <<startVars, answer, handled>> /\ at = "up" /\ at' = "gunzip" /\ msg' = m
    BY <1>4 DEF ClientSends
  <2>3. QED
    BY <2>1, <2>2 DEF TypeOK, OptInv, Stations, startVars, FromAgent, ServerKey
<1>5. ASSUME ChainStep PROVE PipeInv'
  <2>1. UNCHANGED <<startVars, handled>> /\ at \notin {"boot", "up", "sender", "unsent", "stopped"}
        /\ at' \in {"subnet", "decrypt", "verify", "compress", "done"}
    BY <1>5 DEF ChainStep, Chain
  <2>2. msg \in Messages /\ msg' \in Messages /\ msg'.from = msg.from
    BY <1>5, <2>1, DecodedIsMessage DEF ChainStep
  <2>3. answer' \in Answers
    BY <1>5 DEF ChainStep, TypeOK, Answers
  <2>4. QED
    BY <2>1, <2>2, <2>3, PipelineAssumption
    DEF TypeOK, OptInv, Stations, startVars, FromAgent, ServerKey
<1>6. ASSUME GzipCompressResponse \/ Handle \/ SignAnswer PROVE PipeInv'
  <2>1. /\ UNCHANGED <<startVars, msg>> /\ at \in {"compress", "handler", "sign"}
        /\ at' \in {"handler", "sign", "done"} /\ handled' \in {handled, msg}
    BY <1>6 DEF GzipCompressResponse, Handle, SignAnswer
  <2>2. answer' \in Answers
    <3>1. CASE SignAnswer
      <4>1. Sign(server["key"], answer.body) \in Hashes \cup {None}
        BY <2>1, SignIsHash DEF OptInv, TypeOK, Answers, ServerKey
      <4>2. QED
        BY <3>1, <4>1 DEF SignAnswer, TypeOK, Answers
    <3>2. CASE Handle
      BY <3>2 DEF Handle, TypeOK, Answers, Bodies
    <3>3. CASE GzipCompressResponse
      BY <3>3 DEF GzipCompressResponse, TypeOK, Answers
    <3>4. QED
      BY <1>6, <3>1, <3>2, <3>3
  <2>3. QED
    BY <2>1, <2>2 DEF TypeOK, OptInv, Stations, startVars, FromAgent, ServerKey
<1>7. CASE UNCHANGED vars
  BY <1>7 DEF vars, startVars, TypeOK, OptInv, FromAgent, ServerKey
<1>8. QED
  BY <1>1, <1>2, <1>3, <1>4, <1>5, <1>6, <1>7, ChainSteps DEF Next, Over

LEMMA PipeInvariant == Spec => []PipeInv
<1>1. Init => PipeInv
  BY DEF Init, PipeInv, TypeOK, OptInv, FromAgent, ServerKey, Addresses, Stations, Answers, Bodies
<1>2. QED
  BY <1>1, PipeStep, PTL DEF Spec

\* Every message and answer on the chain is well formed, and the options of
\* both programs have their types.
THEOREM PipelineTypes == Spec => []TypeOK
BY PipeInvariant, PTL DEF PipeInv

-----------------------------------------------------------------------------
\* The steps of the chain, of the handler and of the answer, and those before.
Early == {"boot", "up", "sender", "unsent", "stopped"}

LEMMA Steps ==
    ASSUME PipeInv, [Next]_vars
    PROVE  \/ /\ at \in Early /\ UNCHANGED <<answer, handled>>
              /\ at' \in Early \cup {"gunzip"}
              /\ \/ UNCHANGED msg
                 \/ \E path \in {"/update/", "/updates/"} : AgentSends(path)
                 \/ \E m \in OtherPosts : ClientSends(m)
           \/ ChainStep
           \/ GzipCompressResponse \/ Handle \/ SignAnswer
           \/ UNCHANGED vars
<1>1. ASSUME NEW s \in ServerSources, StartServer(s)
      PROVE  at \in Early /\ at' \in Early /\ UNCHANGED <<answer, handled, msg>>
  BY <1>1 DEF StartServer, Early
<1>2. ASSUME NEW s \in AgentSources, NEW ip \in Addresses, StartAgent(s, ip)
      PROVE  at \in Early /\ at' \in Early /\ UNCHANGED <<answer, handled, msg>>
  BY <1>2 DEF StartAgent, Early
<1>3. ASSUME NEW path \in {"/update/", "/updates/"}, AgentSends(path)
      PROVE  at \in Early /\ at' \in Early \cup {"gunzip"} /\ UNCHANGED <<answer, handled>>
  BY <1>3 DEF AgentSends, Early
<1>4. ASSUME NEW m \in OtherPosts, ClientSends(m)
      PROVE  at \in Early /\ at' = "gunzip" /\ UNCHANGED <<answer, handled>>
  BY <1>4 DEF ClientSends, Early
<1>5. QED
  BY <1>1, <1>2, <1>3, <1>4, ChainSteps DEF Next, Over

\* Once the server is up its options stay what they are.
LEMMA OptionsStay ==
    ASSUME ChainStep \/ GzipCompressResponse \/ Handle \/ SignAnswer \/ UNCHANGED vars
    PROVE  UNCHANGED startVars /\ ServerKey' = ServerKey
BY DEF ChainStep, GzipCompressResponse, Handle, SignAnswer, vars, startVars, ServerKey, Told

\* The answer on its way back.
AnswerInv ==
    /\ at \notin {"handler", "sign", "done"} => answer.encoding = None
    /\ at \notin {"sign", "done"} => answer.body = <<>> /\ handled = None
    /\ at \in {"sign", "done"} =>
         answer.body = (IF answer.encoding = None THEN <<>> ELSE <<answer.encoding>>)
    /\ at = "done" /\ handled # None => answer.hash = Sign(server["key"], answer.body)

LEMMA AnswerStep == PipeInv /\ AnswerInv /\ [Next]_vars => AnswerInv'
<1>. SUFFICES ASSUME PipeInv, AnswerInv, [Next]_vars PROVE AnswerInv'
  OBVIOUS
<1>1. CASE at \in Early /\ UNCHANGED <<answer, handled>> /\ at' \in Early \cup {"gunzip"}
  BY <1>1 DEF AnswerInv, Early
<1>2. CASE ChainStep
  <2>1. answer'.body = <<>> /\ answer'.encoding = None /\ handled' = None
    BY <1>2 DEF ChainStep, Chain, AnswerInv, PipeInv, TypeOK, Answers
  <2>2. at' \in {"subnet", "decrypt", "verify", "compress", "done"}
    BY <1>2 DEF ChainStep
  <2>3. QED
    BY <2>1, <2>2 DEF AnswerInv
<1>3. CASE GzipCompressResponse
  BY <1>3 DEF GzipCompressResponse, AnswerInv, PipeInv, TypeOK, Answers
<1>4. CASE Handle
  BY <1>4, NoneIsNew DEF Handle, AnswerInv, PipeInv, TypeOK, Answers
<1>5. CASE SignAnswer
  <2>1. /\ answer' = [answer EXCEPT !.hash = Sign(server["key"], answer.body)]
        /\ at = "sign" /\ at' = "done" /\ server' = server
    BY <1>5, OptionsStay DEF SignAnswer, startVars
  <2>2. QED
    BY <2>1 DEF AnswerInv, PipeInv, TypeOK, Answers
<1>6. CASE UNCHANGED vars
  BY <1>6 DEF vars, startVars, AnswerInv
<1>7. QED
  BY <1>1, <1>2, <1>3, <1>4, <1>5, <1>6, Steps

(* What is announced in Content-Encoding, written by the handler through   *)
(* the gzip writer and hashed on the way out fits, for every answer.       *)
THEOREM AnswersCanBeVerified == Spec => []AnswerVerifiable
<1>1. Init => AnswerInv
  BY DEF Init, AnswerInv
<1>2. AnswerInv => AnswerVerifiable
  BY DEF AnswerInv, AnswerVerifiable
<1>3. QED
  BY <1>1, <1>2, AnswerStep, PipeInvariant, PTL DEF Spec

-----------------------------------------------------------------------------
\* The sender's hash covers the bytes of m, where it has to.
Covered(m) ==
    ServerKey # None /\ m.from # "resty" /\ m.path # "/value/"
        => m.hash = [key |-> ServerKey, of |-> m.body]

VerifyInv ==
    /\ at \in {"compress", "handler"} => Covered(msg)
    /\ at \in Early \cup Chain => handled = None
    /\ handled # None => Covered(handled)

LEMMA VerifyCovers ==
    ASSUME PipeInv, at = "verify", Verify, at' = "compress"
    PROVE  Covered(msg) /\ msg' = msg
<1>1. msg \in Messages /\ server["key"] = ServerKey
  BY DEF PipeInv, OptInv, ServerKey
<1>2. ~ShouldVerify \/ msg.hash = Sign(server["key"], msg.body)
  BY DEF Verify, Refuse
<1>3. msg' = msg
  BY DEF Verify, Refuse, Pass
<1>4. QED
  BY <1>1, <1>2, <1>3 DEF ShouldVerify, Covered, Sign, Messages, Paths

LEMMA VerifyStep == PipeInv /\ VerifyInv /\ [Next]_vars => VerifyInv'
<1>. SUFFICES ASSUME PipeInv, VerifyInv, [Next]_vars PROVE VerifyInv'
  OBVIOUS
<1>1. CASE at \in Early /\ UNCHANGED <<answer, handled>> /\ at' \in Early \cup {"gunzip"}
  BY <1>1 DEF VerifyInv, Early, Chain
<1>2. CASE ChainStep
  <2>1. handled = None /\ handled' = None /\ ServerKey' = ServerKey
    BY <1>2, OptionsStay DEF ChainStep, VerifyInv
  <2>2. at' \notin {"compress", "handler"} \/ (at = "verify" /\ at' = "compress")
    BY <1>2 DEF ChainStep
  <2>3. at = "verify" => Verify
    BY <1>2 DEF Next, ChainStep, Chain, StartServer, StartAgent, AgentSends, ClientSends,
                GzipDecompressRequest, GzipCompressResponse, Handle, SignAnswer, Over, vars
  <2>4. QED
    BY <2>1, <2>2, <2>3, VerifyCovers DEF VerifyInv, Covered
<1>3. CASE GzipCompressResponse \/ Handle \/ SignAnswer
  BY <1>3, OptionsStay
  DEF GzipCompressResponse, Handle, SignAnswer, VerifyInv, Covered, Early, Chain
<1>4. CASE UNCHANGED vars
  BY <1>4, OptionsStay DEF vars, VerifyInv, Covered
<1>5. QED
  BY <1>1, <1>2, <1>3, <1>4, Steps

(* With a key in the server's environment or flags, the handlers of the    *)
(* JSON updates get from anyone but go-resty, whose messages are let       *)
(* through unverified, only bytes that the sender's hash covers, after all *)
(* the transformations before them.                                        *)
THEOREM OnlyVerifiedBodies == Spec => []VerifiedBody
<1>1. Init => VerifyInv
  BY DEF Init, VerifyInv
<1>2. VerifyInv => VerifiedBody
  BY DEF VerifyInv, VerifiedBody, Covered
<1>3. QED
  BY <1>1, <1>2, VerifyStep, PipeInvariant, PTL DEF Spec

-----------------------------------------------------------------------------
\* A message of an agent that does not encrypt, with options that fit.
Fits == FromAgent /\ Agreed /\ ~Encrypts

AcceptInv ==
    Fits => /\ msg.hash = Sign(agent["key"], <<>>) /\ msg.ip = localIP
            /\ at = "gunzip" => msg.body = <<"gzip">> /\ msg.encoding = "gzip"
            /\ at \in {"subnet", "decrypt", "verify", "compress", "handler"} =>
                  msg.body = <<>> /\ msg.encoding = None
            /\ at \in {"sign", "done"} => Delivered

LEMMA FitsStays ==
    ASSUME UNCHANGED startVars, msg' \in Messages, msg \in Messages, msg'.from = msg.from
    PROVE  Fits' <=> Fits
BY PipelineAssumption DEF startVars, Fits, FromAgent, Agreed, Encrypts

LEMMA AcceptChain ==
    ASSUME PipeInv, AcceptInv, Fits, at \in Chain,
           GzipDecompressRequest \/ (at = "subnet" /\ TrustedSubnetMiddleware)
             \/ (at = "decrypt" /\ DecryptionMiddleware) \/ (at = "verify" /\ Verify)
    PROVE  /\ at' \in {"subnet", "decrypt", "verify", "compress"}
           /\ msg' \in Messages /\ msg'.from = msg.from
           /\ msg'.body = <<>> /\ msg'.encoding = None
           /\ msg'.hash = msg.hash /\ msg'.ip = msg.ip
<1>0. msg \in Messages
  BY DEF PipeInv, Chain
<1>1. CASE GzipDecompressRequest
  <2>1. at = "gunzip" /\ msg.body = <<"gzip">> /\ msg.encoding = "gzip"
    BY <1>1 DEF GzipDecompressRequest, AcceptInv
  <2>2. msg.body # <<>> /\ Head(msg.body) = "gzip" /\ Tail(msg.body) = <<>>
    BY <1>0, <2>1, Inner DEF Messages
  <2>3. at' = "subnet" /\ msg' = [msg EXCEPT !.body = <<>>, !.encoding = None]
    BY <1>1, <2>1, <2>2 DEF GzipDecompressRequest, Unwrap, Pass
  <2>4. QED
    BY <1>0, <2>3 DEF Messages, Bodies
<1>2. CASE at = "subnet" /\ TrustedSubnetMiddleware
  BY <1>0, <1>2 DEF TrustedSubnetMiddleware, Pass, AcceptInv, Fits, Agreed
<1>3. CASE at = "decrypt" /\ DecryptionMiddleware
  BY <1>0, <1>3, NoneIsNew DEF DecryptionMiddleware, Unwrap, Pass, AcceptInv
<1>4. CASE at = "verify" /\ Verify
  <2>1. server["key"] = None \/ msg.hash = Sign(server["key"], msg.body)
    BY <1>0, <1>4 DEF AcceptInv, Fits, Agreed
  <2>2. QED
    BY <1>0, <1>4, <2>1 DEF Verify, ShouldVerify, Pass, AcceptInv
<1>5. QED
  BY <1>1, <1>2, <1>3, <1>4

LEMMA AcceptStep == PipeInv /\ AcceptInv /\ [Next]_vars => AcceptInv'
<1>. SUFFICES ASSUME PipeInv, AcceptInv, [Next]_vars, PipeInv', Fits' PROVE AcceptInv'
  BY PipeStep DEF AcceptInv
<1>1. msg' # None /\ msg'.from = "agent"
  BY DEF Fits, FromAgent
<1>2. CASE at \in Early /\ UNCHANGED <<answer, handled>> /\ at' \in Early \cup {"gunzip"}
  <2>1. at' = "gunzip" /\ msg = None
    BY <1>1, <1>2 DEF PipeInv, Early
  <2>2. PICK path \in {"/update/", "/updates/"} : AgentSends(path)
    BY <1>1, <1>2, <2>1, PipelineAssumption
    DEF Next, Early, StartServer, StartAgent, ClientSends, GzipDecompressRequest,
        GzipCompressResponse, Handle, SignAnswer, Over, vars, startVars
  <2>3. ~Encrypts' /\ UNCHANGED startVars
    BY <2>2 DEF Fits, AgentSends
  <2>4. ~Encrypts
    BY <2>3 DEF Encrypts, startVars
  <2>5. msg' = [from |-> "agent", path |-> path, body |-> <<"gzip">>, encoding |-> "gzip",
                hash |-> Sign(agent["key"], <<>>), ip |-> localIP, gzip |-> TRUE]
    BY <2>1, <2>2, <2>4 DEF AgentSends
  <2>6. QED
    BY <2>1, <2>3, <2>5 DEF AcceptInv, startVars
<1>3. CASE ChainStep
  <2>1. UNCHANGED startVars /\ msg \in Messages /\ msg' \in Messages /\ msg'.from = msg.from
    BY <1>3, DecodedIsMessage DEF ChainStep, Chain, PipeInv
  <2>2. Fits
    BY <2>1, FitsStays
  <2>3. GzipDecompressRequest \/ (at = "subnet" /\ TrustedSubnetMiddleware)
          \/ (at = "decrypt" /\ DecryptionMiddleware) \/ (at = "verify" /\ Verify)
    BY <1>3 DEF Next, ChainStep, Chain, StartServer, StartAgent, AgentSends, ClientSends,
                GzipCompressResponse, Handle, SignAnswer, Over, vars
  <2>4. /\ at' \in {"subnet", "decrypt", "verify", "compress"}
        /\ msg'.body = <<>> /\ msg'.encoding = None
        /\ msg'.hash = msg.hash /\ msg'.ip = msg.ip
    BY <1>3, <2>2, <2>3, AcceptChain DEF ChainStep
  <2>5. QED
    BY <2>1, <2>2, <2>4 DEF AcceptInv, startVars
<1>4. CASE GzipCompressResponse \/ Handle \/ SignAnswer
  <2>1. UNCHANGED <<startVars, msg>> /\ at \in {"compress", "handler", "sign"}
    BY <1>4 DEF GzipCompressResponse, Handle, SignAnswer
  <2>2. Fits /\ msg \in Messages
    BY <2>1, FitsStays DEF PipeInv
  <2>3. CASE GzipCompressResponse
    BY <2>1, <2>2, <2>3 DEF GzipCompressResponse, AcceptInv, startVars
  <2>4. CASE Handle
    BY <2>1, <2>2, <2>4, PipelineAssumption DEF Handle, AcceptInv, Delivered, startVars
  <2>5. CASE SignAnswer
    BY <2>1, <2>2, <2>5 DEF SignAnswer, AcceptInv, Delivered, startVars
  <2>6. QED
    BY <1>4, <2>3, <2>4, <2>5
<1>5. CASE UNCHANGED vars
  BY <1>5 DEF vars, startVars, AcceptInv, Delivered, Fits, FromAgent, Agreed, Encrypts
<1>6. QED
  BY <1>2, <1>3, <1>4, <1>5, Steps

(* Everything an agent sends that does not encrypt and whose options fit   *)
(* the server's reaches the handler as the JSON that was signed; no        *)
(* middleware refuses it.                                                  *)
THEOREM PlainAgentAccepted == Spec => []AgentAccepted
<1>1. Init => AcceptInv
  BY DEF Init, AcceptInv, Fits, FromAgent
<1>2. AcceptInv => AgentAccepted
  BY DEF AcceptInv, AgentAccepted, Fits
<1>3. QED
  BY <1>1, <1>2, AcceptStep, PipeInvariant, PTL DEF Spec
=============================================================================
