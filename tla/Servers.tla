------------------------------- MODULE Servers -------------------------------
(***************************************************************************)
(* A platform adapter before and around its requests: the options it is    *)
(* given and started with, the binary options it arms, the configuration   *)
(* it publishes through the router, the headers every response begins     *)
(* with, and the headers and the kind of body a response ends up with.     *)
(* What happens between the two, and who catches what is thrown, is module *)
(* Platforms.                                                              *)
(*                                                                         *)
(* Options are partial functions, merged with @@ as the code spreads them. *)
(* Headers map a name to the sequence of values that were joined by commas *)
(* or appended; names that differ in case are different names of it.       *)
(***************************************************************************)
EXTENDS Integers, Sequences, FiniteSets, TLC

CONSTANTS
  GivenOptions,   \* what a program may pass to an adapter
  DevOptions,     \* the options of a Vercel development server
  LowerCase,      \* header name -> its lower-case form, where it is not in lower case
  HeaderOps,      \* what a handler may do to the headers of a response
  SentHeaders,    \* headers of a request, name -> value
  Wanted,         \* the names a headersFn asks for
  MaxServerCalls, \* calls of the program and of the runtime
  MaxHeaderOps,   \* what one chain does to the headers
  LooksAfter      \* how many calls before a request that is looked at

VARIABLE srv  \* the adapter, what it was called with and one response of it

NoValues == [n \in {} |-> n]
Nothing == NoValues                        \* no configuration
NoResponse == [at |-> "none"]
OwnOptions == "options" :> "own"           \* a server that will publish its adapter's options
ServerAdapters == {"node", "bun"}
Fetchers == {"bun", "vercel", "cloudflare"}                \* Request -> Response, headers prepared
SelfPublishing == {"aws", "gcloud", "vercel", "cloudflare"} \* nothing to wait for: set is published

Lower(n) == IF n \in DOMAIN LowerCase THEN LowerCase[n] ELSE n
Lowered(h) == [n \in {Lower(k) : k \in DOMAIN h} |-> h[CHOOSE k \in DOMAIN h : Lower(k) = n]]

DefaultOptions(a) ==
  ("headers" :> NoValues) @@
  IF a \in ServerAdapters THEN "port" :> 80 @@ "binary" :> NoValues @@ "native" :> "default" ELSE NoValues

DefaultPool == "enabled" :> FALSE @@ "size" :> "default"

\* an adapter takes the options it declares
Takes(given) == DOMAIN given \subseteq DOMAIN DefaultOptions(srv.adapter)

ServerInit(a) ==
  srv = [adapter |-> a, options |-> DefaultOptions(a), cached |-> NoValues, pool |-> DefaultPool,
         published |-> Nothing, binding |-> Nothing, log |-> << >>, response |-> NoResponse]
-----------------------------------------------------------------------------
(* Options: each step is the program's, and logged for the properties *)

Event(what, given) == [what |-> what, given |-> given]

Calls(after, event) ==
  /\ srv.response.at = "none" /\ Len(srv.log) < MaxServerCalls
  /\ event.what # "dev" => Takes(event.given)
  /\ srv' = [after EXCEPT !.log = Append(srv.log, event)]

\* fault: the new options are merged with the defaults
ForgetsEarlier(s, given) ==
  LET options == given @@ DefaultOptions(s.adapter)
  IN [s EXCEPT !.options = options,
               !.cached = IF s.adapter \in Fetchers THEN options["headers"] ELSE @,
               !.published = IF s.adapter \in SelfPublishing THEN options ELSE @]

\* set...Opts: the new options win, and everything built from them is built again
SetOptions(s, given) ==
  LET options == given @@ s.options
  IN [s EXCEPT !.options = options,
               !.cached = IF s.adapter \in Fetchers THEN options["headers"] ELSE @,
               !.published = IF s.adapter \in SelfPublishing THEN options ELSE @]

\* create...Handler is the same call with options that may be missing
SetsOptions == \E given \in GivenOptions : Calls(SetOptions(srv, given), Event("set", given))

\* configureBinary: a patch of the pool's options, not new ones
ConfigureBinary(pool, patch) == patch @@ pool

\* fault: the pool is on whatever the options say
ArmsAlways(s) == [s EXCEPT !.pool = ConfigureBinary(@, "enabled" :> TRUE @@ s.options["binary"])]

\* applyBinaryOptions: on, unless the options say off
Arms(s) == [s EXCEPT !.pool = ConfigureBinary(@, s.options["binary"] @@ "enabled" :> TRUE)]

\* fault: all of them
AsTheyAre(options) == options

\* the options as the router publishes them, without what is the runtime's own
Serializable(options) == [k \in DOMAIN options \ {"native"} |-> options[k]]

\* startNodeServer: armed now, published by the callback of listen()
StartNode ==
  /\ srv.adapter = "node" /\ srv.binding = Nothing
  /\ \E given \in GivenOptions :
       Calls([Arms(SetOptions(srv, given)) EXCEPT !.binding = OwnOptions], Event("start", given))

\* startBunServer: Bun.serve binds within the call, or throws
StartBun ==
  /\ srv.adapter = "bun"
  /\ \E given \in GivenOptions :
       LET armed == Arms(SetOptions(srv, given))
       IN \/ Calls([armed EXCEPT !.published = Serializable(armed.options)], Event("serve", given))
          \/ Calls(armed, Event("start", given))

\* startVercelDevServer: a handler with no options of its own
DevHandler == SetOptions(srv, NoValues)

\* served by Bun within the call
StartDevOnBun ==
  /\ srv.adapter = "vercel"
  /\ \E dev \in DevOptions : Calls([DevHandler EXCEPT !.published = dev], Event("dev", dev))

\* or by node, as StartNode
StartDevOnNode ==
  /\ srv.adapter = "vercel" /\ srv.binding = Nothing
  /\ \E dev \in DevOptions : Calls([DevHandler EXCEPT !.binding = dev], Event("set", NoValues))

\* the callback of listen(): the options of now, or those the server was started with
Binds ==
  /\ srv.binding # Nothing
  /\ LET config == IF srv.binding = OwnOptions THEN Serializable(srv.options) ELSE srv.binding
     IN Calls([srv EXCEPT !.binding = Nothing, !.published = config],
              IF srv.binding = OwnOptions THEN Event("listen", NoValues) ELSE Event("dev", config))

\* 'error' instead: the promise of start is rejected
BindFails ==
  /\ srv.binding # Nothing
  /\ Calls([srv EXCEPT !.binding = Nothing], Event("error", NoValues))

\* fault: the prepared headers stay
ResetKeepsHeaders(s) == [s EXCEPT !.options = DefaultOptions(s.adapter), !.published = Nothing]

\* reset...Opts: defaults, and a router that has forgotten its platform
ResetOptions(s) ==
  [s EXCEPT !.options = DefaultOptions(s.adapter), !.cached = NoValues, !.published = Nothing]

Resets == Calls(ResetOptions(srv), Event("reset", NoValues))
-----------------------------------------------------------------------------
(* Headers *)

\* fault: skipToLower for names that are not in lower case
ParsedAsWritten(h) == [n \in {m \in DOMAIN h : h[m] # ""} |-> h[n]]

\* headersFromRecord: names in lower case and no empty values
Parsed(h) == LET l == Lowered(h) IN [n \in {m \in DOMAIN l : l[m] # ""} |-> l[n]]

\* the headers of a request: node's and express' come in lower case, API
\* Gateway's as they were sent, and a Request does not mind
RequestHeaders(a, sent) ==
  CASE a = "aws" -> Parsed(sent)
    [] a = "gcloud" -> Parsed(Lowered(sent))
    [] OTHER -> Lowered(sent)

\* runHeadersMiddleFn: the HeadersSubset a headersFn is called with
HeadersGiven(a, sent) ==
  LET h == RequestHeaders(a, sent)
  IN [n \in {w \in Wanted : Lower(w) \in DOMAIN h /\ h[Lower(w)] # ""} |-> h[Lower(n)]]

Singly(h) == [n \in DOMAIN h |-> <<h[n]>>]
ServerHeader == "server" :> <<"@mionjs">>

\* AWS spreads the defaults over the server header, as they are written
FromRecord(h) == Singly(h) @@ ServerHeader

\* node and express set them, and their responses ignore case
SetOnResponse(h) == Singly(Lowered(h)) @@ ServerHeader

\* new Headers(pairs) appends them
FromPairs(h) ==
  LET l == Singly(Lowered(h))
  IN IF "server" \in DOMAIN l THEN ("server" :> (ServerHeader["server"] \o l["server"])) @@ l ELSE l @@ ServerHeader

InitialHeaders(s) ==
  CASE s.adapter \in Fetchers -> FromPairs(s.cached)
    [] s.adapter = "aws" -> FromRecord(s.options["headers"])
    [] OTHER -> SetOnResponse(s.options["headers"])

HeaderOf(h, n) == IF Lower(n) \in DOMAIN h THEN h[Lower(n)] ELSE << >>
SetHeader(h, n, v) == (Lower(n) :> <<v>>) @@ h
\* fault: a name is appended to as it is written
AppendAsWritten(h, n, v) == (n :> Append(HeaderOf(h, n), v)) @@ h

AppendHeader(h, n, v) == (Lower(n) :> Append(HeaderOf(h, n), v)) @@ h
DeleteHeader(h, n) == [m \in DOMAIN h \ {Lower(n)} |-> h[m]]

Operated(h, op) ==
  CASE op.do = "set" -> SetHeader(h, op.name, op.value)
    [] op.do = "append" -> AppendHeader(h, op.name, op.value)
    [] op.do = "delete" -> DeleteHeader(h, op.name)
-----------------------------------------------------------------------------
(* One response *)

\* a request arrives at an adapter that can be called; fits: its body can be
\* written, that is JSON takes it or there is a buffer with it
RequestArrives ==
  /\ srv.response.at = "none" /\ Len(srv.log) <= LooksAfter
  /\ \E mode \in {"json", "stringifyJson", "binary"}, fits \in BOOLEAN :
       /\ mode = "stringifyJson" => fits
       /\ srv' = [srv EXCEPT !.response =
                    [at |-> "chain", mode |-> mode, fits |-> fits, headers |-> InitialHeaders(srv), ops |-> << >>]]

Progresses(response) == srv' = [srv EXCEPT !.response = response]
At(where) == srv.response.at = where

\* a handler operates on them, or returns a HeadersSubset that is set on them
HandlerOperates ==
  /\ At("chain") /\ Len(srv.response.ops) < MaxHeaderOps
  /\ \E op \in HeaderOps :
       Progresses([srv.response EXCEPT !.headers = Operated(@, op), !.ops = Append(@, op)])

ContentType(mode) == IF mode = "binary" THEN "octets" ELSE "json"

\* serializeResponseBody, the last of the chain
Serializes ==
  /\ At("chain")
  /\ Progresses([srv.response EXCEPT !.at = "reply", !.headers = SetHeader(@, "content-type", ContentType(srv.response.mode))])

\* node and express send a length always, the others where they copy bytes
SendsLength(a, mode) == a \in {"node", "gcloud"} \/ (a # "aws" /\ mode = "binary")

\* the switch of reply(): the headers that go with a body of this mode
ReplyHeaders(a, h, mode) ==
  LET told == IF mode = "json" /\ a \in {"aws", "gcloud"} THEN SetHeader(h, "content-type", "json") ELSE h
  IN IF SendsLength(a, mode) THEN SetHeader(told, "content-length", mode) ELSE told

ReplyThrows(a, response) == ~response.fits \/ (response.mode = "binary" /\ a = "aws")

\* fault: the headers are taken for set already
KeptHeaders(h) == h

\* getRouterFatalErrorResponse: always JSON
FatalHeaders(h) == SetHeader(h, "content-type", "json")

SentAs(a, response) ==
  LET failed == ReplyThrows(a, response)
      mode == IF failed THEN "json" ELSE response.mode
      h == IF failed THEN FatalHeaders(response.headers) ELSE response.headers
  IN [response EXCEPT !.at = "sent", !.mode = mode, !.headers = ReplyHeaders(a, h, mode)]

Replying == At("reply") /\ Progresses(SentAs(srv.adapter, srv.response))

ServerNext ==
  \/ SetsOptions \/ StartNode \/ StartBun \/ StartDevOnBun \/ StartDevOnNode \/ Binds \/ BindFails \/ Resets
  \/ RequestArrives \/ HandlerOperates \/ Serializes \/ Replying
-----------------------------------------------------------------------------
(* What the log says *)

\* the calls up to the i-th that a reset has not undone
Standing(i) == {j \in 1 .. i : \A k \in j .. i : srv.log[k].what # "reset"}
Gave(k, i) == {j \in Standing(i) : srv.log[j].what # "dev" /\ k \in DOMAIN srv.log[j].given}
Latest(S) == CHOOSE i \in S : \A j \in S : j <= i

OptionAt(k, i) ==
  IF Gave(k, i) = {} THEN DefaultOptions(srv.adapter)[k] ELSE srv.log[Latest(Gave(k, i))].given[k]
OptionsKnown == DOMAIN DefaultOptions(srv.adapter)
OptionsAt(i) == [k \in OptionsKnown |-> OptionAt(k, i)]

\* Every option is the one given last since the last reset, by whichever call and
\* whether or not that call succeeded; the prepared headers are theirs.
OptionsAsGiven ==
  /\ srv.options = OptionsAt(Len(srv.log))
  /\ srv.adapter \in Fetchers => srv.cached = srv.options["headers"]

Started == {i \in DOMAIN srv.log : srv.log[i].what \in {"start", "serve"}}
Sized == {i \in Started : "size" \in DOMAIN OptionAt("binary", i)}

\* The pool of buffers is on after a start unless that start's options say off, keeps
\* the size a start gave it, and no adapter that starts no server touches it.
PoolAsAsked ==
  /\ srv.pool["enabled"] =
       (Started # {} /\ LET b == OptionAt("binary", Latest(Started)) IN "enabled" \in DOMAIN b => b["enabled"])
  /\ srv.pool["size"] = IF Sized = {} THEN "default" ELSE OptionAt("binary", Latest(Sized))["size"]

Publishing ==
  {i \in DOMAIN srv.log : srv.log[i].what \in
     {"reset", "serve", "listen", "dev"} \cup (IF srv.adapter \in SelfPublishing THEN {"set"} ELSE {})}

\* The router knows the options of the server that came up last, or of the handler
\* set up last, but not what only the runtime reads, and forgets them with a reset;
\* a start that failed published nothing.
PublishedAsServed ==
  LET i == Latest(Publishing)
  IN /\ "native" \notin DOMAIN srv.published
     /\ IF Publishing = {} \/ srv.log[i].what = "reset" THEN srv.published = Nothing
        ELSE srv.published = IF srv.log[i].what = "dev" THEN srv.log[i].given ELSE Serializable(OptionsAt(i))

\* A headersFn gets a header however its name was written, unless it is empty.
HeadersReachHandlers ==
  \A sent \in SentHeaders :
    HeadersGiven(srv.adapter, sent) =
      [w \in {w \in Wanted : \E n \in DOMAIN sent : Lower(n) = Lower(w) /\ sent[n] # ""} |->
        sent[CHOOSE n \in DOMAIN sent : Lower(n) = Lower(w)]]

\* the operations on a header since the last that replaced it
OpsOn(n) == SelectSeq(srv.response.ops, LAMBDA op : Lower(op.name) = n)
Replaced(n) == {i \in DOMAIN OpsOn(n) : OpsOn(n)[i].do # "append"}
ValuesFrom(n, i) == [j \in 1 .. Len(OpsOn(n)) + 1 - i |-> OpsOn(n)[i + j - 1].value]
Initially(n) == HeaderOf(InitialHeaders(srv), n)
AsOperated(n) ==
  IF Replaced(n) = {} THEN Initially(n) \o ValuesFrom(n, 1)
  ELSE LET i == Latest(Replaced(n)) IN ValuesFrom(n, IF OpsOn(n)[i].do = "set" THEN i ELSE i + 1)

\* A response has the headers its handlers made of the defaults, in whatever case
\* they name them; a default is there under its name, the last of its values (on
\* AWS only if its name is in lower case: a lookup finds no other).
HeadersAsOperated ==
  srv.response.at # "none" =>
    /\ \A op \in HeaderOps :
         Lower(op.name) # "content-type" => HeaderOf(srv.response.headers, op.name) = AsOperated(Lower(op.name))
    /\ \A n \in DOMAIN srv.options["headers"] :
         (srv.adapter = "aws" => Lower(n) = n) /\ OpsOn(Lower(n)) = << >> =>
            LET values == HeaderOf(srv.response.headers, n)
            IN values # << >> /\ values[Len(values)] = srv.options["headers"][n]

\* What a response says of its body is true of the body that is sent, also where
\* the chain's own body could not be and an error is.
BodyAsTold ==
  srv.response.at = "sent" =>
    /\ HeaderOf(srv.response.headers, "content-type") = <<ContentType(srv.response.mode)>>
    /\ "content-length" \in DOMAIN srv.response.headers => srv.response.headers["content-length"] = <<srv.response.mode>>
    /\ ~srv.response.fits => srv.response.mode = "json"

\* An adapter serves with the options it was given: merges, resets and failed starts
\* leave the pool, the published configuration and the prepared headers as the calls
\* ask, and a response's headers tell what its handlers and its body say
\* (bunHttp.ts:26-60, mionHttp.ts:28-76, awsLambda.ts:25-46, headers.ts:19-100).
ServersAgree ==
  /\ OptionsAsGiven /\ PoolAsAsked /\ PublishedAsServed
  /\ HeadersReachHandlers /\ HeadersAsOperated /\ BodyAsTold
=============================================================================
