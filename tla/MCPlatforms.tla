----------------------------- MODULE MCPlatforms -----------------------------
(* Every platform with one request and the whole chain, for TLC. *)
EXTENDS Platforms, TLC

CONSTANTS r1, b1, b2

Make(id, kind, runOnError, hasReturnData) ==
  [id |-> id, kind |-> kind, runOnError |-> runOnError, hasReturnData |-> hasReturnData]

deserialize == Make("mionDeserializeRequest", "handler", TRUE, FALSE)
route       == Make("route", "handler", FALSE, TRUE)
log         == Make("log", "handler", TRUE, TRUE)
metadata    == Make("mion@methodsMetadata", "metadata", TRUE, TRUE)
serialize   == Make("mionSerializeResponse", "serialize", TRUE, FALSE)
audit       == Make("audit", "handler", TRUE, FALSE)

\* the standard chain, with a middleFn that runs on errors and one after the serializer
FullChains ==
  {[serializer |-> mode, methods |-> <<deserialize, route, log, metadata, serialize, audit>>] : mode \in Modes}

AllPlatforms == {"node", "bun", "aws", "gcloud", "cloudflare", "vercel", "vercelDev"}
=============================================================================
