----------------------------- MODULE Forwarding -----------------------------
(***************************************************************************)
(* internal/httpserver/server.go, the way up: which handler a request      *)
(* takes and which headers the upstream gets to see.  HttpServer models    *)
(* what the handler of the MCP path does with the answer.                  *)
(***************************************************************************)
EXTENDS FiniteSets

CONSTANTS Names,      \* header names in their canonical form
          Spellings,  \* the names as they are written in a configuration
          Canon,      \* spelling -> the name net/http makes of it
          Managed     \* the names doUpstream sets itself: Content-Type, Accept

ASSUME CanonAssumption == Canon \in [Spellings -> Names]
ASSUME ManagedAssumption == Managed \subseteq Names

\* A request: mcp says that it is a JSON POST to the MCP path, object that its
\* body is one JSON-RPC message (a batch is none); from lists its headers.
Requests == [mcp : BOOLEAN, object : BOOLEAN, from : SUBSET Names]

\* ServeHTTP and the first branch of handleMCPPost.
Path(r) == IF ~ r.mcp THEN "proxy" ELSE IF r.object THEN "post" ELSE "raw"

\* headers: spelling -> where its value is from.  Two spellings of one name are
\* two keys of the map, and which of them is applied last is up to its order.
Configured(headers, name) == { headers[s] : s \in { t \in DOMAIN headers : Canon[t] = name } }

ClientOr(r, name, others) == IF name \in r.from THEN {"client"} ELSE others
OrNothing(values) == IF values = {} THEN {"absent"} ELSE values

\* doUpstream: its own two, the client's, and configured ones that are missing.
PostHeader(r, headers, name) ==
    IF name \in Managed THEN {"guard"}
    ELSE ClientOr(r, name, OrNothing(Configured(headers, name)))

\* The reverse proxy's Director: configured ones replace the client's.
ProxyHeader(r, headers, name) ==
    IF Configured(headers, name) # {} THEN Configured(headers, name)
    ELSE ClientOr(r, name, {"absent"})

\* forwardRaw: the client's and nothing else.
RawHeader(r, name) == ClientOr(r, name, {"absent"})

Values(r, headers, name) ==
    CASE Path(r) = "post"  -> PostHeader(r, headers, name)
      [] Path(r) = "proxy" -> ProxyHeader(r, headers, name)
      [] Path(r) = "raw"   -> RawHeader(r, name)

\* The header maps the upstream may be sent for a request.
SentHeaders(r, headers) ==
    { sent \in [Names -> {"absent", "client", "guard", "config", "flag"}] :
        \A name \in Names : sent[name] \in Values(r, headers, name) }
=============================================================================
