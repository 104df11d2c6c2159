---------------------------- MODULE ProxyRoutes ----------------------------
(***************************************************************************)
(* What the local LLM proxy does with a request before it looks for the    *)
(* gateway's credential: the routes of llm_proxy/routes.rs and the first   *)
(* part of forward (llm_proxy.rs), which refuses the request or decides    *)
(* where it goes and with which token of the client.                       *)
(***************************************************************************)
EXTENDS Sequences

CONSTANT None

CODEX_ROUTE == "/codex"
CAPI_ROUTE == "/vscode-copilot-capi"

(* capi: the pairing is in the path, upgrades are tunnelled and a ping     *)
(* needs no token.                                                         *)
Route(client_id, credential, upstream, capi) ==
  [client_id |-> client_id, credential |-> credential, upstream |-> upstream, capi |-> capi]

(* The prefixes of the managed programs; "/" is the hand-configured route, *)
(* whose credential mode is that of llmGateway.githubOAuth.                *)
ROUTES ==
  [p \in {CODEX_ROUTE, CAPI_ROUTE, "/vscode-copilot-passthrough", "/vscode-copilot", "/copilot-cli"} |->
     CASE p = CODEX_ROUTE -> Route("codex", "passthrough", "proxyUrl", FALSE)
       [] p = CAPI_ROUTE -> Route("vscode-copilot", "passthrough", "proxyUrl", TRUE)
       [] p = "/vscode-copilot-passthrough" -> Route("vscode-copilot", "passthrough", "proxyUrl", FALSE)
       [] p = "/vscode-copilot" -> Route("vscode-copilot", "gateway", "url", FALSE)
       [] p = "/copilot-cli" -> Route("copilot-cli", "gateway", "url", FALSE)]

match_route(q, g) ==
  IF q.prefix \in DOMAIN ROUTES THEN ROUTES[q.prefix]
  ELSE Route("default", CASE g.github = "none" -> "gateway"
                          [] g.github = "request" -> "passthrough"
                          [] g.github \notin {"none", "request"} -> "deviceFlow", "proxyUrl", FALSE)

(* A request: its prefix ("near" if it resembles one), the pairing it      *)
(* offers in the header or as first segment of its path, its token, and    *)
(* what host_is_loopback, path_escapes_base and the like say of it.        *)
Offer(prefix, pairing) ==
  [prefix |-> prefix, header |-> IF prefix = CAPI_ROUTE THEN None ELSE pairing,
   segment |-> IF prefix = CAPI_ROUTE THEN pairing ELSE None, token |-> None, method |-> "POST",
   ping |-> FALSE, websocket |-> FALSE, loopback |-> TRUE, origin |-> FALSE, escapes |-> FALSE,
   fits |-> TRUE]

(* bearer_or_header; the pairing is never taken for a credential.          *)
client_credential(q, pairing) == IF q.token = pairing THEN None ELSE q.token

credential_less_ping(q, route, pairing) ==
  route.capi /\ q.ping /\ q.method = "GET" /\ client_credential(q, pairing) = None

Refusal(code, when) == [code |-> code, when |-> when]

(* The refusals of forward in their order, with gateway configuration g    *)
(* and the daemon's own pairing.                                           *)
Refusals(q, g, pairing) ==
  LET route == match_route(q, g)
  IN  << Refusal("host_not_allowed", ~q.loopback),
         Refusal("browser_not_allowed", q.origin \/ q.method = "CONNECT"),
         Refusal("method_not_allowed", q.method = "OPTIONS"),
         Refusal("pairing_invalid", (IF route.capi THEN q.segment ELSE q.header) # pairing),
         Refusal("upgrade_not_supported", q.websocket /\ ~route.capi),
         Refusal("path_invalid", q.escapes),
         Refusal("route_unknown", q.prefix = "near"),
         Refusal("agentdesktop_unavailable",
                 ~g.present \/ (q.prefix \in DOMAIN ROUTES /\ route.upstream = "proxyUrl" /\ ~g.proxy_url)),
         Refusal("body_too_large", ~q.fits),
         Refusal("client_credential_missing",
                 /\ route.credential = "passthrough" /\ client_credential(q, pairing) = None
                 /\ ~credential_less_ping(q, route, pairing)) >>

(* What becomes of the request: the code of the first refusal, or the      *)
(* client it counts for, the token in x-llm-token and the gateway's address. *)
forward(q, g, pairing) ==
  LET route   == match_route(q, g)
      refused == SelectSeq(Refusals(q, g, pairing), LAMBDA x : x.when)
      token   == CASE route.credential = "gateway" -> None
                   [] route.credential = "passthrough" -> client_credential(q, pairing)
                   [] route.credential = "deviceFlow" -> "github"
  IN  IF refused # << >> THEN [code |-> Head(refused).code]
      ELSE [code |-> "forwarded", client_id |-> route.client_id, token |-> token,
            upstream |-> IF route.upstream = "proxyUrl" /\ g.proxy_url THEN "proxyUrl" ELSE "url"]
=============================================================================
