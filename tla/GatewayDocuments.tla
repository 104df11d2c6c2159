-------------------------- MODULE GatewayDocuments --------------------------
(***************************************************************************)
(* What a configuration makes of each program: validate_daemon of          *)
(* crates/core/src/config.rs, which the controller and the daemon apply    *)
(* before a configuration is used, and the managed documents of codex,     *)
(* grok, opencode, pi, claude_desktop, copilot and vscode (the files       *)
(* provider/*/reconcile.rs).                                               *)
(*                                                                         *)
(* A document gives each of the settings below a value or None.  deep_merge*)
(* lets the generated setting win over the pass-through one, which is      *)
(* MergeOverlay of JsonMerge.                                              *)
(***************************************************************************)
EXTENDS Sequences

(* header: the line that begins a managed file.  url, auth, static, login: *)
(* the gateway's address, the credential helper, fixed credentials, the    *)
(* forced login method.  vendor: the entries under agentdesktop's reserved *)
(* names, their models included.  odd: what the registry cannot hold.      *)
Settings == {"header", "url", "auth", "static", "login", "model", "sandbox", "vendor", "odd", "other"}
Reserved == {"vendor"}
None == "none"
Null == "null"
UserValues == {"user"}
Pairings == {"pairing1", "pairing2"}
ManagedValues == {"pass", Null, "ours", "gateway", "helper", "placeholder", "limits", "m", "x", " "} \cup Pairings
OtherPairing == {}

INSTANCE JsonMerge

Of(k, v) == [Empty EXCEPT ![k] = v]

(* serde_json::to_value of the pass-through settings, some of them null.   *)
PassThrough(c) ==
  [k \in Settings |-> IF k \in c.nulls THEN Null ELSE IF k \in c.extra THEN "pass" ELSE None]

(* llm_gateway.filter(|_| provider.use_llm_gateway) of Provider::plan.     *)
gateway(c) == c.gateway.present /\ c.use_llm_gateway
uses_credential_helper(c) == gateway(c) /\ c.gateway.authentication # "none"

NoDocument == [ok |-> FALSE, doc |-> Empty]
Managed(d) == [ok |-> TRUE, doc |-> d]

(* toml::to_string_pretty fails on a null.                                 *)
Toml(d) == [ok |-> \A k \in Settings : d[k] # Null, doc |-> d]

(* filter(|model| !model.trim().is_empty()).context(...)                   *)
Named(model) == model \notin {None, " "}

Provider(c, d) == IF uses_credential_helper(c) THEN [d EXCEPT !["auth"] = "helper"] ELSE d

(* codex managed_config: the sandbox over the pass-through settings, then  *)
(* the provider.  A subscription takes the credentials out first.          *)
CodexConfig(c) ==
  LET limited == IF c.sandbox THEN Of("sandbox", "limits") ELSE Empty
      base    == MergeOverlay(PassThrough(c), limited)
      cleared == IF c.subscription THEN Without(base, {"login", "auth", "static"}) ELSE base
  IN  Toml(IF gateway(c) THEN MergeOverlay(cleared, Provider(c, Of("url", "gateway"))) ELSE base)

(* grok managed_config with catalog_entries: without declared models the   *)
(* default model is the catalog.  The helper clears fixed credentials,     *)
(* which Grok would prefer.                                                *)
GrokConfig(c) ==
  LET generated == Provider(c, [Of("url", "gateway") EXCEPT !["model"] = c.model])
      merged    == MergeOverlay(PassThrough(c), generated)
  IN  IF ~gateway(c) THEN Toml(PassThrough(c))
      ELSE IF ~Named(c.model) THEN NoDocument
      ELSE Toml(IF uses_credential_helper(c) THEN Without(merged, {"static"}) ELSE merged)

(* opencode managed_config and append_plugin; the plugin carries the       *)
(* helper, the provider's apiKey is a placeholder.                         *)
OpenCodeConfig(c) ==
  LET generated == [Of("url", "gateway") EXCEPT !["model"] = c.model, !["static"] = "placeholder"]
  IN  IF ~gateway(c) THEN Managed(PassThrough(c))
      ELSE IF c.model = None THEN NoDocument
      ELSE Managed(Provider(c, MergeOverlay(PassThrough(c), generated)))

(* pi managed_models: the apiKey is the helper's command or a placeholder. *)
PiModels(c) ==
  LET key == IF uses_credential_helper(c) THEN Of("auth", "helper") ELSE Of("auth", "placeholder")
  IN  IF ~gateway(c) THEN Managed(PassThrough(c))
      ELSE IF ~Named(c.model) THEN NoDocument
      ELSE Managed(MergeOverlay(PassThrough(c), [key EXCEPT !["url"] = "gateway"]))

(* pi managed_settings *)
PiSettings(c) ==
  IF ~gateway(c) THEN Managed(Empty)
  ELSE IF ~Named(c.model) THEN NoDocument
  ELSE Managed([Of("model", c.model) EXCEPT !["url"] = "gateway"])

(* What the plugin of opencode and the helper of claude_desktop hold: the  *)
(* command that fetches the credential.                                    *)
credential_plugin == Of("auth", "helper")
credential_helper_contents == Of("auth", "helper")

(* claude_desktop managed_settings *)
DesktopSettings(c) ==
  Managed(IF gateway(c) THEN MergeOverlay(PassThrough(c), Provider(c, Of("url", "gateway")))
                        ELSE PassThrough(c))

(* managed_document of copilot and of vscode: the entries carry the pairing*)
(* as a header.                                                            *)
ManagedEntries(pairing) == Of("vendor", pairing)

-----------------------------------------------------------------------------
(* The gateway part of validate_daemon; sound stands for its checks of     *)
(* URLs, audience, client IDs and scopes.                                  *)
ValidGateway(g) ==
  /\ g.sound
  /\ g.github # "deviceFlowWithoutId"
  /\ g.github # "none" => g.authentication # "none"

(* A subscription needs a gateway with a browser sign-in.                  *)
ValidSubscription(c) ==
  c.subscription => gateway(c) /\ c.gateway.authentication \notin {"none", "oidcDevice"}

\* Mutant of ValidModel: a model is only asked for when models are declared.
ValidDeclaredModel(p, c) == gateway(c) /\ c.models # {} => c.model \in c.models

(* OpenCode always declares its models, Grok may leave that to the gateway.*)
ValidModel(p, c) ==
  gateway(c) => /\ Named(c.model)
                /\ p = "opencode" \/ c.models # {} => c.model \in c.models

ValidPi(c) ==
  gateway(c) => /\ Named(c.model)
                /\ " " \notin c.models
                /\ c.models # {} => c.model \in c.models

(* VsCodeConfig::validate *)
ValidVsCodeModels(c) ==
  /\ c.copilot_chat = "githubModels" => c.models = {}
  /\ " " \notin c.models /\ "static" \notin c.extra

(* CopilotConfig::validate; a model must not bring a credential of its own.*)
ValidCopilotModels(c) == " " \notin c.models /\ "static" \notin c.extra

ValidCopilot(c) == ValidCopilotModels(c) /\ (gateway(c) => c.models # {})

ValidVsCode(c) ==
  /\ ValidVsCodeModels(c)
  /\ gateway(c) => IF c.copilot_chat = "ownModels" THEN c.models # {} ELSE c.gateway.proxy_url

validate_daemon(p, c) ==
  /\ c.sandbox => p = "codex"
  /\ c.gateway.present => ValidGateway(c.gateway)
  /\ p \in {"codex", "claude-desktop"} => ValidSubscription(c)
  /\ p \in {"grok", "opencode"} => ValidModel(p, c)
  /\ p = "pi" => ValidPi(c)
  /\ p = "copilot" => ValidCopilot(c)
  /\ p = "vscode" => ValidVsCode(c)
=============================================================================
