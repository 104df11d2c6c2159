------------------------- MODULE MCManagedPrograms -------------------------
EXTENDS ManagedPrograms

On(p, user, windows) == [program |-> p, user |-> user, windows |-> windows]
MCHosts == {On("codex", FALSE, FALSE), On("codex", TRUE, FALSE),
            On("grok", FALSE, FALSE), On("grok", TRUE, FALSE),
            On("opencode", FALSE, FALSE), On("pi", TRUE, FALSE),
            On("claude-desktop", FALSE, FALSE), On("claude-desktop", FALSE, TRUE),
            On("copilot", TRUE, FALSE), On("vscode", TRUE, FALSE)}

Jwt == [NoGateway EXCEPT !.present = TRUE, !.authentication = "jwt", !.proxy_url = TRUE]
Plain == [NoGateway EXCEPT !.present = TRUE]
Base == [NotConfigured EXCEPT !.configured = TRUE, !.use_llm_gateway = TRUE]

(* Valid and invalid configurations that tell the documents of a program   *)
(* apart.                                                                  *)
MCConfigs(p) ==
  {NotConfigured} \cup
  CASE p = "codex" ->
         {[Base EXCEPT !.gateway = g, !.subscription = s, !.sandbox = b, !.extra = {"static", "login"}] :
            g \in {NoGateway, Jwt, [Jwt EXCEPT !.authentication = "oidcDevice"]},
            s \in BOOLEAN, b \in BOOLEAN} \cup
         {[Base EXCEPT !.gateway = Jwt, !.nulls = n] : n \in {{"url"}, {"other"}}}
    [] p \in {"grok", "opencode"} ->
         {[Base EXCEPT !.extra = {"static"}]} \cup
         {[Base EXCEPT !.gateway = Jwt, !.model = "m", !.models = {"m"}, !.nulls = n] :
            n \in {{"static"}, {"other"}}} \cup
         {[Base EXCEPT !.gateway = Jwt, !.model = m, !.models = ms, !.extra = {"static"}] :
            m \in {None, " ", "m"}, ms \in {{}, {"m"}, {"x"}, {" ", "m"}}} \cup
         {[Base EXCEPT !.gateway = Plain, !.model = "m", !.models = {"m"}, !.extra = {"static"}]}
    [] p = "pi" ->
         {[Base EXCEPT !.extra = {"static"}]} \cup
         {[Base EXCEPT !.gateway = Jwt, !.model = m, !.models = ms, !.extra = {"static"}] :
            m \in {None, " ", "m"}, ms \in {{"m"}, {"x"}, {" ", "m"}}} \cup
         {[Base EXCEPT !.gateway = Plain, !.model = "m", !.extra = {"static"}]}
    [] p = "claude-desktop" ->
         {[Base EXCEPT !.gateway = g, !.extra = {"other"}] : g \in {NoGateway, Plain}}
           \cup {[Base EXCEPT !.gateway = Jwt, !.extra = e] : e \in {{}, {"odd"}, {"other"}}}
    [] p = "copilot" ->
         {[Base EXCEPT !.gateway = g, !.use_llm_gateway = u, !.models = ms, !.extra = e] :
            g \in {NoGateway, Jwt, [Jwt EXCEPT !.when_unavailable = "failOpen"]},
            u \in BOOLEAN, ms \in {{}, {"m"}, {" "}}, e \in {{}, {"static"}}}
    [] p = "vscode" ->
         {[Base EXCEPT !.gateway = Jwt, !.copilot_chat = "ownModels", !.models = ms] :
            ms \in {{}, {"m"}}}
           \cup {[Base EXCEPT !.gateway = [Jwt EXCEPT !.when_unavailable = w],
                              !.copilot_chat = "githubModels", !.models = ms] :
                   w \in {"failClosed", "failOpen"}, ms \in {{}, {"m"}}}
           \cup {[Base EXCEPT !.gateway = Plain, !.copilot_chat = "githubModels"]}
=============================================================================
