------------------------------ MODULE Profiles -------------------------------
(***************************************************************************)
(* The configuration files of the model providers and of the social        *)
(* adapters, as functions of what they hold.  A file holds the active      *)
(* profile of each slot and an entry, the fields an operator has set, for  *)
(* each profile she has configured; the profiles themselves are defaults   *)
(* with the entries laid over them.  A string field is TRUE when it is set *)
(* to something usable.                                                    *)
(***************************************************************************)
EXTENDS Naturals, FiniteSets

\* f with v at k; g laid over f.
With(f, k, v) == [x \in DOMAIN f \cup {k} |-> IF x = k THEN v ELSE f[x]]
LaidOver(f, g) == [x \in DOMAIN f \cup DOMAIN g |-> IF x \in DOMAIN g THEN g[x] ELSE f[x]]

Stores == {"provider", "social"}
SlotsOf(s) == IF s = "provider" THEN {"affective", "rational"} ELSE {"adapter"}

\* What loading answers when there is no file.
NewConfig(s) ==
    [active |-> [slot \in SlotsOf(s) |->
                    IF s = "provider" THEN "openai_compatible" ELSE "mock_social"],
     entries |-> <<>>]

\* The names of profiles and the fields operators give, and the files they
\* can make of them.
Names == {"openai_compatible", "azure_openai", "lab", "unknown", "mock_social",
          "qq_official", "onebot_qq", "wecom", "wechat_ilink", "qq_openclaw"}
Fields == {"credential_env_var", "configured_model", "enabled", "endpoint_url",
           "credential_env_vars", "plugin_package", "plugin_installed",
           "account_session_ready", "compliance_acknowledged"}
Partial(D, R) == UNION {[S -> R] : S \in SUBSET D}
Entries == Partial(Fields, BOOLEAN)
Configs(s) == [active : [SlotsOf(s) -> Names], entries : Partial(Names, Entries)]
Changes(s) == [op : {"update"}, name : Names, slots : SUBSET SlotsOf(s), fields : Entries]
              \cup [op : {"set_active"}, name : Names, slots : SUBSET SlotsOf(s),
                    fields : {<<>>}]

EntryOf(config, name) ==
    IF name \in DOMAIN config.entries THEN config.entries[name] ELSE <<>>

\* provider-config and social-adapter-config: the fields given replace those
\* of the entry, which is made if there is none; active moves the slot.
config_update(config, c) ==
    [active |-> [slot \in DOMAIN config.active |->
                    IF slot \in c.slots THEN c.name ELSE config.active[slot]],
     entries |-> With(config.entries, c.name,
                      LaidOver(EntryOf(config, c.name), c.fields))]

\* Mutant: the profiles are left out of what model-set-active writes.
set_active_provider_profile_Mutant(config, c) ==
    [active |-> [slot \in DOMAIN config.active |->
                    IF slot \in c.slots THEN c.name ELSE config.active[slot]],
     entries |-> <<>>]

\* model-set-active: no entry is made, and the name need not be known.
set_active_provider_profile(config, c) ==
    [config EXCEPT !.active = [slot \in DOMAIN config.active |->
                    IF slot \in c.slots THEN c.name ELSE config.active[slot]]]

\* A change is [op, name, fields, slots].
Changed(config, c) ==
    IF c.op = "set_active" THEN set_active_provider_profile(config, c)
    ELSE config_update(config, c)

Laid(entry, field, default) == IF field \in DOMAIN entry THEN entry[field] ELSE default
\* A string that is set to nothing falls back on the default.
LaidText(entry, field, default) == default \/ Laid(entry, field, FALSE)

-----------------------------------------------------------------------------
\* Social adapters.

Adapters == {"qq_official", "onebot_qq", "wecom", "wechat_ilink", "qq_openclaw"}
OpenClaw == {"wechat_ilink", "qq_openclaw"}

\* _default_profiles, for an environment that has the usual credentials.
DefaultAdapter(name) ==
    [enabled |-> FALSE, endpoint_url |-> name = "qq_official",
     credential_env_vars |-> TRUE, plugin_package |-> name = "wechat_ilink",
     plugin_installed |-> FALSE, account_session_ready |-> FALSE,
     compliance_acknowledged |-> name \in {"qq_official", "wecom"}]

overlay_social_profile(name, entry) ==
    [f \in DOMAIN DefaultAdapter(name) |->
        IF f \in {"endpoint_url", "plugin_package"}
        THEN LaidText(entry, f, DefaultAdapter(name)[f])
        ELSE Laid(entry, f, DefaultAdapter(name)[f])]

social_adapter_registry(config) ==
    [name \in Adapters |-> overlay_social_profile(name, EntryOf(config, name))]

\* compliance_ready: only the bridges of the lab compliance classes ask for an
\* acknowledgement.
LabBridges == {"onebot_qq", "wechat_ilink", "qq_openclaw"}
compliance_ready(name, profile) ==
    name \notin LabBridges \/ profile.compliance_acknowledged

ready_for_live_io(name, profile) ==
    /\ profile.enabled /\ profile.endpoint_url /\ profile.credential_env_vars
    /\ compliance_ready(name, profile)
    /\ name \in OpenClaw => /\ profile.plugin_package /\ profile.plugin_installed
                            /\ profile.account_session_ready

\* The five changes the social smoke makes, in order, to the file it is given.
SmokeChange(name, fields) ==
    [op |-> "update", name |-> name, slots |-> {},
     fields |-> [f \in fields \cup {"enabled", "credential_env_vars"} |-> TRUE]]
SmokeChanges ==
    LET bridge == {"endpoint_url", "compliance_acknowledged"}
        plugin == bridge \cup {"plugin_package", "plugin_installed", "account_session_ready"}
    IN << SmokeChange("qq_official", {"endpoint_url"}), SmokeChange("onebot_qq", bridge),
          SmokeChange("wecom", {"endpoint_url"}), SmokeChange("wechat_ilink", plugin),
          SmokeChange("qq_openclaw", plugin) >>

\* The gates of the smoke: one per adapter, and compliance of all five.
social_adapter_test(config) ==
    LET registry == social_adapter_registry(config) IN
    [g \in Adapters \cup {"social_compliance_gate"} |->
        IF g = "social_compliance_gate"
        THEN \A name \in Adapters : compliance_ready(name, registry[name])
        ELSE ready_for_live_io(g, registry[g])]

-----------------------------------------------------------------------------
\* Model providers.  env: whether the environment has a credential and a
\* model of its own.

BuiltIn == {"openai_compatible", "azure_openai"}

provider_profile_registry(config, env) ==
    [name \in BuiltIn \cup DOMAIN config.entries |->
        LET entry == EntryOf(config, name) IN
        [credential |-> Laid(entry, "credential_env_var", env.credential),
         model |-> LaidText(entry, "configured_model", name \in BuiltIn /\ env.model)]]

\* What a provider smoke runs with: the active affective profile over the
\* environment, or the environment alone for a name nobody knows.  Whether
\* the profile is enabled is not asked.
build_provider_runtime_env(config, env) ==
    LET name == config.active["affective"]
        registry == provider_profile_registry(config, env)
        known == name \in DOMAIN registry
    IN [credential |-> env.credential \/ (known /\ registry[name].credential),
        model |-> env.model \/ (known /\ registry[name].model)]
=============================================================================
