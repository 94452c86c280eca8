---------------------------- MODULE Capabilities ----------------------------
(***************************************************************************)
(* How the bridge learns what an upstream can do and which way it takes    *)
(* for a model: setup and verify probe the upstream and write config.toml  *)
(* and model-capabilities.json, a server loads both once, adds the models  *)
(* it discovers and plans every request by them (internal/setup,           *)
(* internal/config/{config,model_capabilities,execution_plan}.go,          *)
(* runSetup, runVerify and main of cmd/codex-bridge/main.go).              *)
(*                                                                         *)
(* There is one provider.  A fingerprint is what it is made of, time is    *)
(* counted in days.  The lock of the state file is modelled in StateFile,  *)
(* the slots of discovered models in ModelSlots: here a model has a slot.  *)
(***************************************************************************)
EXTENDS UpstreamProbe, FiniteSets

CONSTANTS
  Models,         \* upstream model ids
  NativeModels,   \* those IsOpenAINativeModel says are OpenAI's
  Guessed,        \* profileForModel: the profile guessed from an id
  Slugs,          \* the names of the models towards Codex
  SlotOf,         \* the slot of a discovered model
  Endpoints,      \* pairs of an address of the upstream and a key for it
  Chosen,         \* what "setup" gets as --profile, or Unset
  Written,        \* the configurations an operator may write by hand
  Faults,         \* what can happen to the requests of a probe
  Able,           \* what an upstream may be able to do
  Upstreams,      \* by endpoint, what it is able to do on the first day
  OldCaches,      \* files another build may have left
  Verifiers,      \* processes running "verify"
  MaxAge,         \* CapabilityMaxAge, in days
  MaxDay,         \* bound: the last day
  MaxChanges,     \* bound: changes of the upstream
  MaxCommands     \* bound: commands run and edits made

Profiles == {"default", "openai", "deepseek", "kimi", "mimo"}
Modes == {"native_responses", "projected_responses", "chat_completions"}
Protocols == {"auto", "responses", "chat_completions"}
Switches == {"yes", "no"}
Unset == ""

Providers ==
  [base : {e[1] : e \in Endpoints}, key : {e[2] : e \in Endpoints}, type : {"openai_compatible", "openai_chat_compatible"},
   protocol : Protocols \cup {Unset}, profile : Profiles \cup {Unset}]

ModelConfigs ==
  [upstream : Models, profile : Profiles \cup {Unset}, mode : Modes \cup {Unset},
   options : Switches \cup {Unset}, structured : Switches \cup {Unset}]

Endpoint(cfg) == <<cfg.provider.base, cfg.provider.key>>

\* "probed" and "day" only tell the properties which model a setup has probed;
\* a configuration written by hand has day 0.
IsConfig(cfg) ==
  /\ cfg \in [provider : Providers, discovery : {"merge", "upstream", "config"},
              models : {cfg.models}, probed : Models, day : 0..MaxDay]
  /\ DOMAIN cfg.models \subseteq Slugs
  /\ cfg.models \in [DOMAIN cfg.models -> ModelConfigs]
  /\ Endpoint(cfg) \in Endpoints

\* Nothing has been set up: there is no file.
NoConfig == [missing |-> TRUE]

\* VerifiedModelCapability; a record another build wrote has not "current".
Capability ==
  [at : Endpoints, profiles : SUBSET Profiles,
   provider : {"openai_compatible", "openai_chat_compatible"} \X (Protocols \cup {Unset}),
   current : BOOLEAN, day : 0..MaxDay, passed : SUBSET ModelStages,
   protocol : {"responses", "chat_completions"}, torn : BOOLEAN]

IsCache(known) == DOMAIN known \subseteq Models /\ known \in [DOMAIN known -> Capability]
EmptyCache == [m \in {} |-> {}]

ASSUME CapabilitiesConstants ==
  /\ MaxAge \in Nat /\ MaxDay \in Nat \ {0}
  /\ Chosen \subseteq Profiles \cup {Unset}
  /\ MaxChanges \in Nat /\ MaxCommands \in Nat
  /\ NativeModels \subseteq Models
  /\ Guessed \in [Models -> Profiles] /\ SlotOf \in [Models -> Slugs]
  /\ \A e \in Endpoints : e = <<e[1], e[2]>>
  /\ \A cfg \in Written : IsConfig(cfg) /\ cfg.day = 0
  /\ Faults \subseteq Exchanges
  /\ Able \subseteq Abilities /\ Upstreams \subseteq [Endpoints -> Able]
  /\ \A known \in OldCaches :
       IsCache(known) /\ \A m \in DOMAIN known : ~known[m].current

VARIABLES
  config,       \* config.toml
  cache,        \* model-capabilities.json
  day,          \* today
  able,         \* what the upstream can do, by address and key
  changed,      \* the day it last changed
  verify,       \* the processes running "verify"
  serve,        \* the server: what it has loaded and told on its start
  changes,
  commands

vars == <<config, cache, day, able, changed, verify, serve, changes, commands>>

\* The commands other than "setup" end when there is no configuration to load.
Load == config # NoConfig

Command == commands < MaxCommands /\ commands' = commands + 1

-----------------------------------------------------------------------------
(* Reading a configuration                                                 *)

Normalize(profile) == IF profile = Unset THEN "default" ELSE profile

ProfileName(model, provider) ==
  LET own == Normalize(model.profile)
      theirs == Normalize(provider.profile)
      native == model.upstream \in NativeModels
  IN IF native /\ own = "default" /\ theirs = "default" THEN "openai"
     ELSE IF model.profile # Unset THEN own
     ELSE IF native /\ theirs = "default" THEN "openai"
     ELSE theirs

protocolForExecutionMode(mode) ==
  IF mode = "chat_completions" THEN "chat_completions" ELSE "responses"

UpstreamProtocol(model, provider) ==
  LET native == model.upstream \in NativeModels IN
  IF model.mode # Unset THEN protocolForExecutionMode(model.mode)
  ELSE IF provider.protocol \in {"responses", "chat_completions"} THEN provider.protocol
  ELSE IF native /\ (provider.protocol = "auto" \/ provider.type = "openai_compatible")
       THEN "responses"
  ELSE "chat_completions"

\* providerProfileFingerprint: the profiles of all slugs of an upstream model.
ProfilesOf(cfg, id) ==
  LET slugs == {s \in DOMAIN cfg.models : cfg.models[s].upstream = id} IN
  IF slugs = {} THEN {Normalize(cfg.provider.profile)}
  ELSE {ProfileName(cfg.models[s], cfg.provider) : s \in slugs}

ProviderSettings(cfg) == <<cfg.provider.type, cfg.provider.protocol>>

RequiresCapabilityVerification(cfg, slug) ==
  ProfileName(cfg.models[slug], cfg.provider) \notin {"default", "openai"}

\* What a record was made with, besides the address.
SameFingerprints(cfg, id, r) ==
  /\ r.at[2] = cfg.provider.key
  /\ r.profiles = ProfilesOf(cfg, id)
  /\ r.provider = ProviderSettings(cfg)

Expired(r, today) == today - r.day > MaxAge

\* Mutant: the age of a record is not looked at.
VerifiedForever(cfg, known, id, today) ==
  /\ id \in DOMAIN known
  /\ known[id].at[1] = cfg.provider.base
  /\ SameFingerprints(cfg, id, known[id])
  /\ known[id].current

\* VerifiedCapability: there is a record and it still counts.
VerifiedOK(cfg, known, id, today) ==
  /\ id \in DOMAIN known
  /\ known[id].at[1] = cfg.provider.base
  /\ SameFingerprints(cfg, id, known[id])
  /\ known[id].current
  /\ ~Expired(known[id], today)

\* supportsResponsesOptions and supportsResponsesStructuredOutput.
Supports(switch, mode, verified, stage, passed, byProfile) ==
  /\ mode # "chat_completions"
  /\ switch # Unset => switch = "yes"
  /\ switch = Unset /\ verified => stage \in passed
  /\ switch = Unset /\ ~verified => byProfile

ExecutionPlan(cfg, known, slug, today) ==
  LET model == cfg.models[slug]
      provider == cfg.provider
      profile == ProfileName(model, provider)
      verified == VerifiedOK(cfg, known, model.upstream, today)
      passed == IF verified THEN known[model.upstream].passed ELSE {}
      protocol == IF model.mode = Unset /\ provider.protocol \in {Unset, "auto"} /\ verified
                  THEN known[model.upstream].protocol
                  ELSE UpstreamProtocol(model, provider)
      mode == IF model.mode # Unset THEN model.mode
              ELSE IF protocol # "responses" THEN "chat_completions"
              ELSE IF profile = "openai" THEN "native_responses"
              ELSE "projected_responses"
  IN [mode |-> mode, protocol |-> protocol, profile |-> profile,
      options |-> Supports(model.options, mode, verified, "responses_options", passed,
                           profile \in {"openai", "kimi", "mimo"}),
      structured |-> Supports(model.structured, mode, verified,
                              "responses_structured_output", passed,
                              profile \in {"openai", "kimi"})]

\* CapabilityWarnings: the upstream models to verify.  The address of a record
\* is not compared.
CapabilityWarnings(cfg, known, today) ==
  {id \in {cfg.models[s].upstream :
             s \in {t \in DOMAIN cfg.models : RequiresCapabilityVerification(cfg, t)}} :
     \/ id \notin DOMAIN known
     \/ ~known[id].current
     \/ ~SameFingerprints(cfg, id, known[id])
     \/ Expired(known[id], today)}

-----------------------------------------------------------------------------
(* setup                                                                   *)

\* Mutant: the protocol is written as the mode.
ProtocolAsMode(id, protocol, profile) == protocol

executionModeForModel(id, protocol, profile) ==
  CASE protocol # "responses" -> "chat_completions"
    [] protocol = "responses" /\ profile = "openai" -> "native_responses"
    [] protocol = "responses" /\ profile \in {"deepseek", "kimi", "mimo"} -> "projected_responses"
    [] protocol = "responses" /\ profile = "default" ->
         IF id \in NativeModels THEN "native_responses" ELSE "projected_responses"

SwitchFor(stage, passed) == IF stage \in passed THEN "yes" ELSE "no"

\* buildConfig.  Only the model that was probed gets switches.
buildConfig(endpoint, ids, id, profile, result) ==
  LET protocol == RecommendedProtocol(result.passed)
      profileOf(m) == IF profile # Unset THEN profile ELSE Guessed[m]
      switch(m, stage) ==
        IF m = id /\ protocol = "responses" THEN SwitchFor(stage, result.passed) ELSE Unset
      model(m) ==
        [upstream |-> m, profile |-> profileOf(m),
         mode |-> executionModeForModel(m, protocol, profileOf(m)),
         options |-> switch(m, "responses_options"),
         structured |-> switch(m, "responses_structured_output")]
  IN [provider |-> [base |-> endpoint[1], key |-> endpoint[2], type |-> "openai_compatible",
                    protocol |-> protocol, profile |-> profileOf(id)],
      discovery |-> "merge",
      models |-> [s \in {SlotOf[m] : m \in ids} |->
                    model(CHOOSE m \in ids : SlotOf[m] = s)],
      probed |-> id, day |-> day]

\* "setup" without --replace-upstream on a configuration that is there.
ExistingPreserved ==
  /\ Command
  /\ config # NoConfig
  /\ UNCHANGED <<config, cache, day, able, changed, verify, serve, changes>>

\* The first "setup", or "setup --replace-upstream": a probe of one model, and a
\* new configuration with the models listed if one of the protocols works.  The
\* model is the first one listed, or the one the operator names, which need not
\* be listed and is the only one known when nothing is.  Stages in doubt do not
\* stop it.
Setup(endpoint, ids, id, profile, exchange) ==
  /\ Command
  /\ LET result == Run(able[endpoint], exchange) IN
     /\ ResponsesReady(result.passed) \/ ChatReady(result.passed)
     /\ ids # {}
     /\ doProbeRequest(exchange["models"]) # "answer" => ids = {id}
     /\ config' = buildConfig(endpoint, ids, id, profile, result)
  /\ UNCHANGED <<cache, day, able, changed, verify, serve, changes>>

\* An operator writes another configuration.
Edit(cfg) ==
  /\ Command
  /\ config' = cfg
  /\ UNCHANGED <<cache, day, able, changed, verify, serve, changes>>

-----------------------------------------------------------------------------
(* verify                                                                  *)

\* The models asked for, by slug or id; "--all" asks for every slug.
verifyModelIDs(cfg, requested) ==
  {IF r \in DOMAIN cfg.models THEN cfg.models[r].upstream ELSE r : r \in requested}

\* runVerify: the configuration and the cache are loaded once.
BeginVerify(v, requested) ==
  /\ Command
  /\ ~verify[v].on
  /\ Load
  /\ requested # {} /\ requested \subseteq Models \cup DOMAIN config.models
  /\ verify' = [verify EXCEPT ![v] = [on |-> TRUE, cfg |-> config, known |-> cache,
                                      todo |-> verifyModelIDs(config, requested), updated |-> FALSE]]
  /\ UNCHANGED <<config, cache, day, able, changed, serve, changes>>

\* UpdateVerifiedCapability: a result in doubt leaves the old record.
UpdateVerifiedCapability(v, id, result) ==
  LET cfg == verify[v].cfg
      record == [at |-> Endpoint(cfg), profiles |-> ProfilesOf(cfg, id),
                 provider |-> ProviderSettings(cfg), current |-> TRUE, day |-> day,
                 passed |-> result.passed, protocol |-> RecommendedProtocol(result.passed),
                 torn |-> result.torn]
      known == verify[v].known
  IN [verify EXCEPT ![v] =
        [on |-> TRUE, cfg |-> cfg, todo |-> verify[v].todo \ {id},
         known |-> IF Cacheable(result)
                   THEN [m \in DOMAIN known \cup {id} |-> IF m = id THEN record ELSE known[m]]
                   ELSE known,
         updated |-> verify[v].updated \/ Cacheable(result)]]

\* One model is probed.
Probe(v, id, exchange) ==
  /\ verify[v].on /\ id \in verify[v].todo
  /\ verify' = UpdateVerifiedCapability(v, id, Run(able[Endpoint(verify[v].cfg)], exchange))
  /\ UNCHANGED <<config, cache, day, able, changed, serve, changes, commands>>

Idle == [on |-> FALSE]

\* WriteCapabilityCache, at the end and if a record is new: what the process
\* knows, the records it had loaded too, goes over what is in the file.
EndVerify(v) ==
  /\ verify[v].on /\ verify[v].todo = {}
  /\ cache' = IF ~verify[v].updated THEN cache
              ELSE [m \in DOMAIN cache \cup DOMAIN verify[v].known |->
                      IF m \in DOMAIN verify[v].known THEN verify[v].known[m] ELSE cache[m]]
  /\ verify' = [verify EXCEPT ![v] = Idle]
  /\ UNCHANGED <<config, day, able, changed, serve, changes, commands>>

\* The process is interrupted, or cannot write: nothing is stored.
AbortVerify(v) ==
  /\ verify[v].on
  /\ verify' = [verify EXCEPT ![v] = Idle]
  /\ UNCHANGED <<config, cache, day, able, changed, serve, changes, commands>>

-----------------------------------------------------------------------------
(* The server                                                              *)

\* discoverModels: the models listed are added with the profile of the provider;
\* the slots already taken are kept in the merge mode only.  A listing that
\* fails leaves the configuration, an empty one of the upstream mode clears it.
Discovered(cfg, answered, ids) ==
  LET found(m) == [upstream |-> m, profile |-> cfg.provider.profile, mode |-> Unset,
                   options |-> Unset, structured |-> Unset]
      slots == {SlotOf[m] : m \in ids}
      kept == IF cfg.discovery = "merge" THEN DOMAIN cfg.models ELSE {}
  IN IF cfg.discovery = "config" \/ ~answered THEN cfg
     ELSE [cfg EXCEPT !.models =
             [s \in kept \cup slots |->
                IF s \in kept THEN cfg.models[s]
                ELSE found(CHOOSE m \in ids : SlotOf[m] = s)]]

\* Mutant: the catalog is made before the verifications are looked at.
CatalogUnverified(cfg, known, today) ==
  {s \in DOMAIN cfg.models : ExecutionPlan(cfg, EmptyCache, s, today).options}

\* Catalog, as far as it says which slugs take the options of Responses.
Catalog(cfg, known, today) ==
  {s \in DOMAIN cfg.models : ExecutionPlan(cfg, known, s, today).options}

Down == [on |-> FALSE]

\* The start of "serve": the warnings come before the discovery, the catalog
\* after it.
Start(answered, ids) ==
  /\ Command
  /\ ~serve.on
  /\ Load
  /\ LET cfg == Discovered(config, answered, ids) IN
     serve' = [on |-> TRUE, cfg |-> cfg, known |-> cache, day |-> day, loaded |-> config,
               warnings |-> CapabilityWarnings(config, cache, day),
               catalog |-> Catalog(cfg, cache, day)]
  /\ UNCHANGED <<config, cache, day, able, changed, verify, changes>>

Stop ==
  /\ serve.on
  /\ serve' = Down
  /\ UNCHANGED <<config, cache, day, able, changed, verify, changes, commands>>

-----------------------------------------------------------------------------
(* The world, and the specification                                        *)

NextDay ==
  /\ day < MaxDay
  /\ day' = day + 1
  /\ UNCHANGED <<config, cache, able, changed, verify, serve, changes, commands>>

\* The upstream becomes able to do something else.
UpstreamChange(endpoint, abilities) ==
  /\ changes < MaxChanges /\ abilities # able[endpoint]
  /\ changes' = changes + 1
  /\ able' = [able EXCEPT ![endpoint] = abilities]
  /\ changed' = [changed EXCEPT ![endpoint] = day]
  /\ UNCHANGED <<config, cache, day, verify, serve, commands>>

Init ==
  /\ config \in Written \cup {NoConfig}
  /\ cache \in OldCaches
  /\ day = 1
  /\ able \in Upstreams
  /\ changed = [e \in Endpoints |-> 0]
  /\ verify = [v \in Verifiers |-> Idle]
  /\ serve = Down
  /\ changes = 0 /\ commands = 0

Next ==
  \/ \E e \in Endpoints, ids \in SUBSET Models, id \in Models,
        profile \in Chosen, exchange \in Faults : Setup(e, ids, id, profile, exchange)
  \/ ExistingPreserved
  \/ \E cfg \in Written : Edit(cfg)
  \/ \E v \in Verifiers :
       \/ \E requested \in SUBSET (Models \cup Slugs) : BeginVerify(v, requested)
       \/ \E id \in Models, exchange \in Faults : Probe(v, id, exchange)
       \/ EndVerify(v)
       \/ AbortVerify(v)
  \/ \E ids \in SUBSET Models : Start(TRUE, ids)
  \/ Start(FALSE, {})
  \/ Stop
  \/ NextDay
  \/ \E e \in Endpoints, abilities \in Able : UpstreamChange(e, abilities)

Spec == Init /\ [][Next]_vars

-----------------------------------------------------------------------------
(* Properties                                                              *)

IsVerifier(p) ==
  \/ p = Idle
  \/ /\ p \in [on : {TRUE}, cfg : {p.cfg}, known : {p.known}, todo : SUBSET Models,
               updated : BOOLEAN]
     /\ IsConfig(p.cfg) /\ IsCache(p.known)

IsServer(p) ==
  \/ p = Down
  \/ /\ p \in [on : {TRUE}, cfg : {p.cfg}, known : {p.known}, day : 1..MaxDay,
               loaded : {p.loaded}, warnings : SUBSET Models, catalog : SUBSET Slugs]
     /\ IsConfig(p.cfg) /\ IsConfig(p.loaded) /\ IsCache(p.known)

\* All variables stay in their types: setup writes only what the configuration
\* can hold, verify and discovery keep records and slugs well formed.
TypeOK ==
  /\ config = NoConfig \/ IsConfig(config)
  /\ IsCache(cache)
  /\ day \in 1..MaxDay
  /\ able \in [Endpoints -> Able]
  /\ changed \in [Endpoints -> 0..MaxDay]
  /\ verify = [v \in Verifiers |-> verify[v]] /\ \A v \in Verifiers : IsVerifier(verify[v])
  /\ IsServer(serve)
  /\ changes \in 0..MaxChanges /\ commands \in 0..MaxCommands

\* What a record says of an upstream that has not changed since.
True(r) ==
  r.current /\ changed[r.at] < r.day =>
    /\ r.passed \subseteq able[r.at]
    /\ ~r.torn => r.passed = able[r.at]

AllTrue(known) == \A m \in DOMAIN known : True(known[m])

\* Every record, in the file or in a process, tells what the upstream at its
\* address could do with its key when it was made: a busy, refusing or silent
\* upstream never turns into a capability that is missing, whatever was edited,
\* verified or interrupted meanwhile.  Only a body that breaks off does (the
\* exception "torn").
RecordTrue ==
  /\ AllTrue(cache)
  /\ \A v \in Verifiers : verify[v].on => AllTrue(verify[v].known)
  /\ serve.on => AllTrue(serve.known)

\* An upstream has been what it is for longer than a record counts.
Settled(e) == day - changed[e] > MaxAge

\* With an upstream that has been the same for MaxAge days, a server that plans
\* by a verification takes Responses only if the upstream has it, and Chat only
\* if it has not (or a body broke off); that Chat works then is not said, for a
\* record with neither way plans Chat (probe.go:143).  It offers options and
\* structured output only where they work.  What setup has written for the model
\* it probed takes only a way that works.  All that whatever was edited, replaced,
\* left by another build or verified on the other side of a change.
PlanTrue ==
  serve.on =>
    \A s \in DOMAIN serve.cfg.models :
      LET model == serve.cfg.models[s]
          e == Endpoint(serve.cfg)
          plan == ExecutionPlan(serve.cfg, serve.known, s, day)
          verified == VerifiedOK(serve.cfg, serve.known, model.upstream, day)
          byRecord == verified /\ Settled(e)
          bySetup == /\ s \in DOMAIN serve.loaded.models /\ model = serve.loaded.models[s]
                     /\ model.upstream = serve.cfg.probed /\ changed[e] < serve.cfg.day
      IN /\ byRecord /\ model.mode = Unset /\ serve.cfg.provider.protocol \in {Unset, "auto"} =>
              /\ plan.mode # "chat_completions" => ResponsesReady(able[e])
              /\ plan.mode = "chat_completions" /\ ~serve.known[model.upstream].torn =>
                   ~ResponsesReady(able[e])
         /\ byRecord /\ model.options = Unset /\ plan.options => "responses_options" \in able[e]
         /\ byRecord /\ model.structured = Unset /\ plan.structured =>
              "responses_structured_output" \in able[e]
         /\ bySetup => IF plan.mode = "chat_completions" THEN ChatReady(able[e])
                       ELSE ResponsesReady(able[e])
         /\ bySetup /\ plan.options => "responses_options" \in able[e]

\* A server plans every request as the catalog it wrote on its start told Codex
\* that it would, although the configuration and the cache have been written
\* since; only a verification that expires meanwhile changes that.
AdvertisedHonoured ==
  serve.on =>
    \A s \in DOMAIN serve.cfg.models :
      LET id == serve.cfg.models[s].upstream IN
      \/ s \in serve.catalog <=> ExecutionPlan(serve.cfg, serve.known, s, day).options
      \/ id \in DOMAIN serve.known /\ Expired(serve.known[id], day)
                                   /\ ~Expired(serve.known[id], serve.day)
=============================================================================
