------------------------ MODULE CapabilitiesProofs ------------------------
(* Theorems about the capability records: about what they say, for any      *)
(* models, endpoints, faults and upstreams and any number of days, changes  *)
(* and commands (Capabilities); and, in the last two parts, about the file  *)
(* they are kept in, for any processes and records and any number of        *)
(* updates and crashes (StateFile).                                         *)
EXTENDS Capabilities, StateFile, FiniteSetTheorems, TLAPS

-----------------------------------------------------------------------------
(* The inductive invariant                                                 *)

\* A record that counts was made by this build, and is true.
GoodRecord(r) ==
  /\ True(r)
  /\ r.current => r.day <= day /\ r.protocol = RecommendedProtocol(r.passed)

GoodRecords(known) == \A m \in DOMAIN known : GoodRecord(known[m])

\* Of the model that setup has probed a configuration says what the upstream
\* can do, if that has not changed since.
GoodConfig(cfg) ==
  /\ cfg.day <= day
  /\ changed[Endpoint(cfg)] < cfg.day =>
       \A s \in DOMAIN cfg.models :
         LET model == cfg.models[s] IN
         model.upstream = cfg.probed =>
           /\ model.mode # Unset
           /\ model.mode = "chat_completions" => ChatReady(able[Endpoint(cfg)])
           /\ model.mode # "chat_completions" =>
                /\ ResponsesReady(able[Endpoint(cfg)])
                /\ model.options # Unset
                /\ model.options = "yes" => "responses_options" \in able[Endpoint(cfg)]

\* What a server has loaded is good, and its catalog is the one of its start.
GoodServer ==
  serve.on =>
    /\ GoodRecords(serve.known) /\ GoodConfig(serve.loaded)
    /\ serve.cfg.provider = serve.loaded.provider
    /\ serve.cfg.probed = serve.loaded.probed /\ serve.cfg.day = serve.loaded.day
    /\ serve.day <= day
    /\ serve.catalog = Catalog(serve.cfg, serve.known, serve.day)

IInv ==
  /\ TypeOK
  /\ changed \in [Endpoints -> 0..day]
  /\ config # NoConfig => GoodConfig(config)
  /\ GoodRecords(cache)
  /\ \A v \in Verifiers : verify[v].on => GoodRecords(verify[v].known)
  /\ GoodServer

-----------------------------------------------------------------------------
(* Lemmas                                                                  *)

\* What a probe finds, the upstream is able to do; without doubts it finds all
\* of it, unless a body broke off.
LEMMA ProbeTells ==
  ASSUME NEW can \in Abilities, NEW exchange \in Exchanges
  PROVE  LET result == Run(can, exchange) IN
         /\ result.passed \subseteq can /\ result.passed \subseteq ModelStages
         /\ result.torn \in BOOLEAN
         /\ Cacheable(result) /\ ~result.torn => result.passed = can
<1> DEFINE last(s) == doProbeRequest(exchange[s])
           passes(s) == last(s) = "answer" /\ (s = "models" \/ s \in can)
           asked == IF passes("responses_tools") THEN Stages
                    ELSE Stages \ {"responses_tool_continuation"}
<1>1. /\ Run(can, exchange).passed = {s \in asked \cap ModelStages : passes(s)}
      /\ Run(can, exchange).doubts = {s \in asked : isInconclusiveError(last(s))}
      /\ Run(can, exchange).torn = (\E s \in asked : last(s) = "cut")
  BY DEF Run
<1>2. \A s \in ModelStages : s # "models"
  BY DEF ModelStages, ResponsesStages, ChatStages, OptionalStages
<1>3. can \subseteq ModelStages /\ ModelStages \subseteq Stages
  BY DEF Abilities, Stages
<1>4. Run(can, exchange).passed \subseteq can /\ Run(can, exchange).torn \in BOOLEAN
  BY <1>1, <1>2
<1>5. ASSUME Cacheable(Run(can, exchange)), ~Run(can, exchange).torn
      PROVE  can \subseteq Run(can, exchange).passed
  <2>1. ASSUME NEW s \in asked PROVE last(s) = "answer"
    <3>1. exchange[s] \in [1..2 -> Replies]
      BY <1>3 DEF Exchanges
    <3>2. last(s) \in Replies
      BY <3>1 DEF doProbeRequest
    <3>3. ~isInconclusiveError(last(s))
      BY <1>1, <1>5 DEF Cacheable
    <3>4. last(s) # "cut"
      BY <1>1, <1>5
    <3> QED BY <3>2, <3>3, <3>4 DEF Replies, isInconclusiveError
  <2>2. ASSUME NEW s \in can PROVE s \in asked
    <3>1. s \in Stages
      BY <1>3
    <3>2. CASE s # "responses_tool_continuation"
      BY <3>1, <3>2
    <3>3. CASE s = "responses_tool_continuation"
      <4>1. "responses_tools" \in can /\ "responses_tools" \in Stages
        BY <1>3, <3>3 DEF Abilities
      <4>2. "responses_tools" \in asked
        BY <4>1
      <4>3. passes("responses_tools")
        BY <2>1, <4>1, <4>2
      <4> QED BY <3>1, <4>3
    <3> QED BY <3>2, <3>3
  <2> HIDE DEF last, asked
  <2>3. ASSUME NEW s \in can PROVE s \in Run(can, exchange).passed
    BY <1>1, <1>3, <2>1, <2>2
  <2> QED BY <2>3
<1> QED BY <1>3, <1>4, <1>5

\* A plan depends on the day only in so far as the verification does.
LEMMA PlanByVerification ==
  ASSUME NEW cfg, NEW known, NEW slug, NEW d1, NEW d2,
         VerifiedOK(cfg, known, cfg.models[slug].upstream, d1)
           <=> VerifiedOK(cfg, known, cfg.models[slug].upstream, d2)
  PROVE  ExecutionPlan(cfg, known, slug, d1) = ExecutionPlan(cfg, known, slug, d2)
<1>1. CASE VerifiedOK(cfg, known, cfg.models[slug].upstream, d1)
  BY <1>1 DEF ExecutionPlan, Supports
<1>2. CASE ~VerifiedOK(cfg, known, cfg.models[slug].upstream, d1)
  BY <1>2 DEF ExecutionPlan, Supports
<1> QED BY <1>1, <1>2

\* The profiles a fingerprint is made of, and the profile of one model.
LEMMA ProfileType ==
  ASSUME NEW cfg, IsConfig(cfg), NEW id \in Models
  PROVE  ProfilesOf(cfg, id) \subseteq Profiles
<1> DEFINE theirs == cfg.provider.profile
<1>1. theirs \in Profiles \cup {Unset}
  BY DEF IsConfig, Providers
<1>2. Normalize(theirs) \in Profiles
  BY <1>1 DEF Normalize, Profiles
<1>3. ASSUME NEW s \in DOMAIN cfg.models
      PROVE  ProfileName(cfg.models[s], cfg.provider) \in Profiles
  <2>1. cfg.models[s].profile \in Profiles \cup {Unset}
    BY DEF IsConfig, ModelConfigs
  <2>2. Normalize(cfg.models[s].profile) \in Profiles
    BY <2>1 DEF Normalize, Profiles
  <2> QED BY <1>2, <2>2 DEF ProfileName, Profiles
<1> QED BY <1>2, <1>3 DEF ProfilesOf

\* Time passes, and an endpoint that changes has changed today.
WorldStep ==
  /\ day \in Nat /\ day' \in Nat /\ day <= day'
  /\ \A e \in Endpoints :
       changed'[e] = day \/ (changed'[e] = changed[e] /\ able'[e] = able[e])

\* What was good stays good.
LEMMA GoodStays ==
  ASSUME WorldStep
  PROVE  /\ \A r \in Capability : GoodRecord(r) => GoodRecord(r)'
         /\ \A cfg : IsConfig(cfg) /\ GoodConfig(cfg) => GoodConfig(cfg)'
<1> USE DEF WorldStep
<1>1. ASSUME NEW r \in Capability, GoodRecord(r) PROVE GoodRecord(r)'
  <2>1. r.at \in Endpoints /\ r.day \in Nat
    BY CapabilitiesConstants DEF Capability
  <2> QED BY <1>1, <2>1 DEF GoodRecord, True
<1>2. ASSUME NEW cfg, IsConfig(cfg), GoodConfig(cfg) PROVE GoodConfig(cfg)'
  <2>1. Endpoint(cfg) \in Endpoints /\ cfg.day \in Nat
    BY <1>2, CapabilitiesConstants DEF IsConfig
  <2> DEFINE e == Endpoint(cfg)
  <2> HIDE DEF e
  <2>2. cfg.day <= day'
    BY <1>2, <2>1 DEF GoodConfig
  <2>3. CASE changed'[e] = day
    BY <1>2, <2>1, <2>2, <2>3 DEF GoodConfig, e
  <2>4. CASE changed'[e] = changed[e] /\ able'[e] = able[e]
    BY <1>2, <2>2, <2>4 DEF GoodConfig, e
  <2> QED BY <2>1, <2>3, <2>4 DEF e
<1> QED BY <1>1, <1>2
-----------------------------------------------------------------------------
(* setup                                                                   *)

\* The configuration setup writes is well formed, and says of the model probed
\* what the upstream can do.
LEMMA SetupWrites ==
  ASSUME TypeOK, NEW e \in Endpoints, NEW ids \in SUBSET Models, NEW id \in Models,
         NEW profile \in Chosen, NEW exchange \in Faults,
         LET passed == Run(able[e], exchange).passed IN
         ResponsesReady(passed) \/ ChatReady(passed)
  PROVE  LET cfg == buildConfig(e, ids, id, profile, Run(able[e], exchange)) IN
         IsConfig(cfg) /\ GoodConfig(cfg)
<1> DEFINE result == Run(able[e], exchange)
           protocol == RecommendedProtocol(result.passed)
           profileOf(m) == IF profile # Unset THEN profile ELSE Guessed[m]
           switch(m, stage) ==
             IF m = id /\ protocol = "responses" THEN SwitchFor(stage, result.passed) ELSE Unset
           model(m) ==
             [upstream |-> m, profile |-> profileOf(m),
              mode |-> executionModeForModel(m, protocol, profileOf(m)),
              options |-> switch(m, "responses_options"),
              structured |-> switch(m, "responses_structured_output")]
           provider == [base |-> e[1], key |-> e[2], type |-> "openai_compatible",
                        protocol |-> protocol, profile |-> profileOf(id)]
           slots == {SlotOf[m] : m \in ids}
           at(s) == CHOOSE m \in ids : SlotOf[m] = s
           models == [s \in slots |-> model(at(s))]
           cfg == [provider |-> provider, discovery |-> "merge", models |-> models,
                   probed |-> id, day |-> day]
<1>1. buildConfig(e, ids, id, profile, result) = cfg
  BY DEF buildConfig
<1>2. able[e] \in Abilities /\ exchange \in Exchanges
  BY CapabilitiesConstants DEF TypeOK
<1>3. result.passed \subseteq able[e] /\ result.passed \subseteq ModelStages
  BY <1>2, ProbeTells
<1>4. protocol \in {"responses", "chat_completions"}
  BY DEF RecommendedProtocol
<1>5. ASSUME NEW m \in Models PROVE profileOf(m) \in Profiles
  BY CapabilitiesConstants
<1> HIDE DEF result, profileOf
<1>6. ASSUME NEW m \in Models PROVE model(m) \in ModelConfigs
  <2>1. executionModeForModel(m, protocol, profileOf(m)) \in Modes
    BY <1>4, <1>5 DEF executionModeForModel, Modes, Profiles
  <2>2. switch(m, "responses_options") \in Switches \cup {Unset}
    BY DEF SwitchFor, Switches
  <2>3. switch(m, "responses_structured_output") \in Switches \cup {Unset}
    BY DEF SwitchFor, Switches
  <2> HIDE DEF switch, protocol
  <2> QED BY <1>5, <2>1, <2>2, <2>3 DEF ModelConfigs
<1>7. \A s \in slots : at(s) \in ids
  OBVIOUS
<1>8. slots \subseteq Slugs
  BY CapabilitiesConstants
<1>9. provider \in Providers
  BY <1>4, <1>5 DEF Providers, Protocols
<1>10. <<provider.base, provider.key>> = e
  BY CapabilitiesConstants
<1>11. day \in 1..MaxDay /\ MaxDay \in Nat
  BY CapabilitiesConstants DEF TypeOK
<1>12. IsConfig(cfg)
  <2> HIDE DEF provider, slots, at, model
  <2>1. models \in [slots -> ModelConfigs] /\ DOMAIN models = slots
    BY <1>6, <1>7
  <2> HIDE DEF models
  <2>2. cfg \in [provider : Providers, discovery : {"merge", "upstream", "config"},
                 models : {cfg.models}, probed : Models, day : 0..MaxDay]
    BY <1>9, <1>11
  <2> QED BY <1>8, <1>10, <2>1, <2>2 DEF IsConfig, Endpoint
<1>13. GoodConfig(cfg)
  <2>1. Endpoint(cfg) = e
    BY <1>10 DEF Endpoint
  <2>2. protocol = "responses" => ResponsesReady(able[e])
    BY <1>3 DEF RecommendedProtocol, ResponsesReady
  <2>3. protocol = "chat_completions" => ChatReady(able[e])
    BY <1>3 DEF RecommendedProtocol, ChatReady, result
  <2>4. ASSUME NEW s \in slots, model(at(s)).upstream = id
        PROVE  /\ model(at(s)).mode \in Modes
               /\ model(at(s)).mode = "chat_completions" <=> protocol # "responses"
               /\ protocol = "responses" =>
                    model(at(s)).options = SwitchFor("responses_options", result.passed)
    <3>1. at(s) = id /\ id \in Models
      BY <2>4
    <3>2. profileOf(id) \in Profiles
      BY <1>5, <3>1
    <3>3. model(id).mode = executionModeForModel(id, protocol, profileOf(id))
      OBVIOUS
    <3>4. executionModeForModel(id, protocol, profileOf(id)) \in Modes
      BY <1>4, <3>2 DEF executionModeForModel, Modes, Profiles
    <3>5. executionModeForModel(id, protocol, profileOf(id)) = "chat_completions"
            <=> protocol # "responses"
      BY <1>4, <3>2 DEF executionModeForModel, Profiles
    <3> HIDE DEF at, protocol
    <3> QED BY <3>1, <3>3, <3>4, <3>5
  <2> HIDE DEF provider, slots, model, at
  <2>5. DOMAIN models = slots /\ \A s \in slots : models[s] = model(at(s))
    OBVIOUS
  <2>6. SwitchFor("responses_options", result.passed) # Unset
    BY DEF SwitchFor, Unset
  <2>7. SwitchFor("responses_options", result.passed) = "yes" => "responses_options" \in able[e]
    BY <1>3 DEF SwitchFor
  <2> HIDE DEF models, protocol
  <2>8. cfg.day = day /\ cfg.probed = id /\ cfg.models = models
    OBVIOUS
  <2> HIDE DEF cfg
  <2>9. Unset \notin Modes
    BY DEF Modes, Unset
  <2> QED BY <1>4, <1>11, <2>1, <2>2, <2>3, <2>4, <2>5, <2>6, <2>7, <2>8, <2>9 DEF GoodConfig
<1> HIDE DEF cfg
<1> QED BY <1>1, <1>12, <1>13 DEF result

-----------------------------------------------------------------------------
(* verify                                                                  *)

\* What verify makes of a probe is a record that is good today.
LEMMA ProbeRecords ==
  ASSUME TypeOK, NEW v \in Verifiers, NEW id \in Models, NEW exchange \in Faults,
         Probe(v, id, exchange), GoodRecords(verify[v].known)
  PROVE  /\ verify'[v].on /\ IsVerifier(verify'[v])
         /\ GoodRecords(verify'[v].known)
         /\ verify' = [verify EXCEPT ![v] = verify'[v]]
<1> DEFINE p == verify[v]
           cfg == p.cfg
           known == p.known
           e == Endpoint(cfg)
           result == Run(able[e], exchange)
           record == [at |-> e, profiles |-> ProfilesOf(cfg, id),
                      provider |-> ProviderSettings(cfg), current |-> TRUE, day |-> day,
                      passed |-> result.passed, protocol |-> RecommendedProtocol(result.passed),
                      torn |-> result.torn]
           new == [m \in DOMAIN known \cup {id} |-> IF m = id THEN record ELSE known[m]]
           later == IF Cacheable(result) THEN new ELSE known
           next == [on |-> TRUE, cfg |-> cfg, todo |-> p.todo \ {id}, known |-> later,
                    updated |-> p.updated \/ Cacheable(result)]
<1>1. p.on /\ IsVerifier(p) /\ verify = [x \in Verifiers |-> verify[x]]
  BY DEF Probe, TypeOK
<1>2. IsConfig(cfg) /\ IsCache(known) /\ p.todo \subseteq Models /\ p.updated \in BOOLEAN
  <2>1. p # Idle
    BY <1>1 DEF Idle
  <2> HIDE DEF p
  <2> QED BY <1>1, <2>1 DEF IsVerifier
<1>3. e \in Endpoints /\ able[e] \in Abilities /\ exchange \in Exchanges
  BY <1>2, CapabilitiesConstants DEF IsConfig, TypeOK
<1>4. /\ result.passed \subseteq able[e] /\ result.passed \subseteq ModelStages
      /\ result.torn \in BOOLEAN
      /\ Cacheable(result) /\ ~result.torn => result.passed = able[e]
  BY <1>3, ProbeTells
<1>5. verify' = [verify EXCEPT ![v] = next]
  BY DEF Probe, UpdateVerifiedCapability
<1> HIDE DEF result, e
<1>6. record \in Capability
  <2>1. ProfilesOf(cfg, id) \in SUBSET Profiles
    BY <1>2, ProfileType
  <2>2. ProviderSettings(cfg) \in
          {"openai_compatible", "openai_chat_compatible"} \X (Protocols \cup {Unset})
    BY <1>2 DEF IsConfig, Providers, ProviderSettings
  <2>3. RecommendedProtocol(result.passed) \in {"responses", "chat_completions"}
    BY DEF RecommendedProtocol
  <2>4. day \in 0..MaxDay
    BY CapabilitiesConstants DEF TypeOK
  <2> QED BY <1>3, <1>4, <2>1, <2>2, <2>3, <2>4 DEF Capability
<1>7. ASSUME Cacheable(result) PROVE GoodRecord(record)
  <2>1. True(record)
    BY <1>4, <1>7 DEF True
  <2>2. record.day <= day
    BY CapabilitiesConstants DEF TypeOK
  <2> QED BY <2>1, <2>2 DEF GoodRecord
<1> HIDE DEF record
<1>8. Cacheable(result) => IsCache(new) /\ GoodRecords(new)
  BY <1>2, <1>6, <1>7 DEF IsCache, GoodRecords
<1>9. IsCache(later) /\ GoodRecords(later)
  BY <1>2, <1>8
<1> HIDE DEF later, cfg
<1>10. IsVerifier(next)
  BY <1>2, <1>9 DEF IsVerifier
<1>11. verify'[v] = next /\ next.on /\ next.known = later
  BY <1>1, <1>5
<1> HIDE DEF next
<1> QED BY <1>5, <1>9, <1>10, <1>11

-----------------------------------------------------------------------------
(* serve                                                                   *)

\* Discovery keeps the configuration well formed, and what it says of the
\* provider.
LEMMA DiscoveryType ==
  ASSUME NEW cfg, IsConfig(cfg), NEW answered \in BOOLEAN, NEW ids \in SUBSET Models
  PROVE  /\ IsConfig(Discovered(cfg, answered, ids))
         /\ Discovered(cfg, answered, ids).provider = cfg.provider
         /\ Discovered(cfg, answered, ids).probed = cfg.probed
         /\ Discovered(cfg, answered, ids).day = cfg.day
<1> DEFINE found(m) == [upstream |-> m, profile |-> cfg.provider.profile, mode |-> Unset,
                        options |-> Unset, structured |-> Unset]
           slots == {SlotOf[m] : m \in ids}
           kept == IF cfg.discovery = "merge" THEN DOMAIN cfg.models ELSE {}
           at(s) == CHOOSE m \in ids : SlotOf[m] = s
           models == [s \in kept \cup slots |-> IF s \in kept THEN cfg.models[s]
                                                ELSE found(at(s))]
<1>1. CASE cfg.discovery = "config" \/ ~answered
  BY <1>1 DEF Discovered
<1>2. CASE ~(cfg.discovery = "config" \/ ~answered)
  <2>1. Discovered(cfg, answered, ids) = [cfg EXCEPT !.models = models]
    BY <1>2 DEF Discovered
  <2>2. \A s \in slots : at(s) \in ids
    OBVIOUS
  <2>3. \A m \in Models : found(m) \in ModelConfigs
    BY DEF IsConfig, Providers, ModelConfigs
  <2>4. kept \cup slots \subseteq Slugs
    BY CapabilitiesConstants DEF IsConfig
  <2>5. \A s \in kept : cfg.models[s] \in ModelConfigs
    BY DEF IsConfig
  <2> HIDE DEF found, at, slots, kept
  <2>6. models \in [kept \cup slots -> ModelConfigs] /\ DOMAIN models = kept \cup slots
    BY <2>2, <2>3, <2>5
  <2> HIDE DEF models
  <2> QED BY <2>1, <2>4, <2>6 DEF IsConfig, Endpoint
<1> QED BY <1>1, <1>2
-----------------------------------------------------------------------------
(* Steps                                                                   *)

LEMMA InitIInv == Init => IInv
<1> SUFFICES ASSUME Init PROVE IInv
  OBVIOUS
<1> USE CapabilitiesConstants DEF Init
<1>1. config = NoConfig \/ (IsConfig(config) /\ config.day = 0)
  OBVIOUS
<1>2. IsCache(cache) /\ \A m \in DOMAIN cache : ~cache[m].current
  OBVIOUS
<1>3. changed \in [Endpoints -> 0..day] /\ day \in 1..MaxDay /\ changed \in [Endpoints -> 0..MaxDay]
  OBVIOUS
<1>4. able \in [Endpoints -> Able]
  OBVIOUS
<1>5. TypeOK
  BY <1>1, <1>2, <1>3, <1>4 DEF TypeOK, IsVerifier, IsServer
<1>6. config # NoConfig => GoodConfig(config)
  <2>1. config # NoConfig => Endpoint(config) \in Endpoints /\ config.day = 0
    BY <1>1 DEF IsConfig
  <2> QED BY <1>3, <2>1 DEF GoodConfig
<1>7. GoodRecords(cache)
  BY <1>2 DEF GoodRecords, GoodRecord, True
<1>8. GoodServer /\ \A v \in Verifiers : ~verify[v].on
  BY DEF GoodServer, Down, Idle
<1> QED BY <1>3, <1>5, <1>6, <1>7, <1>8 DEF IInv

\* What a running process has loaded.
LEMMA LoadedTypes ==
  ASSUME NEW p, p.on
  PROVE  /\ IsVerifier(p) => /\ IsConfig(p.cfg) /\ IsCache(p.known) /\ p.todo \subseteq Models
                             /\ p.updated \in BOOLEAN
         /\ IsServer(p) => /\ IsConfig(p.cfg) /\ IsConfig(p.loaded) /\ IsCache(p.known)
                           /\ p.day \in 1..MaxDay
<1>1. p # Idle /\ p # Down
  BY DEF Idle, Down
<1> QED BY <1>1 DEF IsVerifier, IsServer

\* What is not written in a step stays good, and of its type.
LEMMA Unwritten ==
  ASSUME IInv, WorldStep
  PROVE  /\ UNCHANGED config => (config' # NoConfig => IsConfig(config') /\ GoodConfig(config)')
         /\ UNCHANGED cache => IsCache(cache') /\ GoodRecords(cache)'
         /\ \A v \in Verifiers : verify'[v] = verify[v] =>
              IsVerifier(verify'[v]) /\ (verify'[v].on => GoodRecords(verify[v].known)')
         /\ UNCHANGED serve => IsServer(serve') /\ GoodServer'
<1> USE DEF IInv
<1>1. \A known : IsCache(known) => \A m \in DOMAIN known : known[m] \in Capability
  BY DEF IsCache
<1>2. UNCHANGED config => (config' # NoConfig => IsConfig(config') /\ GoodConfig(config)')
  BY GoodStays DEF TypeOK, GoodConfig
<1>3. UNCHANGED cache => IsCache(cache') /\ GoodRecords(cache)'
  BY <1>1, GoodStays DEF TypeOK, GoodRecords, GoodRecord, True
<1>4. ASSUME NEW v \in Verifiers, verify'[v] = verify[v]
      PROVE  IsVerifier(verify'[v]) /\ (verify'[v].on => GoodRecords(verify[v].known)')
  <2>1. IsVerifier(verify[v])
    BY DEF TypeOK
  <2>2. CASE ~verify[v].on
    BY <1>4, <2>1, <2>2
  <2>3. CASE verify[v].on
    <3>1. IsCache(verify[v].known) /\ GoodRecords(verify[v].known)
      BY <2>1, <2>3, LoadedTypes
    <3>2. GoodRecords(verify[v].known)'
      BY <1>1, <1>4, <3>1, GoodStays DEF GoodRecords, GoodRecord, True
    <3> QED BY <1>4, <2>1, <3>2
  <2> QED BY <2>2, <2>3
<1>5. UNCHANGED serve => IsServer(serve') /\ GoodServer'
  <2> SUFFICES ASSUME UNCHANGED serve PROVE IsServer(serve') /\ GoodServer'
    OBVIOUS
  <2>1. IsServer(serve)
    BY DEF TypeOK
  <2>2. CASE ~serve.on
    BY <2>1, <2>2 DEF GoodServer
  <2>3. CASE serve.on
    <3>1. IsCache(serve.known) /\ IsConfig(serve.loaded) /\ serve.day \in 1..MaxDay
      BY <2>1, <2>3, LoadedTypes
    <3>2. GoodRecords(serve.known)'
      BY <1>1, <2>3, <3>1, GoodStays DEF GoodServer, GoodRecords, GoodRecord, True
    <3>3. GoodConfig(serve.loaded)'
      BY <2>3, <3>1, GoodStays DEF GoodServer, GoodConfig
    <3>4. serve'.day <= day'
      BY <2>3, <3>1, CapabilitiesConstants DEF GoodServer, WorldStep
    <3> QED BY <2>1, <2>3, <3>2, <3>3, <3>4 DEF GoodServer
  <2> QED BY <2>2, <2>3
<1> QED BY <1>2, <1>3, <1>4, <1>5

\* The steps that leave the endpoints as they are.
LEMMA SameWorld ==
  ASSUME IInv, UNCHANGED <<day, able, changed>>
  PROVE  /\ WorldStep
         /\ changed' \in [Endpoints -> 0..day'] /\ changed' \in [Endpoints -> 0..MaxDay]
         /\ day' \in 1..MaxDay /\ able' \in [Endpoints -> Able]
BY CapabilitiesConstants DEF IInv, TypeOK, WorldStep

\* What the invariant is made of, for the state after a step.
LEMMA Assemble ==
  ASSUME config' = NoConfig \/ (IsConfig(config') /\ GoodConfig(config)'),
         IsCache(cache') /\ GoodRecords(cache)',
         day' \in 1..MaxDay, able' \in [Endpoints -> Able],
         changed' \in [Endpoints -> 0..MaxDay], changed' \in [Endpoints -> 0..day'],
         verify' = [v \in Verifiers |-> verify'[v]],
         \A v \in Verifiers :
           IsVerifier(verify'[v]) /\ (verify'[v].on => GoodRecords(verify[v].known)'),
         IsServer(serve') /\ GoodServer',
         changes' \in 0..MaxChanges /\ commands' \in 0..MaxCommands
  PROVE  IInv'
BY DEF IInv, TypeOK
\* The records verify stores are the ones it has read and made.
LEMMA MergedGood ==
  ASSUME IInv, NEW v \in Verifiers, verify[v].on,
         UNCHANGED <<day, able, changed>>,
         cache' = [m \in DOMAIN cache \cup DOMAIN verify[v].known |->
                     IF m \in DOMAIN verify[v].known THEN verify[v].known[m] ELSE cache[m]]
  PROVE  IsCache(cache') /\ GoodRecords(cache)'
<1>1. IsCache(cache) /\ IsCache(verify[v].known)
  BY LoadedTypes DEF IInv, TypeOK
<1>2. GoodRecords(cache) /\ GoodRecords(verify[v].known)
  BY DEF IInv
<1>3. IsCache(cache')
  BY <1>1 DEF IsCache
<1>4. ASSUME NEW m \in DOMAIN cache' PROVE GoodRecord(cache[m])'
  <2>1. GoodRecord(cache'[m])
    BY <1>2, <1>4 DEF GoodRecords
  <2> QED BY <2>1 DEF GoodRecord, True
<1> QED BY <1>3, <1>4 DEF GoodRecords

LEMMA StepIInv == IInv /\ [Next]_vars => IInv'
<1> SUFFICES ASSUME IInv, [Next]_vars PROVE IInv'
  OBVIOUS
<1>1. commands \in 0..MaxCommands /\ changes \in 0..MaxChanges
      /\ MaxCommands \in Nat /\ MaxChanges \in Nat /\ MaxDay \in Nat
      /\ verify = [v \in Verifiers |-> verify[v]]
  BY CapabilitiesConstants DEF IInv, TypeOK
<1>2. Command => commands' \in 0..MaxCommands
  BY <1>1 DEF Command
<1>3. ASSUME NEW e \in Endpoints, NEW ids \in SUBSET Models, NEW id \in Models,
             NEW profile \in Chosen, NEW exchange \in Faults,
             Setup(e, ids, id, profile, exchange)
      PROVE  IInv'
  <2>1. IsConfig(config') /\ GoodConfig(config')
    BY <1>3, SetupWrites DEF Setup, IInv
  <2>2. GoodConfig(config)'
    BY <1>3, <2>1 DEF Setup, GoodConfig
  <2> QED BY <1>1, <1>2, <1>3, <2>1, <2>2, SameWorld, Unwritten, Assemble DEF Setup
<1>4. CASE ExistingPreserved
  BY <1>1, <1>2, <1>4, SameWorld, Unwritten, Assemble DEF ExistingPreserved
<1>5. ASSUME NEW cfg \in Written, Edit(cfg) PROVE IInv'
  <2>1. IsConfig(config') /\ config'.day = 0
    BY <1>5, CapabilitiesConstants DEF Edit
  <2>2. GoodConfig(config)'
    BY <1>5, <2>1, SameWorld DEF GoodConfig, Edit, IsConfig
  <2> QED BY <1>1, <1>2, <1>5, <2>1, <2>2, SameWorld, Unwritten, Assemble DEF Edit
<1>6. ASSUME NEW v \in Verifiers, NEW requested \in SUBSET (Models \cup Slugs),
             BeginVerify(v, requested)
      PROVE  IInv'
  <2> DEFINE p == [on |-> TRUE, cfg |-> config, known |-> cache,
                   todo |-> verifyModelIDs(config, requested), updated |-> FALSE]
  <2>1. IsConfig(config) /\ IsCache(cache)
    BY <1>6 DEF BeginVerify, Load, IInv, TypeOK
  <2>2. verifyModelIDs(config, requested) \subseteq Models
    BY <1>6, <2>1 DEF verifyModelIDs, BeginVerify, IsConfig, ModelConfigs
  <2>3. IsVerifier(p)
    BY <2>1, <2>2 DEF IsVerifier
  <2>4. verify' = [verify EXCEPT ![v] = p]
    BY <1>6 DEF BeginVerify
  <2>5. GoodRecords(cache)'
    BY <1>6, SameWorld, Unwritten DEF BeginVerify
  <2>6. p.known = cache
    OBVIOUS
  <2> HIDE DEF p
  <2>7. verify'[v] = p /\ verify' = [x \in Verifiers |-> verify'[x]]
        /\ \A x \in Verifiers : x # v => verify'[x] = verify[x]
    BY <1>1, <2>4
  <2>8. GoodRecords(verify[v].known)'
    BY <1>6, <2>5, <2>6, <2>7 DEF BeginVerify
  <2> QED BY <1>1, <1>2, <1>6, <2>3, <2>7, <2>8, SameWorld, Unwritten, Assemble DEF BeginVerify
<1>7. ASSUME NEW v \in Verifiers, NEW id \in Models, NEW exchange \in Faults,
             Probe(v, id, exchange)
      PROVE  IInv'
  <2>1. TypeOK /\ GoodRecords(verify[v].known)
    BY <1>7 DEF Probe, IInv
  <2>2. /\ IsVerifier(verify'[v]) /\ GoodRecords(verify'[v].known)
        /\ verify' = [verify EXCEPT ![v] = verify'[v]]
    BY <1>7, <2>1, ProbeRecords
  <2>3. GoodRecords(verify[v].known)'
    BY <1>7, <2>2 DEF GoodRecords, GoodRecord, True, Probe
  <2>4. verify' = [x \in Verifiers |-> verify'[x]]
        /\ \A x \in Verifiers : x # v => verify'[x] = verify[x]
    BY <1>1, <2>2
  <2> QED BY <1>1, <1>7, <2>2, <2>3, <2>4, SameWorld, Unwritten, Assemble DEF Probe
<1>8. ASSUME NEW v \in Verifiers, verify' = [verify EXCEPT ![v] = Idle]
      PROVE  /\ verify' = [x \in Verifiers |-> verify'[x]]
             /\ \A x \in Verifiers : x # v => verify'[x] = verify[x]
             /\ IsVerifier(verify'[v]) /\ ~verify'[v].on
  BY <1>1, <1>8 DEF Idle, IsVerifier
<1>9. ASSUME NEW v \in Verifiers, EndVerify(v) PROVE IInv'
  <2>1. UNCHANGED <<day, able, changed>> /\ verify[v].on
    BY <1>9 DEF EndVerify
  <2>2. IsCache(cache') /\ GoodRecords(cache)'
    <3>1. CASE ~verify[v].updated
      BY <1>9, <2>1, <3>1, SameWorld, Unwritten DEF EndVerify
    <3>2. CASE verify[v].updated
      BY <1>9, <2>1, <3>2, MergedGood DEF EndVerify
    <3> QED BY <3>1, <3>2
  <2> QED BY <1>1, <1>8, <1>9, <2>2, SameWorld, Unwritten, Assemble DEF EndVerify
<1>10. ASSUME NEW v \in Verifiers, AbortVerify(v) PROVE IInv'
  BY <1>1, <1>8, <1>10, SameWorld, Unwritten, Assemble DEF AbortVerify
<1>11. ASSUME NEW answered \in BOOLEAN, NEW ids \in SUBSET Models, Start(answered, ids)
       PROVE  IInv'
  <2> DEFINE cfg == Discovered(config, answered, ids)
             p == [on |-> TRUE, cfg |-> cfg, known |-> cache, day |-> day, loaded |-> config,
                   warnings |-> CapabilityWarnings(config, cache, day),
                   catalog |-> Catalog(cfg, cache, day)]
  <2>1. serve' = p
    BY <1>11 DEF Start
  <2>2. IsConfig(config) /\ GoodConfig(config) /\ IsCache(cache) /\ day \in 1..MaxDay
    BY <1>11 DEF Start, Load, IInv, TypeOK
  <2>3. IsConfig(cfg) /\ cfg.provider = config.provider /\ cfg.probed = config.probed
        /\ cfg.day = config.day
    BY <2>2, DiscoveryType
  <2> HIDE DEF cfg
  <2>4. CapabilityWarnings(config, cache, day) \subseteq Models
    BY <2>2 DEF CapabilityWarnings, IsConfig, ModelConfigs
  <2>5. Catalog(cfg, cache, day) \subseteq Slugs
    BY <2>3 DEF Catalog, IsConfig
  <2>6. IsServer(p)
    BY <2>2, <2>3, <2>4, <2>5 DEF IsServer
  <2>7. GoodConfig(config)' /\ GoodRecords(cache)' /\ UNCHANGED <<config, cache, day>>
    BY <1>11, <2>2, SameWorld, Unwritten DEF Start, Load
  <2>8. /\ p.known = cache /\ p.loaded = config /\ p.cfg = cfg /\ p.day = day
        /\ p.catalog = Catalog(cfg, cache, day)
    OBVIOUS
  <2> HIDE DEF p
  <2>9. GoodServer'
    BY <2>1, <2>2, <2>3, <2>7, <2>8, CapabilitiesConstants DEF GoodServer
  <2> QED BY <1>1, <1>2, <1>11, <2>1, <2>6, <2>7, <2>9, SameWorld, Unwritten, Assemble DEF Start
<1>12. CASE Stop
  <2>1. IsServer(serve') /\ GoodServer'
    BY <1>12 DEF Stop, Down, IsServer, GoodServer
  <2> QED BY <1>1, <1>12, <2>1, SameWorld, Unwritten, Assemble DEF Stop
<1>13. CASE NextDay
  <2>1. WorldStep /\ day' \in 1..MaxDay /\ changed' \in [Endpoints -> 0..day']
        /\ able' \in [Endpoints -> Able] /\ changed' \in [Endpoints -> 0..MaxDay]
    <3>1. day \in 1..MaxDay /\ changed \in [Endpoints -> 0..day]
          /\ able \in [Endpoints -> Able] /\ changed \in [Endpoints -> 0..MaxDay]
      BY DEF IInv, TypeOK
    <3> QED BY <1>1, <1>13, <3>1 DEF NextDay, WorldStep
  <2> QED BY <1>1, <1>13, <2>1, Unwritten, Assemble DEF NextDay
<1>14. ASSUME NEW e \in Endpoints, NEW abilities \in Able, UpstreamChange(e, abilities)
       PROVE  IInv'
  <2>1. WorldStep /\ day' \in 1..MaxDay /\ changed' \in [Endpoints -> 0..day']
        /\ able' \in [Endpoints -> Able] /\ changed' \in [Endpoints -> 0..MaxDay]
    <3>1. day \in 1..MaxDay /\ changed \in [Endpoints -> 0..day]
          /\ able \in [Endpoints -> Able] /\ changed \in [Endpoints -> 0..MaxDay]
      BY DEF IInv, TypeOK
    <3> QED BY <1>1, <1>14, <3>1 DEF UpstreamChange, WorldStep
  <2>2. changes' \in 0..MaxChanges
    BY <1>1, <1>14 DEF UpstreamChange
  <2> QED BY <1>1, <1>14, <2>1, <2>2, Unwritten, Assemble DEF UpstreamChange
<1>15. CASE UNCHANGED vars
  BY <1>1, <1>15, SameWorld, Unwritten, Assemble DEF vars
<1> QED BY <1>3, <1>4, <1>5, <1>6, <1>7, <1>9, <1>10, <1>11, <1>12, <1>13, <1>14, <1>15 DEF Next
-----------------------------------------------------------------------------
(* What follows                                                            *)

LEMMA Inductive == Spec => []IInv
BY InitIInv, StepIInv, PTL DEF Spec

\* Every file and every process holds well-formed configurations and records,
\* whatever is written, probed and discovered.
THEOREM TypeCorrect == Spec => []TypeOK
<1>1. IInv => TypeOK
  BY DEF IInv
<1> QED BY <1>1, Inductive, PTL

\* No record, wherever it is held, says of an upstream that has not changed
\* since what is not so, except after a body that broke off.
THEOREM RecordsAreTrue == Spec => []RecordTrue
<1>1. IInv => RecordTrue
  BY DEF IInv, RecordTrue, AllTrue, GoodRecords, GoodRecord, GoodServer
<1> QED BY <1>1, Inductive, PTL

\* A record that counts for an upstream settled for longer than records count
\* says what that upstream can do.
LEMMA CountingRecord ==
  ASSUME IInv, serve.on, NEW id, VerifiedOK(serve.cfg, serve.known, id, day),
         Settled(Endpoint(serve.cfg))
  PROVE  /\ serve.known[id].passed \subseteq able[Endpoint(serve.cfg)]
         /\ ~serve.known[id].torn => serve.known[id].passed = able[Endpoint(serve.cfg)]
         /\ serve.known[id].protocol = RecommendedProtocol(serve.known[id].passed)
<1> DEFINE r == serve.known[id]
           e == Endpoint(serve.cfg)
<1>1. IsConfig(serve.cfg) /\ IsCache(serve.known)
  BY LoadedTypes DEF IInv, TypeOK
<1>2. id \in DOMAIN serve.known /\ GoodRecord(r) /\ r \in Capability
  BY <1>1 DEF VerifiedOK, IInv, GoodServer, GoodRecords, IsCache
<1>3. r.at \in Endpoints /\ r.day \in Nat /\ r.current
  BY <1>2, CapabilitiesConstants DEF Capability, VerifiedOK
<1>4. r.at[1] = serve.cfg.provider.base /\ r.at[2] = serve.cfg.provider.key
  BY DEF VerifiedOK, SameFingerprints
<1>5. r.at = e
  BY <1>3, <1>4, CapabilitiesConstants DEF Endpoint
<1>6. day - r.day <= MaxAge
  <2>1. ~(day - r.day > MaxAge)
    BY DEF VerifiedOK, Expired
  <2>2. day \in Nat /\ MaxAge \in Nat
    BY CapabilitiesConstants DEF IInv, TypeOK
  <2> QED BY <1>3, <2>1, <2>2
<1>7. changed[e] < r.day
  <2>1. changed[e] \in Nat /\ day \in Nat /\ MaxAge \in Nat
    BY <1>3, <1>5, CapabilitiesConstants DEF IInv, TypeOK
  <2>2. day - changed[e] > MaxAge
    BY DEF Settled
  <2> HIDE DEF r, e
  <2> QED BY <1>3, <1>6, <2>1, <2>2
<1> QED BY <1>2, <1>3, <1>5, <1>7 DEF GoodRecord, True

\* The plan for a model by a verification, or by what setup has written.
LEMMA PlanBy ==
  ASSUME NEW cfg, NEW known, NEW s, NEW today
  PROVE  LET model == cfg.models[s]
             plan == ExecutionPlan(cfg, known, s, today)
             verified == VerifiedOK(cfg, known, model.upstream, today)
         IN /\ verified /\ model.mode = Unset /\ cfg.provider.protocol \in {Unset, "auto"}
                 => (plan.mode # "chat_completions"
                       <=> known[model.upstream].protocol = "responses")
            /\ verified /\ model.options = Unset /\ plan.options
                 => "responses_options" \in known[model.upstream].passed
            /\ verified /\ model.structured = Unset /\ plan.structured
                 => "responses_structured_output" \in known[model.upstream].passed
            /\ model.mode # Unset => plan.mode = model.mode
            /\ plan.options => plan.mode # "chat_completions"
            /\ plan.options /\ model.options # Unset => model.options = "yes"
BY DEF ExecutionPlan, Supports, Unset

\* A server that plans by a record that counts takes Responses exactly where an
\* upstream settled for longer than records count has it (a torn record may say
\* less), and options and structured output only where they work; by what setup
\* has found it takes only a way that works.  Where neither way works, a record
\* plans Chat.
THEOREM PlansAreTrue == Spec => []PlanTrue
<1>1. ASSUME IInv PROVE PlanTrue
  <2> SUFFICES ASSUME serve.on, NEW s \in DOMAIN serve.cfg.models
               PROVE  LET model == serve.cfg.models[s]
                          e == Endpoint(serve.cfg)
                          plan == ExecutionPlan(serve.cfg, serve.known, s, day)
                          verified == VerifiedOK(serve.cfg, serve.known, model.upstream, day)
                          byRecord == verified /\ Settled(e)
                          bySetup == /\ s \in DOMAIN serve.loaded.models /\ model = serve.loaded.models[s]
                                     /\ model.upstream = serve.cfg.probed /\ changed[e] < serve.cfg.day
                      IN /\ byRecord /\ model.mode = Unset /\ serve.cfg.provider.protocol \in {Unset, "auto"} =>
                              /\ plan.mode # "chat_completions" => ResponsesReady(able[e])
                              /\ plan.mode = "chat_completions"
                                   /\ ~serve.known[model.upstream].torn => ~ResponsesReady(able[e])
                         /\ byRecord /\ model.options = Unset /\ plan.options => "responses_options" \in able[e]
                         /\ byRecord /\ model.structured = Unset /\ plan.structured =>
                              "responses_structured_output" \in able[e]
                         /\ bySetup => IF plan.mode = "chat_completions" THEN ChatReady(able[e])
                                       ELSE ResponsesReady(able[e])
                         /\ bySetup /\ plan.options => "responses_options" \in able[e]
    BY DEF PlanTrue
  <2> DEFINE model == serve.cfg.models[s]
             e == Endpoint(serve.cfg)
             plan == ExecutionPlan(serve.cfg, serve.known, s, day)
             verified == VerifiedOK(serve.cfg, serve.known, model.upstream, day)
             passed == serve.known[model.upstream].passed
  <2>1. /\ verified /\ model.mode = Unset /\ serve.cfg.provider.protocol \in {Unset, "auto"}
             => (plan.mode # "chat_completions"
                   <=> serve.known[model.upstream].protocol = "responses")
        /\ verified /\ model.options = Unset /\ plan.options => "responses_options" \in passed
        /\ verified /\ model.structured = Unset /\ plan.structured
             => "responses_structured_output" \in passed
        /\ model.mode # Unset => plan.mode = model.mode
        /\ plan.options => plan.mode # "chat_completions"
        /\ plan.options /\ model.options # Unset => model.options = "yes"
    BY PlanBy
  <2>2. ASSUME verified, Settled(e)
        PROVE  /\ passed \subseteq able[e]
               /\ ~serve.known[model.upstream].torn => passed = able[e]
               /\ serve.known[model.upstream].protocol = RecommendedProtocol(passed)
    BY <1>1, <2>2, CountingRecord
  <2>3. RecommendedProtocol(passed) = "responses" <=> ResponsesReady(passed)
    BY DEF RecommendedProtocol
  <2>4. ResponsesReady(passed) /\ passed \subseteq able[e] => ResponsesReady(able[e])
    BY DEF ResponsesReady
  <2>5. ASSUME s \in DOMAIN serve.loaded.models, model = serve.loaded.models[s],
               model.upstream = serve.cfg.probed, changed[e] < serve.cfg.day
        PROVE  /\ IF plan.mode = "chat_completions" THEN ChatReady(able[e])
                  ELSE ResponsesReady(able[e])
               /\ plan.options => "responses_options" \in able[e]
    <3>1. /\ GoodConfig(serve.loaded) /\ serve.cfg.provider = serve.loaded.provider
          /\ serve.cfg.probed = serve.loaded.probed /\ serve.cfg.day = serve.loaded.day
      BY <1>1 DEF IInv, GoodServer
    <3>2. e = Endpoint(serve.loaded)
      BY <3>1 DEF Endpoint
    <3>3. /\ model.mode # Unset
          /\ model.mode = "chat_completions" => ChatReady(able[e])
          /\ model.mode # "chat_completions" =>
               /\ ResponsesReady(able[e]) /\ model.options # Unset
               /\ model.options = "yes" => "responses_options" \in able[e]
      BY <2>5, <3>1, <3>2 DEF GoodConfig
    <3> HIDE DEF plan, model, e
    <3> QED BY <2>1, <3>3
  <2> HIDE DEF plan, model, e, verified, passed
  <2>6. ASSUME verified, Settled(e)
        PROVE  /\ model.mode = Unset /\ serve.cfg.provider.protocol \in {Unset, "auto"} =>
                    /\ plan.mode # "chat_completions" => ResponsesReady(able[e])
                    /\ plan.mode = "chat_completions"
                         /\ ~serve.known[model.upstream].torn => ~ResponsesReady(able[e])
               /\ model.options = Unset /\ plan.options => "responses_options" \in able[e]
               /\ model.structured = Unset /\ plan.structured =>
                    "responses_structured_output" \in able[e]
    BY <2>1, <2>2, <2>3, <2>4, <2>6
  <2> QED BY <2>5, <2>6 DEF plan, model, e, verified, passed
<1> QED BY <1>1, Inductive, PTL

\* A server's plans stay what its catalog said on its start, unless a record
\* expires while it runs.
THEOREM CatalogIsHonoured == Spec => []AdvertisedHonoured
<1>1. ASSUME IInv PROVE AdvertisedHonoured
  <2> SUFFICES ASSUME serve.on, NEW s \in DOMAIN serve.cfg.models,
                      LET id == serve.cfg.models[s].upstream IN
                      ~(id \in DOMAIN serve.known /\ Expired(serve.known[id], day)
                          /\ ~Expired(serve.known[id], serve.day))
               PROVE  s \in serve.catalog
                        <=> ExecutionPlan(serve.cfg, serve.known, s, day).options
    BY DEF AdvertisedHonoured
  <2> DEFINE id == serve.cfg.models[s].upstream
  <2>1. s \in serve.catalog
          <=> ExecutionPlan(serve.cfg, serve.known, s, serve.day).options
    BY <1>1 DEF IInv, GoodServer, Catalog
  <2>2. VerifiedOK(serve.cfg, serve.known, id, serve.day)
          <=> VerifiedOK(serve.cfg, serve.known, id, day)
    <3>1. id \in DOMAIN serve.known =>
            (Expired(serve.known[id], serve.day) => Expired(serve.known[id], day))
      <4>1. serve.day \in Nat /\ day \in Nat /\ serve.day <= day /\ MaxAge \in Nat
        BY <1>1, LoadedTypes, CapabilitiesConstants DEF IInv, TypeOK, GoodServer
      <4>2. id \in DOMAIN serve.known => serve.known[id].day \in Nat
        BY <1>1, LoadedTypes, CapabilitiesConstants DEF IInv, TypeOK, IsCache, Capability
      <4> HIDE DEF id
      <4> QED BY <4>1, <4>2 DEF Expired
    <3> QED BY <3>1 DEF VerifiedOK
  <2> QED BY <2>1, <2>2, PlanByVerification
<1> QED BY <1>1, Inductive, PTL

-----------------------------------------------------------------------------
(* The file the records are kept in.  Its inductive invariant              *)

\* Who is inside has the lock, and it is not an old one.
LockHeld == \A p \in Processes : Inside(p) => lock.holder = p /\ ~lock.old

\* What a process is going to rename is what it has written.
TempWritten == \A p \in Processes : pc[p] = "rename" => temp = {merged[p]}

\* No record of the file is missing in what a process is going to write.
NothingMissing ==
  \A p \in Processes : pc[p] \in {"truncate", "write", "rename"} =>
    \A k \in Keys : file[k] # 0 => merged[p][k] # 0

FileInv ==
  /\ FileTypeOK
  /\ ~broken => LockHeld /\ TempWritten /\ NothingMissing /\ file # Partial

\* A complete file is none that is being written.
LEMMA CompleteFile == \A r \in Records : r # Partial
BY StateFileConstants DEF Records, Partial

\* A merge has the records of both sides.
LEMMA MergeKeeps ==
  ASSUME NEW copy \in Records, NEW latest \in Records
  PROVE  /\ Merge(copy, latest) \in Records
         /\ \A k \in Keys : latest[k] # 0 => Merge(copy, latest)[k] # 0
BY DEF Merge, Records

\* At most one process is inside while the lock works.
LEMMA InsideAlone ==
  ASSUME LockHeld, NEW p \in Processes, NEW q \in Processes, Inside(p), Inside(q)
  PROVE  p = q
BY DEF LockHeld

\* Nobody is inside, and the file is complete.
LEMMA FileInitial == FileInit => FileInv
<1> SUFFICES ASSUME FileInit PROVE FileInv
  OBVIOUS
<1>1. NoRecords \in Records
  BY StateFileConstants DEF NoRecords, Records
<1>2. Cardinality({}) = 0
  BY FS_EmptySet
<1>3. FileTypeOK
  <2>1. temp \subseteq Records \cup {Partial} /\ Cardinality(temp) <= 1
    BY <1>2 DEF FileInit
  <2>2. lock \in [holder : Processes \cup {NoOne}, old : BOOLEAN]
    BY DEF FileInit, NoLock
  <2>3. /\ snapshot \in [Processes -> Records] /\ merged \in [Processes -> Records]
        /\ own \in [Processes -> SUBSET Keys] /\ broken \in BOOLEAN
        /\ pc \in [Processes -> Critical \cup {"down", "up", "locking", "removing"}]
    BY <1>1 DEF FileInit
  <2>4. updates \in 0..MaxUpdates /\ crashes \in 0..MaxCrashes
    BY StateFileConstants DEF FileInit
  <2> QED BY <1>1, <2>1, <2>2, <2>3, <2>4 DEF FileInit, FileTypeOK
<1>4. LockHeld /\ TempWritten /\ NothingMissing /\ file # Partial
  BY <1>1, CompleteFile
     DEF FileInit, LockHeld, TempWritten, NothingMissing, Inside, Critical
<1> QED BY <1>3, <1>4 DEF FileInv

\* Every step keeps the types.
LEMMA TypeStep == FileTypeOK /\ [FileNext]_fileVars => FileTypeOK'
<1> SUFFICES ASSUME FileTypeOK, [FileNext]_fileVars PROVE FileTypeOK'
  OBVIOUS
<1> USE DEF FileTypeOK, Goto, Critical, NoLock, local
<1>1. ASSUME NEW r \in Records \cup {Partial}
      PROVE  {r} \subseteq Records \cup {Partial} /\ Cardinality({r}) <= 1
  <2>1. Cardinality({r}) = 1
    BY FS_Singleton
  <2> QED BY <2>1
<1>2. CASE LockAges
  BY <1>2 DEF LockAges
<1>3. ASSUME NEW p \in Processes, LoadState(p) \/ StartWrite(p) \/ Exit(p) \/ Crash(p)
      PROVE  FileTypeOK'
  <2>1. CASE LoadState(p)
    BY <2>1 DEF LoadState
  <2>2. CASE StartWrite(p) \/ Exit(p)
    BY <2>2 DEF StartWrite, Exit
  <2>3. CASE Crash(p)
    <3>1. crashes' \in 0..MaxCrashes
      BY <2>3, StateFileConstants DEF Crash
    <3> QED BY <2>3, <3>1 DEF Crash
  <2> QED BY <1>3, <2>1, <2>2, <2>3
<1>4. ASSUME NEW p \in Processes, NEW k \in Keys, Change(p, k)
      PROVE  FileTypeOK'
  <2>1. updates' \in 0..MaxUpdates /\ updates + 1 \in 0..MaxUpdates
    BY <1>4, StateFileConstants DEF Change
  <2>2. snapshot' \in [Processes -> Records]
    BY <1>4, <2>1 DEF Change, Records
  <2> QED BY <1>4, <2>1, <2>2 DEF Change
<1>5. ASSUME NEW p \in Processes, Locking(p)
      PROVE  FileTypeOK'
  <2>1. lock' \in [holder : Processes \cup {NoOne}, old : BOOLEAN]
    <3>1. [holder |-> p, old |-> FALSE] \in [holder : Processes \cup {NoOne}, old : BOOLEAN]
      OBVIOUS
    <3>2. [holder |-> NoOne, old |-> FALSE] \in [holder : Processes \cup {NoOne}, old : BOOLEAN]
      OBVIOUS
    <3>3. lock' \in {lock, [holder |-> p, old |-> FALSE], [holder |-> NoOne, old |-> FALSE]}
      BY <1>5 DEF Locking, Acquire, GiveUp, SeeOldLock, RemoveOldLock
    <3> QED BY <3>1, <3>2, <3>3
  <2>2. /\ pc' \in [Processes -> Critical \cup {"down", "up", "locking", "removing"}]
        /\ broken' \in BOOLEAN
    BY <1>5 DEF Locking, Acquire, GiveUp, SeeOldLock, RemoveOldLock
  <2>3. UNCHANGED <<file, temp, local, crashes>>
    BY <1>5 DEF Locking, Acquire, GiveUp, SeeOldLock, RemoveOldLock
  <2> QED BY <2>1, <2>2, <2>3
<1>6. ASSUME NEW p \in Processes, Read(p)
      PROVE  FileTypeOK'
  <2>1. CASE file = Partial
    BY <1>6, <2>1 DEF Read
  <2>2. CASE file # Partial
    <3>1. Merge(snapshot[p], file) \in Records
      BY <2>2, MergeKeeps
    <3> QED BY <1>6, <2>2, <3>1 DEF Read
  <2> QED BY <2>1, <2>2
<1>7. ASSUME NEW p \in Processes, Truncate(p) \/ Write(p) \/ Release(p)
      PROVE  FileTypeOK'
  <2>1. CASE Truncate(p)
    <3>1. temp' \subseteq Records \cup {Partial} /\ Cardinality(temp') <= 1
      BY <1>1, <2>1 DEF Truncate
    <3> QED BY <2>1, <3>1 DEF Truncate
  <2>2. CASE Write(p)
    <3>1. temp' \subseteq Records \cup {Partial} /\ Cardinality(temp') <= 1
      BY <1>1, <2>2 DEF Write
    <3> QED BY <2>2, <3>1 DEF Write
  <2>3. CASE Release(p)
    <3>1. lock' \in [holder : Processes \cup {NoOne}, old : BOOLEAN]
      BY <2>3 DEF Release
    <3> QED BY <2>3, <3>1 DEF Release
  <2> QED BY <1>7, <2>1, <2>2, <2>3
<1>8. ASSUME NEW p \in Processes, Rename(p)
      PROVE  FileTypeOK'
  <2>1. temp' = {} /\ Cardinality(temp') <= 1
    BY <1>8, FS_EmptySet DEF Rename
  <2>2. /\ file' \in Records \cup {Partial}
        /\ snapshot' \in [Processes -> Records]
        /\ own' \in [Processes -> SUBSET Keys]
    BY <1>8 DEF Rename
  <2> QED BY <1>8, <2>1, <2>2 DEF Rename
<1>9. CASE UNCHANGED fileVars
  BY <1>9 DEF fileVars
<1> QED BY <1>2, <1>3, <1>4, <1>5, <1>6, <1>7, <1>8, <1>9 DEF FileNext, Action

\* Every step keeps the invariant.
LEMMA FileStep == FileInv /\ [FileNext]_fileVars => FileInv'
<1> SUFFICES ASSUME FileInv, [FileNext]_fileVars, ~broken'
             PROVE  LockHeld' /\ TempWritten' /\ NothingMissing' /\ file' # Partial
  BY TypeStep DEF FileInv
<1>1. ~broken
  BY DEF FileNext, fileVars, LockAges, LoadState, StartWrite, Exit, Crash, Locking, Acquire, GiveUp,
         SeeOldLock, RemoveOldLock, Action, Read, Truncate, Write, Rename, Release, Change
<1>2. FileTypeOK /\ LockHeld /\ TempWritten /\ NothingMissing /\ file # Partial
  BY <1>1 DEF FileInv
<1> USE <1>1, <1>2
<1> USE DEF LockHeld, TempWritten, NothingMissing, Inside, Critical, Goto, local
<1>3. CASE LockAges
  BY <1>3 DEF LockAges, FileTypeOK
<1>4. ASSUME NEW p \in Processes, LoadState(p) \/ StartWrite(p) \/ Exit(p) \/ Crash(p)
      PROVE  LockHeld' /\ TempWritten' /\ NothingMissing' /\ file' # Partial
  BY <1>4 DEF LoadState, StartWrite, Exit, Crash, FileTypeOK
<1>5. ASSUME NEW p \in Processes, NEW k \in Keys, Change(p, k)
      PROVE  LockHeld' /\ TempWritten' /\ NothingMissing' /\ file' # Partial
  BY <1>5 DEF Change, FileTypeOK
<1>6. ASSUME NEW p \in Processes, Acquire(p)
      PROVE  LockHeld' /\ TempWritten' /\ NothingMissing' /\ file' # Partial
  <2>1. \A q \in Processes : ~Inside(q)
    BY <1>6, StateFileConstants DEF Acquire
  <2> QED BY <1>6, <2>1 DEF Acquire, FileTypeOK
<1>7. ASSUME NEW p \in Processes, GiveUp(p) \/ SeeOldLock(p)
      PROVE  LockHeld' /\ TempWritten' /\ NothingMissing' /\ file' # Partial
  BY <1>7 DEF GiveUp, SeeOldLock, FileTypeOK
<1>8. ASSUME NEW p \in Processes, RemoveOldLock(p)
      PROVE  LockHeld' /\ TempWritten' /\ NothingMissing' /\ file' # Partial
  <2>1. lock.holder = NoOne \/ lock.old
    BY <1>8 DEF RemoveOldLock
  <2>2. \A q \in Processes : ~Inside(q)
    BY <2>1, StateFileConstants
  <2> QED BY <1>8, <2>2 DEF RemoveOldLock, FileTypeOK
<1>9. ASSUME NEW p \in Processes, Action(p)
      PROVE  LockHeld' /\ TempWritten' /\ NothingMissing' /\ file' # Partial
  <2>1. Inside(p) /\ \A q \in Processes : Inside(q) => q = p
    BY <1>9 DEF Action, Read, Truncate, Write, Rename, Release
  <2>2. CASE Read(p)
    <3>1. \A k \in Keys : file[k] # 0 => Merge(snapshot[p], file)[k] # 0
      BY MergeKeeps DEF FileTypeOK
    <3> QED BY <2>1, <2>2, <3>1 DEF Read, FileTypeOK
  <2>3. CASE Truncate(p)
    BY <2>1, <2>3 DEF Truncate, FileTypeOK
  <2>4. CASE Write(p)
    BY <2>1, <2>4 DEF Write, FileTypeOK
  <2>5. CASE Rename(p)
    <3>1. temp = {merged[p]} /\ merged[p] # Partial
      BY <2>5, CompleteFile DEF Rename, FileTypeOK
    <3>2. file' = merged[p]
      BY <2>5, <3>1 DEF Rename
    <3> QED BY <2>1, <2>5, <3>1, <3>2 DEF Rename, FileTypeOK
  <2>6. CASE Release(p)
    BY <2>1, <2>6 DEF Release, FileTypeOK
  <2> QED BY <1>9, <2>2, <2>3, <2>4, <2>5, <2>6 DEF Action
<1>10. CASE UNCHANGED fileVars
  BY <1>10 DEF fileVars
<1> QED BY <1>3, <1>4, <1>5, <1>6, <1>7, <1>8, <1>9, <1>10 DEF FileNext, Locking

\* The invariant holds in every reachable state.
LEMMA FileInvHolds == FileSpec => []FileInv
BY FileInitial, FileStep, PTL DEF FileSpec

-----------------------------------------------------------------------------
(* The file the records are kept in.  Theorems                             *)

\* Every variable keeps its type.
THEOREM FileTypeCorrect == FileSpec => []FileTypeOK
<1>1. FileInv => FileTypeOK
  BY DEF FileInv
<1> QED BY <1>1, FileInvHolds, PTL

\* withStateFileLock excludes any number of processes, crashes included, as
\* long as no live process has its lock taken away.
THEOREM LockExcludes == FileSpec => []MutualExclusion
<1>1. FileInv => MutualExclusion
  BY InsideAlone DEF FileInv, MutualExclusion
<1> QED BY <1>1, FileInvHolds, PTL

\* Whoever reads the file, at any time and without the lock, reads a complete
\* one, as long as no live process has its lock taken away (~broken).
THEOREM ReadersSeeCompleteFiles == FileSpec => []FileComplete
<1>1. FileInv => FileComplete
  BY DEF FileInv, FileComplete
<1> QED BY <1>1, FileInvHolds, PTL

\* No write of any process takes a record out of the file, as long as no live
\* process has its lock taken away (~broken).
THEOREM NoRecordIsLost == FileSpec => RecordsKept
<1>1. FileInv /\ FileInv' /\ [FileNext]_fileVars =>
        [~broken /\ file # Partial =>
           file' # Partial /\ \A k \in Keys : file[k] # 0 => file'[k] # 0]_fileVars
  <2> SUFFICES ASSUME FileInv, FileInv', [FileNext]_fileVars, ~broken
               PROVE  file' # Partial /\ \A k \in Keys : file[k] # 0 => file'[k] # 0
    OBVIOUS
  <2>1. file # Partial /\ NothingMissing /\ TempWritten
    BY DEF FileInv
  <2>2. CASE \E p \in Processes : Rename(p)
    <3>1. PICK p \in Processes : Rename(p)
      BY <2>2
    <3>2. file' = merged[p] /\ merged[p] # Partial
      BY <2>1, <3>1, CompleteFile DEF Rename, TempWritten, FileInv, FileTypeOK
    <3> QED BY <2>1, <3>1, <3>2 DEF Rename, NothingMissing
  <2>3. CASE file' = file
    BY <2>1, <2>3
  <2> QED BY <2>2, <2>3
          DEF FileNext, fileVars, LockAges, LoadState, StartWrite, Exit, Crash, Locking, Acquire, GiveUp,
              SeeOldLock, RemoveOldLock, Action, Read, Truncate, Write, Release, Change
<1> QED BY <1>1, FileInvHolds, PTL DEF FileSpec, RecordsKept
=============================================================================
