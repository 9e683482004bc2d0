---------------------------- MODULE RequestsProofs ----------------------------
(***************************************************************************)
(* What a client is served, for every catalogue, set of preferences,       *)
(* mapping and request: the model it names and no other, the window its    *)
(* user chose, and what the list says, but for the identifiers that are    *)
(* listed and mean nothing.  And what the service is sent, for every       *)
(* conversation in each protocol: what was said, in its order, but for the *)
(* images in results, every result directly behind the call it answers.    *)
(***************************************************************************)
EXTENDS Requests, SequenceTheorems, WellFoundedInduction, TLAPS

----------------------------------------------------------------------------
(* Least and greatest numbers.                                             *)

Below == {p \in Nat \X Nat : p[1] < p[2]}

\* A set of natural numbers has a least element.
LEMMA Least ==
  ASSUME NEW T \in SUBSET Nat, T # {}
  PROVE  \E n \in T : \A m \in T : n <= m
<1>1. IsWellFoundedOn(Below, Nat)
  <2>1. OpToRel(<, Nat) = Below
    BY DEF OpToRel, Below
  <2> QED BY <2>1, NatLessThanWellFounded
<1>2. PICK n \in T : \A m \in T : <<m, n>> \notin Below
  BY <1>1, WFMin
<1>3. ASSUME NEW m \in T PROVE n <= m
  <2>1. m \in Nat /\ n \in Nat /\ <<m, n>> \in Nat \X Nat
    OBVIOUS
  <2>2. ~ (m < n)
    BY <1>2, <2>1 DEF Below
  <2> QED BY <2>1, <2>2
<1> QED BY <1>3

\* What Min returns.
LEMMA MinIsLeast ==
  ASSUME NEW T \in SUBSET Nat, T # {}
  PROVE  Min(T) \in T /\ \A m \in T : Min(T) <= m
BY Least DEF Min

\* What Max returns.
LEMMA MaxIsGreatest ==
  ASSUME NEW n \in Nat, NEW T \in SUBSET (1 .. n), T # {}
  PROVE  Max(T) \in T /\ \A m \in T : m <= Max(T)
<1> DEFINE U == {n - i : i \in T}
<1>1. U \in SUBSET Nat /\ U # {}
  <2>1. \A i \in T : n - i \in Nat
    OBVIOUS
  <2> QED BY <2>1
<1>2. PICK u \in U : \A v \in U : u <= v
  BY <1>1, Least
<1>3. PICK t \in T : u = n - t
  OBVIOUS
<1>4. \A m \in T : t >= m
  BY <1>2, <1>3
<1> QED BY <1>4 DEF Max

----------------------------------------------------------------------------
(* The catalogue.                                                          *)

\* What a key of the catalogue stands for: an entry of the file or a built-in
\* model, and under lockdown an entry of the file that is enabled.
LEMMA MergedEntry ==
  ASSUME IsConfig(config), NEW k \in DOMAIN LoadCatalog
  PROVE  /\ IsEntry(Merged(k)) /\ Merged(k).key = k
         /\ k # None
         /\ config.lockdown =>
              /\ Merged(k).enable
              /\ \E m \in ToSet(config.file) :
                   m.enable /\ m.key = k /\ m.name = Merged(k).name
<1> DEFINE I == {i \in 1 .. Len(config.file) :
                   Accepted(config.file[i]) /\ config.file[i].key = k}
           last == SelectLastInSubSeq(config.file, 1, Len(config.file),
                                      LAMBDA m : Accepted(m) /\ m.key = k)
<1>1. /\ Len(config.file) \in Nat /\ DOMAIN config.file = 1 .. Len(config.file)
      /\ \A i \in 1 .. Len(config.file) : /\ config.file[i] \in ToSet(config.file)
                                          /\ IsEntry(config.file[i])
  BY DEF IsConfig, ToSet
<1>2. last = IF I # {} THEN Max(I) ELSE 0
  BY DEF SelectLastInSubSeq
<1>3. k \in {m.key : m \in Base \cup {e \in ToSet(config.file) : Accepted(e)}}
  BY DEF LoadCatalog
<1>4. CASE I # {}
  <2>1. last \in I
    BY <1>1, <1>2, <1>4, MaxIsGreatest
  <2> DEFINE e == config.file[last]
  <2>2. /\ e \in ToSet(config.file) /\ IsEntry(e) /\ Accepted(e) /\ e.key = k
        /\ last > 0
    BY <1>1, <2>1
  <2>3. Merged(k) = [e EXCEPT !.enable = TRUE]
    BY <2>2 DEF Merged
  <2>4. Merged(k) = [key |-> e.key, name |-> e.name, enable |-> TRUE, tiers |-> e.tiers,
                     maxIn |-> e.maxIn]
    BY <2>2, <2>3 DEF IsEntry
  <2>5. /\ Merged(k).key = k /\ Merged(k).name = e.name /\ Merged(k).enable = TRUE
        /\ Merged(k).tiers = e.tiers /\ Merged(k).maxIn = e.maxIn
    BY <2>2, <2>4
  <2>6. IsEntry(Merged(k))
    BY <2>2, <2>4, <2>5 DEF IsEntry
  <2> QED BY <2>2, <2>5, <2>6 DEF Accepted
<1>5. CASE I = {}
  <2>1. \A m \in ToSet(config.file) : Accepted(m) => m.key # k
    BY <1>1, <1>5 DEF ToSet
  <2>2. \E m \in Base : m.key = k
    BY <1>3, <2>1
  <2>3. Merged(k) = CHOOSE m \in Base : m.key = k
    BY <1>2, <1>5 DEF Merged
  <2>4. Merged(k) \in Base /\ Merged(k).key = k
    BY <2>2, <2>3
  <2> QED BY <2>4, BuiltinAssumption DEF Base
<1> QED BY <1>4, <1>5

\* A model of the catalogue has its key, the window selected for it, and what its
\* entry says.
LEMMA ModelFacts ==
  ASSUME IsConfig(config), catalog = LoadCatalog, NEW m \in Models
  PROVE  /\ m.key \in DOMAIN catalog /\ m = catalog[m.key]
         /\ m.key # None /\ IsName(m.key)
         /\ m.name # None => IsName(m.name)
         /\ m.maxIn \in Int /\ \A t \in m.tiers : IsTier(t)
         /\ m.effective = Selected(m)
         /\ m = [key |-> m.key, name |-> m.name, enable |-> m.enable, tiers |-> m.tiers,
                 maxIn |-> m.maxIn, effective |-> m.effective]
         /\ config.lockdown =>
              /\ m.enable
              /\ \E e \in ToSet(config.file) :
                   e.enable /\ e.key = m.key /\ e.name = m.name
<1>1. PICK k \in DOMAIN LoadCatalog : m = LoadCatalog[k]
  BY DEF Models
<1> DEFINE e == Merged(k)
<1>2. /\ IsEntry(e) /\ e.key = k /\ k # None
      /\ config.lockdown =>
           /\ e.enable
           /\ \E x \in ToSet(config.file) : x.enable /\ x.key = k /\ x.name = e.name
  BY MergedEntry
<1>3. m = [key |-> k, name |-> e.name, enable |-> e.enable, tiers |-> e.tiers,
           maxIn |-> e.maxIn, effective |-> Selected(e)]
  BY <1>1 DEF LoadCatalog
<1> HIDE DEF e
<1>4. /\ m.key = k /\ m.name = e.name /\ m.enable = e.enable /\ m.tiers = e.tiers
      /\ m.maxIn = e.maxIn /\ m.effective = Selected(e)
  BY <1>3
<1>5. Selected(e) = Selected(m)
  BY <1>2, <1>4 DEF Selected, Prefers, Supports, DefaultWindow, Defaults, Windows
<1> QED BY <1>1, <1>2, <1>3, <1>4, <1>5 DEF IsEntry

\* The window of a model is the one its user chose, if the model supports it, and
\* otherwise the least of its default windows, if it has one.
LEMMA WindowOfModel ==
  ASSUME IsConfig(config), catalog = LoadCatalog, PreferencesValid, NEW m \in Models
  PROVE  /\ Prefers(m) => ContextWindow(m) = config.prefs[m.key]
         /\ ~Prefers(m) /\ Defaults(m) # {} =>
              /\ ContextWindow(m) \in Defaults(m)
              /\ \A d \in Defaults(m) : ContextWindow(m) <= d
<1>1. m.effective = Selected(m) /\ \A t \in m.tiers : IsTier(t)
  BY ModelFacts
<1>2. CASE Prefers(m)
  <2>1. config.prefs[m.key] > 0
    BY <1>2 DEF Prefers, Supports
  <2> QED BY <1>1, <1>2, <2>1 DEF Selected, ContextWindow
<1>3. CASE ~Prefers(m) /\ Defaults(m) # {}
  <2>1. Defaults(m) \in SUBSET Nat
    BY <1>1 DEF Defaults, Positive, IsTier
  <2>2. Min(Defaults(m)) \in Defaults(m) /\ \A d \in Defaults(m) : Min(Defaults(m)) <= d
    BY <1>3, <2>1, MinIsLeast
  <2>3. ContextWindow(m) = Min(Defaults(m))
    BY <1>1, <1>3 DEF Selected, ContextWindow, DefaultWindow
  <2> QED BY <1>3, <2>2, <2>3
<1> QED BY <1>2, <1>3

----------------------------------------------------------------------------
(* Names.                                                                  *)

\* What a name finds is in the catalogue.
LEMMA FoundModels ==
  ASSUME IsConfig(config), catalog = LoadCatalog, NEW id, NEW m \in Found(id)
  PROVE  m \in Models /\ id \in {m.key, m.name}
<1>1. CASE id \in DOMAIN catalog
  <2>1. m = catalog[id] /\ m \in Models
    BY <1>1 DEF Found, Models
  <2>2. m.key = id
    BY <1>1, <2>1, ModelFacts DEF LoadCatalog
  <2> QED BY <2>1, <2>2
<1>2. CASE id \notin DOMAIN catalog
  BY <1>2 DEF Found
<1> QED BY <1>1, <1>2

\* Under lockdown a client gets a model of the catalogue it names, otherwise
\* one of the catalogue unchanged or one the catalogue does not have.
LEMMA Resolved ==
  ASSUME IsConfig(config), catalog = LoadCatalog, NEW id, IsName(id.name),
         NEW m \in Resolve(id)
  PROVE  /\ config.lockdown =>
              \E x \in Models : m.key = x.key /\ Plain(id.name.base) \in {x.key, x.name}
         /\ ~id.name.oneM /\ m.key \in DOMAIN catalog =>
              m \in Models /\ m = catalog[m.key]
<1> DEFINE name == Plain(id.name.base)
<1>1. CASE config.lockdown
  <2>1. PICK x \in Found(name) :
          m = IF id.name.oneM THEN [x EXCEPT !.effective = MaxWindow(x)] ELSE x
    BY <1>1 DEF Resolve, ResolveExact
  <2>2. x \in Models /\ name \in {x.key, x.name}
    BY FoundModels
  <2>3. x = catalog[x.key] /\ m.key = x.key
    BY <2>1, <2>2, ModelFacts
  <2> QED BY <1>1, <2>1, <2>2, <2>3
<1>2. CASE ~config.lockdown
  <2>1. SUFFICES ASSUME ~id.name.oneM, m.key \in DOMAIN catalog
                 PROVE  m \in Models /\ m = catalog[m.key]
    BY <1>2
  <2>2. PICK key : m = ByKeyOrSynthetic(key)
    BY <1>2, <2>1 DEF Resolve, ResolveMapped
  <2>3. CASE Found(key) # {}
    <3>1. m \in Found(key)
      BY <2>2, <2>3 DEF ByKeyOrSynthetic
    <3> QED BY <3>1, FoundModels, ModelFacts
  <2>4. CASE Found(key) = {}
    <3>1. m.key = key
      BY <2>2, <2>4 DEF ByKeyOrSynthetic, Synthetic
    <3> QED BY <2>1, <2>4, <3>1 DEF Found
  <2> QED BY <2>3, <2>4
<1> QED BY <1>1, <1>2

\* The keys of the models tell them apart.
LEMMA KeysDiffer ==
  ASSUME IsConfig(config), catalog = LoadCatalog
  PROVE  \A x, y \in Models : x.key = y.key => x = y
BY ModelFacts

\* What the list calls a model is found again, and nothing else is.
LEMMA NamedIsFound ==
  ASSUME IsConfig(config), catalog = LoadCatalog, NEW m \in Models
  PROVE  Found(m.key) = {m} /\ (Names(m) => Found(m.name) = {m})
<1>1. Found(m.key) = {m}
  BY ModelFacts DEF Found
<1>2. ASSUME Names(m) PROVE Found(m.name) = {m}
  <2>1. CASE m.name \in DOMAIN catalog
    <3> DEFINE x == catalog[m.name]
    <3>1. x \in Models /\ x.key = m.name
      BY <2>1 DEF Models, LoadCatalog
    <3>2. x = m
      BY <1>2, <3>1 DEF Names
    <3> QED BY <2>1, <3>2 DEF Found
  <2>2. CASE m.name \notin DOMAIN catalog
    <3>1. Found(m.name) = {x \in Models : Names(x) /\ x.name = m.name}
      BY <2>2 DEF Found
    <3>2. \A x \in Models : Names(x) /\ x.name = m.name => x = m
      BY <1>2 DEF Names
    <3> QED BY <1>2, <3>1, <3>2
  <2> QED BY <2>1, <2>2
<1> QED BY <1>1, <1>2

\* An identifier of the list that is neither shared nor excepted resolves to the model
\* it is of.
LEMMA ListedResolves ==
  ASSUME IsConfig(config), catalog = LoadCatalog, NEW m \in Models,
         IF config.lockdown THEN ~Shared(m) /\ ~Listed(m).id.name.oneM
         ELSE /\ Listed(m).id.name \notin DOMAIN config.mapping
              /\ Plain("*") \notin DOMAIN config.mapping
              /\ ~(Listed(m).id.name = m.key /\ m.key.oneM)
  PROVE  Resolve(Listed(m).id) = {m}
<1> DEFINE name == Listed(m).id.name
<1>1. /\ m.key # None /\ IsName(m.key) /\ (m.name # None => IsName(m.name))
      /\ config.lockdown => m.enable
  BY ModelFacts
<1>2. IsName(name) /\ ~name.oneM /\ Found(name) = {m}
  <2>1. CASE config.lockdown
    <3>1. name = IF m.name # None THEN m.name ELSE m.key
      BY <2>1 DEF Listed
    <3>2. m.name # None => Names(m)
      BY <2>1 DEF Shared
    <3> QED BY <1>1, <2>1, <3>1, <3>2, NamedIsFound
  <2>2. CASE ~config.lockdown
    <3>1. name = PublicId(m)
      BY <2>2 DEF Listed
    <3> QED BY <1>1, <2>2, <3>1, NamedIsFound DEF PublicId, Names
  <2> QED BY <2>1, <2>2
<1>3. Plain(name.base) = name
  BY <1>2 DEF Plain, IsName
<1>4. CASE config.lockdown
  BY <1>1, <1>2, <1>3, <1>4 DEF Resolve, ResolveExact
<1>5. CASE ~config.lockdown
  <2>1. ByKeyOrSynthetic(name) = m
    BY <1>2 DEF ByKeyOrSynthetic
  <2>2. Resolve(Listed(m).id) = {ByKeyOrSynthetic(name)}
    BY <1>2, <1>3, <1>5 DEF Resolve, ResolveMapped
  <2> QED BY <2>1, <2>2
<1> QED BY <1>4, <1>5

\* Under lockdown a name that several models share, or that is another's key, resolves
\* to none of those that merely share it.
LEMMA SharedResolves ==
  ASSUME IsConfig(config), catalog = LoadCatalog, config.lockdown, NEW m \in Models,
         Shared(m), ~Listed(m).id.name.oneM, NEW x \in Resolve(Listed(m).id)
  PROVE  x.key = Listed(m).id.name
<1> DEFINE name == Listed(m).id.name
<1>1. name = m.name /\ IsName(name) /\ ~name.oneM
  BY ModelFacts DEF Listed, Shared
<1>2. Plain(name.base) = name
  BY <1>1 DEF Plain, IsName
<1>3. x \in Found(name)
  BY <1>1, <1>2 DEF Resolve, ResolveExact
<1>4. CASE name \in DOMAIN catalog
  <2>1. x = catalog[name]
    BY <1>3, <1>4 DEF Found
  <2> QED BY <1>4, <2>1 DEF LoadCatalog
<1>5. CASE name \notin DOMAIN catalog
  <2>1. x \in Models /\ Names(x) /\ x.name = name
    BY <1>3, <1>5 DEF Found
  <2>2. x # m
    BY <2>1 DEF Shared
  <2> QED BY <1>1, <2>1, <2>2 DEF Names
<1> QED BY <1>4, <1>5

----------------------------------------------------------------------------
(* The gateway.                                                            *)

\* Once the gateway serves, its catalogue is that of its configuration.
Loaded ==
  /\ IsConfig(config)
  /\ request.model # None => IsName(request.model.name)
  /\ phase \in {"start", "serving", "failed"}
  /\ phase # "serving" => reply = NoReply
  /\ phase = "serving" => PreferencesValid /\ catalog = LoadCatalog

\* The last answer is none, a refusal, the list, or that to a request for a model
\* the client's identifier resolves to.
Answered ==
  \/ reply.status \in {0, 401, 400, 404}
  \/ reply.protocol = "models" /\ reply.body = {Listed(m) : m \in Models}
  \/ /\ reply.protocol # "models" /\ request.model # None
     /\ \E m \in Resolve(request.model) :
          reply.body.model = m.key /\ reply.body.window = ContextWindow(m)

\* What identifiers mean is a matter of the configuration and the catalogue.
LEMMA SameMeaning ==
  ASSUME UNCHANGED <<config, catalog>>
  PROVE  /\ \A id : Resolve(id)' = Resolve(id)
         /\ \A m : Listed(m)' = Listed(m) /\ ContextWindow(m)' = ContextWindow(m)
         /\ Models' = Models
<1>1. Models' = Models /\ \A m : Names(m)' = Names(m)
  BY DEF Models, Names
<1>2. \A id : Found(id)' = Found(id)
  BY <1>1 DEF Found
<1>3. \A key : ByKeyOrSynthetic(key)' = ByKeyOrSynthetic(key)
  <2> TAKE key
  <2>1. Found(key)' = Found(key)
    BY <1>2
  <2> QED BY <2>1 DEF ByKeyOrSynthetic, Synthetic
<1>4. \A id : Resolve(id)' = Resolve(id)
  BY <1>2, <1>3 DEF Resolve, ResolveExact, ResolveMapped
<1>5. \A m : Listed(m)' = Listed(m)
  BY <1>1 DEF Listed, PublicId
<1> QED BY <1>1, <1>4, <1>5

\* Every step leaves the last answer as it was or gives another.
LEMMA Steps ==
  ASSUME Loaded, [Next]_vars
  PROVE  /\ UNCHANGED <<config, request>>
         /\ \/ reply' = NoReply
            \/ UNCHANGED <<catalog, reply, phase>>
            \/ /\ phase = "serving" /\ UNCHANGED <<catalog, phase>>
               /\ Answered'
<1>1. CASE Start \/ StartFails
  BY <1>1 DEF Start, StartFails, Loaded
<1>2. ASSUME NEW protocol \in {"messages", "chat", "responses"}, NEW readable,
             NEW converted, Handle(protocol, readable, converted)
      PROVE  phase = "serving" /\ UNCHANGED <<config, request, catalog, phase>> /\ Answered'
  <2>1. phase = "serving" /\ UNCHANGED <<config, request, catalog, phase>>
    BY <1>2 DEF Handle
  <2>2. CASE Unauthorized(protocol) \/ Refused(protocol) \/ Unreadable(protocol)
    BY <2>1, <2>2 DEF Unauthorized, Refused, Unreadable, Reply, Answered
  <2>3. CASE Accept(protocol, converted)
    <3>1. PICK m \in Resolve(request.model) : request.model # None /\ \E session :
            reply' = Reply(protocol, 200,
                       RemoteChatAskBody(converted, m.key, ContextWindow(m), session))
      BY <2>3 DEF Accept, SelectInSeq
    <3>2. /\ reply'.protocol = protocol /\ reply'.body.model = m.key
          /\ reply'.body.window = ContextWindow(m)
      BY <3>1 DEF Reply, RemoteChatAskBody
    <3>3. m \in Resolve(request.model)' /\ ContextWindow(m)' = ContextWindow(m)
      BY SameMeaning, <2>1
    <3> QED BY <2>1, <3>1, <3>2, <3>3 DEF Answered
  <2> QED BY <1>2, <2>1, <2>2, <2>3 DEF Handle
<1>3. CASE HandleMessages \/ HandleChatCompletions \/ HandleResponses
  BY <1>2, <1>3 DEF HandleMessages, HandleChatCompletions, HandleResponses
<1>4. CASE HandleModels
  <2>1. phase = "serving" /\ UNCHANGED <<config, catalog, phase, request>>
    BY <1>4 DEF HandleModels
  <2>2. CASE Unauthorized("models")
    BY <2>1, <2>2 DEF Unauthorized, Reply, Answered
  <2>3. CASE reply' = Reply("models", 200, {Listed(m) : m \in Models})
    <3>1. {Listed(m) : m \in Models}' = {Listed(m) : m \in Models}
      BY SameMeaning, <2>1
    <3> QED BY <2>1, <2>3, <3>1 DEF Reply, Answered
  <2> QED BY <1>4, <2>1, <2>2, <2>3 DEF HandleModels
<1>5. CASE UNCHANGED vars
  BY <1>5 DEF vars
<1> QED BY <1>1, <1>3, <1>4, <1>5 DEF Next

\* The catalogue is a matter of the configuration alone.
LEMMA SameCatalog ==
  ASSUME UNCHANGED config
  PROVE  PreferencesValid' = PreferencesValid /\ LoadCatalog' = LoadCatalog
<1>1. \A m : Selected(m)' = Selected(m)
  BY DEF Selected, Prefers
<1>2. \A k : Merged(k)' = Merged(k)
  BY DEF Merged, SelectLastInSubSeq, Accepted, Base
<1>3. {m.key : m \in Base \cup {e \in ToSet(config.file) : Accepted(e)}}'
       = {m.key : m \in Base \cup {e \in ToSet(config.file) : Accepted(e)}}
  BY DEF Base, Accepted
<1> QED BY <1>1, <1>2, <1>3 DEF LoadCatalog, PreferencesValid

\* The catalogue is the one of the configuration.
LEMMA AlwaysLoaded == Spec => []Loaded
<1>1. Init => Loaded
  BY ScenariosAssumption DEF Init, Loaded, IsRequest
<1>2. Loaded /\ [Next]_vars => Loaded'
  <2> SUFFICES ASSUME Loaded, [Next]_vars PROVE Loaded'
    OBVIOUS
  <2>1. IsConfig(config)' /\ (request.model # None => IsName(request.model.name))'
    BY Steps DEF Loaded
  <2>2. CASE Start
    <3>1. PreferencesValid' /\ catalog' = LoadCatalog'
      BY <2>2, SameCatalog DEF Start
    <3> QED BY <2>1, <2>2, <3>1 DEF Start, Loaded
  <2>3. CASE StartFails
    BY <2>1, <2>3 DEF StartFails, Loaded
  <2>4. CASE HandleMessages \/ HandleChatCompletions \/ HandleResponses \/ HandleModels
    <3>1. phase = "serving" /\ UNCHANGED <<config, catalog, phase>>
      BY <2>4 DEF HandleMessages, HandleChatCompletions, HandleResponses, HandleModels, Handle
    <3>2. PreferencesValid' = PreferencesValid /\ LoadCatalog' = LoadCatalog
      BY <3>1, SameCatalog
    <3> QED BY <2>1, <3>1, <3>2 DEF Loaded
  <2>5. CASE UNCHANGED vars
    <3>1. PreferencesValid' = PreferencesValid /\ LoadCatalog' = LoadCatalog
      BY <2>5, SameCatalog DEF vars
    <3> QED BY <2>1, <2>5, <3>1 DEF Loaded, vars
  <2> QED BY <2>2, <2>3, <2>4, <2>5 DEF Next
<1> QED BY <1>1, <1>2, PTL DEF Spec

\* The last answer is one the resolver gives.
LEMMA AlwaysAnswered == Spec => [](Loaded /\ Answered)
<1>1. Init => Answered
  BY DEF Init, Answered, NoReply
<1>2. Loaded /\ Answered /\ [Next]_vars => Answered'
  <2> SUFFICES ASSUME Loaded, Answered, [Next]_vars PROVE Answered'
    OBVIOUS
  <2>1. CASE reply' = NoReply
    BY <2>1 DEF Answered, NoReply
  <2>2. CASE UNCHANGED <<config, request, catalog, reply>>
    BY <2>2, SameMeaning DEF Answered
  <2> QED BY Steps, <2>1, <2>2
<1> QED BY <1>1, <1>2, AlwaysLoaded, PTL DEF Spec

----------------------------------------------------------------------------
(* What the gateway promises.                                              *)

\* Under lockdown no model is served that the account does not have or the client
\* did not name, in any protocol.
THEOREM NamedOrRefused == Spec => []NoFallback
<1>1. Loaded /\ Answered => NoFallback
  <2> SUFFICES ASSUME Loaded, Answered, config.lockdown, Sent
               PROVE  \E m \in ToSet(config.file) :
                        /\ m.enable /\ m.key = reply.body.model
                        /\ Plain(request.model.name.base) \in {m.key, m.name}
    BY DEF NoFallback
  <2>1. phase = "serving" /\ IsConfig(config) /\ catalog = LoadCatalog
    BY DEF Sent, NoReply, Loaded
  <2>2. PICK m \in Resolve(request.model) :
          request.model # None /\ reply.body.model = m.key
    BY DEF Answered, Sent
  <2>3. PICK x \in Models :
          m.key = x.key /\ Plain(request.model.name.base) \in {x.key, x.name}
    BY <2>1, <2>2, Resolved DEF Loaded
  <2> QED BY <2>1, <2>2, <2>3, ModelFacts
<1> QED BY <1>1, AlwaysAnswered, PTL

\* No request is sent with a window its user did not choose, other than the least
\* default of its model.
THEOREM WindowIsChosen == Spec => []WindowChosen
<1>1. Loaded /\ Answered => WindowChosen
  <2> SUFFICES ASSUME Loaded, Answered, Sent, ~request.model.name.oneM,
                      reply.body.model \in DOMAIN catalog
               PROVE  WindowChosen
    BY DEF WindowChosen
  <2>1. phase = "serving" /\ IsConfig(config) /\ catalog = LoadCatalog /\ PreferencesValid
    BY DEF Sent, NoReply, Loaded
  <2>2. PICK m \in Resolve(request.model) :
          /\ request.model # None /\ reply.body.model = m.key
          /\ reply.body.window = ContextWindow(m)
    BY DEF Answered, Sent
  <2>3. m \in Models /\ m = catalog[reply.body.model]
    BY <2>1, <2>2, Resolved DEF Loaded
  <2> DEFINE defaults == {t.n : t \in {u \in m.tiers : u.default /\ u.n > 0}}
  <2>4. defaults = Defaults(m)
    BY DEF Defaults, Positive
  <2>5. IF \E k \in DOMAIN config.prefs : k = m.key /\ Supports(m, config.prefs[k])
          THEN ContextWindow(m) = config.prefs[m.key]
          ELSE defaults # {} =>
                 /\ ContextWindow(m) \in defaults
                 /\ \A d \in defaults : ContextWindow(m) <= d
    BY <2>1, <2>3, <2>4, WindowOfModel DEF Prefers
  <2> QED BY <2>2, <2>3, <2>5 DEF WindowChosen
<1> QED BY <1>1, AlwaysAnswered, PTL

\* For every catalogue: an identifier of the list gives a client exactly the model
\* listed, with the window listed, or, under lockdown, it is a name several models have
\* or another has as its key, and gives none that merely shares it.  Excepted are names
\* that end in "[1m]" under lockdown, and otherwise keys that do and what the user maps
\* to another model.
THEOREM ListIsHonest == Spec => []ListedIsServed
<1>1. Loaded /\ Answered => ListedIsServed
  <2> SUFFICES ASSUME Loaded, Answered, reply.protocol = "models", reply.status = 200
               PROVE  ListedIsServed
    BY DEF ListedIsServed
  <2>1. /\ phase = "serving" /\ IsConfig(config) /\ catalog = LoadCatalog
        /\ reply.body = {Listed(m) : m \in Models}
    BY DEF NoReply, Loaded, Answered
  <2>2. ASSUME NEW l \in reply.body
        PROVE  LET found == {[key |-> x.key, window |-> ContextWindow(x)] : x \in Resolve(l.id)}
                   mapped == \/ l.id.name \in DOMAIN config.mapping
                             \/ Plain("*") \in DOMAIN config.mapping
               IN \/ IF config.lockdown THEN l.id.name.oneM
                     ELSE mapped \/ (l.id.name = l.key /\ l.key.oneM)
                  \/ /\ config.lockdown /\ Shared(catalog[l.key])
                     /\ \A x \in found : x.key = l.id.name
                  \/ ~(config.lockdown /\ Shared(catalog[l.key]))
                       /\ found = {[key |-> l.key, window |-> l.window]}
    <3> DEFINE found == {[key |-> x.key, window |-> ContextWindow(x)] : x \in Resolve(l.id)}
               mapped == \/ l.id.name \in DOMAIN config.mapping
                         \/ Plain("*") \in DOMAIN config.mapping
               excepted == IF config.lockdown THEN l.id.name.oneM
                           ELSE mapped \/ (l.id.name = l.key /\ l.key.oneM)
    <3>1. PICK m \in Models : l = Listed(m)
      BY <2>1
    <3>2. l.key = m.key /\ l.window = ContextWindow(m) /\ catalog[l.key] = m
      BY <2>1, <3>1, ModelFacts DEF Listed
    <3>3. ASSUME ~excepted, config.lockdown, Shared(m)
          PROVE  \A x \in found : x.key = l.id.name
      BY <2>1, <3>1, <3>3, SharedResolves
    <3>4. ASSUME ~excepted, ~(config.lockdown /\ Shared(m))
          PROVE  found = {[key |-> l.key, window |-> l.window]}
      <4>1. Resolve(l.id) = {m}
        BY <2>1, <3>1, <3>2, <3>4, ListedResolves
      <4> QED BY <3>2, <4>1
    <3> HIDE DEF found, excepted
    <3>5. \/ excepted
          \/ config.lockdown /\ Shared(catalog[l.key]) /\ \A x \in found : x.key = l.id.name
          \/ ~(config.lockdown /\ Shared(catalog[l.key]))
               /\ found = {[key |-> l.key, window |-> l.window]}
      BY <3>2, <3>3, <3>4
    <3> QED BY <3>5 DEF found, excepted
  <2> QED BY <2>2 DEF ListedIsServed
<1> QED BY <1>1, AlwaysAnswered, PTL

----------------------------------------------------------------------------
(* Sequences: FlattenSeq and FoldLeft.                                     *)

\* Induction up to m.
LEMMA UpTo ==
  ASSUME NEW m \in Nat, NEW K, 0 \in K, \A k \in 0 .. m - 1 : k \in K => k + 1 \in K
  PROVE  0 .. m \subseteq K
<1> DEFINE T == {k \in 0 .. m : k \notin K}
<1>1. SUFFICES ASSUME T # {} PROVE FALSE
  OBVIOUS
<1>2. T \in SUBSET Nat
  OBVIOUS
<1>3. PICK k \in T : \A j \in T : k <= j
  BY <1>1, <1>2, Least
<1>4. k # 0 /\ k - 1 \in 0 .. m - 1 /\ k - 1 \notin T
  BY <1>3
<1>5. k - 1 \in K
  BY <1>4
<1> QED BY <1>4, <1>5

\* What FlattenSeq is defined by: all but its first elements, one after the other.
Joined(f, ss, m) ==
  \A i \in 1 .. m : f[i] = IF i = 1 THEN ss[i] ELSE f[i-1] \o ss[i]

\* The function by whose recursion FlattenSeq is defined exists.
LEMMA JoinExists ==
  ASSUME NEW X, NEW ss \in Seq(Seq(X)), ss # <<>>
  PROVE  \E f : /\ f \in [1 .. Len(ss) -> Seq(X)]
                /\ Joined(f, ss, Len(ss)) /\ FlattenSeq(ss) = f[Len(ss)]
<1> DEFINE m == Len(ss)
           K == {k \in 0 .. m : \E f \in [1 .. k -> Seq(X)] : Joined(f, ss, k)}
           Eq(f) == f = [i \in 1 .. m |-> IF i = 1 THEN ss[i] ELSE f[i-1] \o ss[i]]
           flat == CHOOSE f : Eq(f)
<1>1. m \in Nat /\ m # 0 /\ \A i \in 1 .. m : ss[i] \in Seq(X)
  OBVIOUS
<1>2. 0 \in K
  <2> DEFINE f == [i \in 1 .. 0 |-> <<>>]
  <2>1. f \in [1 .. 0 -> Seq(X)] /\ Joined(f, ss, 0)
    BY DEF Joined
  <2>2. 0 \in 0 .. m
    BY <1>1
  <2> HIDE DEF f, m
  <2> QED BY <2>1, <2>2
<1>3. ASSUME NEW k \in 0 .. m - 1, k \in K PROVE k + 1 \in K
  <2>1. PICK f \in [1 .. k -> Seq(X)] : Joined(f, ss, k)
    BY <1>3
  <2>2. k \in Nat /\ k + 1 \in 1 .. m /\ k + 1 \in 0 .. m
    BY <1>1
  <2> DEFINE last == IF k = 0 THEN ss[1] ELSE f[k] \o ss[k + 1]
             g == [i \in 1 .. k + 1 |-> IF i = k + 1 THEN last ELSE f[i]]
  <2>3. last \in Seq(X)
    <3>1. CASE k = 0
      BY <1>1, <3>1
    <3>2. CASE k # 0
      <4>1. f[k] \in Seq(X) /\ ss[k + 1] \in Seq(X)
        BY <1>1, <2>2, <3>2
      <4> QED BY <3>2, <4>1
    <3> QED BY <3>1, <3>2
  <2> HIDE DEF last
  <2>4. g \in [1 .. k + 1 -> Seq(X)]
    BY <2>2, <2>3
  <2>5. ASSUME NEW i \in 1 .. k + 1
        PROVE  g[i] = IF i = 1 THEN ss[i] ELSE g[i-1] \o ss[i]
    <3>1. CASE i = k + 1
      BY <2>2, <3>1 DEF last
    <3>2. CASE i # k + 1
      <4>1. i \in 1 .. k /\ g[i] = f[i] /\ (i # 1 => i - 1 \in 1 .. k /\ g[i-1] = f[i-1])
        BY <2>2, <3>2
      <4> QED BY <2>1, <4>1 DEF Joined
    <3> QED BY <3>1, <3>2
  <2>6. Joined(g, ss, k + 1)
    <3> HIDE DEF g
    <3> QED BY <2>5 DEF Joined
  <2> HIDE DEF g
  <2> QED BY <2>2, <2>4, <2>6
<1>4. m \in K
  <2>1. \A k \in 0 .. m - 1 : k \in K => k + 1 \in K
    BY <1>3
  <2>2. m \in 0 .. m
    BY <1>1
  <2> HIDE DEF K, m
  <2> QED BY <1>1, <1>2, <2>1, <2>2, UpTo
<1>5. PICK f \in [1 .. m -> Seq(X)] : Joined(f, ss, m)
  BY <1>4
<1>6. Eq(f)
  BY <1>5 DEF Joined
<1>7. Eq(flat)
  BY <1>6
<1>8. FlattenSeq(ss) = flat[m]
  BY <1>1 DEF FlattenSeq
<1> HIDE DEF flat
<1>9. Joined(flat, ss, m)
  BY <1>7 DEF Joined
<1>10. flat \in [1 .. m -> Seq(X)]
  <2> DEFINE J == {i \in 0 .. m : i # 0 => flat[i] \in Seq(X)}
  <2>1. 0 \in J
    BY <1>1
  <2>2. ASSUME NEW i \in 0 .. m - 1, i \in J PROVE i + 1 \in J
    <3>1. i + 1 \in 1 .. m /\ i + 1 \in 0 .. m /\ i \in Nat /\ i + 1 - 1 = i
      BY <1>1
    <3>2. ss[i + 1] \in Seq(X)
      BY <1>1, <3>1
    <3>3. flat[i + 1] = IF i + 1 = 1 THEN ss[i + 1] ELSE flat[i] \o ss[i + 1]
      BY <1>9, <3>1 DEF Joined
    <3>4. flat[i + 1] \in Seq(X)
      <4>1. CASE i = 0
        BY <3>2, <3>3, <4>1
      <4>2. CASE i # 0
        <5>1. flat[i] \in Seq(X)
          BY <2>2, <4>2
        <5> QED BY <3>1, <3>2, <3>3, <4>2, <5>1
      <4> QED BY <4>1, <4>2
    <3> QED BY <3>1, <3>4
  <2>3. 0 .. m \subseteq J
    <3>1. \A i \in 0 .. m - 1 : i \in J => i + 1 \in J
      BY <2>2
    <3> HIDE DEF J, m
    <3> QED BY <1>1, <2>1, <3>1, UpTo
  <2>4. ASSUME NEW i \in 1 .. m PROVE flat[i] \in Seq(X)
    <3>1. i \in 0 .. m /\ i # 0
      OBVIOUS
    <3> QED BY <2>3, <3>1
  <2> QED BY <1>7, <2>4
<1> QED BY <1>8, <1>9, <1>10

\* FlattenSeq by its last element.
LEMMA Flattened ==
  ASSUME NEW X, NEW ss \in Seq(Seq(X)), NEW t \in Seq(X)
  PROVE  /\ FlattenSeq(ss) \in Seq(X)
         /\ FlattenSeq(Append(ss, t)) = FlattenSeq(ss) \o t
<1> DEFINE m == Len(ss)
           tt == Append(ss, t)
<1>0. m \in Nat /\ ss \in Seq(Seq(X)) /\ DOMAIN ss = 1 .. m
  OBVIOUS
<1>1. /\ m \in Nat /\ tt \in Seq(Seq(X)) /\ Len(tt) = m + 1 /\ tt # <<>>
      /\ tt[m + 1] = t /\ \A i \in 1 .. m : tt[i] = ss[i]
  <2>1. m \in Nat /\ tt \in Seq(Seq(X)) /\ Len(tt) = m + 1
    OBVIOUS
  <2>2. tt[m + 1] = t
    OBVIOUS
  <2>3. \A i \in 1 .. m : tt[i] = ss[i]
    OBVIOUS
  <2>4. tt # <<>>
    <3> HIDE DEF tt
    <3> QED BY <2>1
  <2> QED BY <2>1, <2>2, <2>3, <2>4
<1> HIDE DEF tt
<1>2. PICK h : h \in [1 .. m + 1 -> Seq(X)] /\ Joined(h, tt, m + 1) /\ FlattenSeq(tt) = h[m + 1]
  BY <1>1, JoinExists
<1>5. Joined(h, tt, m + 1)
  BY <1>2
<1>3. CASE ss = <<>>
  <2>1. m = 0 /\ FlattenSeq(ss) = <<>>
    BY <1>3 DEF FlattenSeq
  <2>2. h[1] = t
    BY <1>1, <1>2, <2>1 DEF Joined
  <2>3. <<>> \o t = t /\ <<>> \in Seq(X)
    OBVIOUS
  <2> QED BY <1>2, <2>1, <2>2, <2>3 DEF tt
<1>4. CASE ss # <<>>
  <2>1. m # 0
    BY <1>4
  <2>2. PICK g : g \in [1 .. m -> Seq(X)] /\ Joined(g, ss, m) /\ FlattenSeq(ss) = g[m]
    BY <1>4, JoinExists
  <2>9. Joined(g, ss, m)
    BY <2>2
  <2> HIDE DEF m
  <2> DEFINE J == {i \in 0 .. m : i # 0 => g[i] = h[i]}
  <2>3. 0 \in J
    BY <1>1
  <2>4. ASSUME NEW i \in 0 .. m - 1, i \in J PROVE i + 1 \in J
    <3>1. /\ i + 1 \in 1 .. m /\ i + 1 \in 0 .. m /\ i + 1 \in 1 .. m + 1
          /\ i \in Nat /\ i + 1 - 1 = i
      BY <1>1
    <3>2. /\ g[i + 1] = IF i + 1 = 1 THEN ss[i + 1] ELSE g[i] \o ss[i + 1]
          /\ h[i + 1] = IF i + 1 = 1 THEN tt[i + 1] ELSE h[i] \o tt[i + 1]
      <4>1. g[i + 1] = IF i + 1 = 1 THEN ss[i + 1] ELSE g[i + 1 - 1] \o ss[i + 1]
        BY <2>9, <3>1 DEF Joined
      <4>2. h[i + 1] = IF i + 1 = 1 THEN tt[i + 1] ELSE h[i + 1 - 1] \o tt[i + 1]
        BY <1>5, <3>1 DEF Joined
      <4> QED BY <3>1, <4>1, <4>2
    <3>3. tt[i + 1] = ss[i + 1]
      BY <1>1, <3>1
    <3>4. g[i + 1] = h[i + 1]
      BY <2>4, <3>1, <3>2, <3>3
    <3> QED BY <3>1, <3>4
  <2>5. 0 .. m \subseteq J
    <3>1. \A i \in 0 .. m - 1 : i \in J => i + 1 \in J
      BY <2>4
    <3> HIDE DEF J
    <3> QED BY <1>1, <2>3, <3>1, UpTo
  <2>6. g[m] = h[m]
    <3>1. m \in 0 .. m
      BY <1>1
    <3> QED BY <2>1, <2>5, <3>1
  <2>7. h[m + 1] = h[m] \o t
    <3>1. m + 1 \in 1 .. m + 1 /\ m + 1 # 1 /\ m + 1 - 1 = m
      BY <1>1, <2>1
    <3> DEFINE k == m + 1
    <3>2. Joined(h, tt, k) /\ k \in 1 .. k /\ k # 1 /\ k - 1 = m /\ tt[k] = t
      BY <1>1, <1>5, <3>1
    <3> HIDE DEF k
    <3>3. h[k] = IF k = 1 THEN tt[k] ELSE h[k - 1] \o tt[k]
      BY <3>2 DEF Joined
    <3>4. h[k] = h[m] \o t
      BY <3>2, <3>3
    <3> QED BY <3>4 DEF k
  <2>8. g[m] \in Seq(X)
    <3>1. m \in 1 .. m
      BY <1>1, <2>1
    <3> QED BY <2>2, <3>1
  <2> QED BY <1>2, <2>2, <2>6, <2>7, <2>8 DEF tt
<1> QED BY <1>3, <1>4

\* The function by whose recursion FoldLeft is defined exists.
Folded(f, F, b, seq, s) ==
  f[s] = IF s = {} THEN b ELSE F[<<f[s \ {Max(s)}], seq[Max(s)]>>]

\* It exists for every operator, first state and sequence.
LEMMA FoldExists ==
  ASSUME NEW ST, NEW X, NEW F \in [ST \X X -> ST], NEW b \in ST, NEW seq \in Seq(X)
  PROVE  \E f \in [SUBSET (1 .. Len(seq)) -> ST] :
           \A s \in SUBSET (1 .. Len(seq)) : Folded(f, F, b, seq, s)
<1> DEFINE m == Len(seq)
           K == {k \in 0 .. m :
                   \E f \in [SUBSET (1 .. k) -> ST] :
                     \A s \in SUBSET (1 .. k) : Folded(f, F, b, seq, s)}
<1>1. m \in Nat
  OBVIOUS
<1>2. 0 \in K
  <2> DEFINE f == [s \in SUBSET (1 .. 0) |-> b]
  <2>1. \A s \in SUBSET (1 .. 0) : s = {}
    OBVIOUS
  <2>2. /\ f \in [SUBSET (1 .. 0) -> ST]
        /\ \A s \in SUBSET (1 .. 0) : Folded(f, F, b, seq, s)
    BY <2>1 DEF Folded
  <2> QED BY <1>1, <2>2
<1>3. ASSUME NEW k \in 0 .. m - 1, k \in K PROVE k + 1 \in K
  <2>1. PICK f \in [SUBSET (1 .. k) -> ST] :
               \A s \in SUBSET (1 .. k) : Folded(f, F, b, seq, s)
    BY <1>3
  <2> DEFINE g == [s \in SUBSET (1 .. k + 1) |->
                     IF k + 1 \in s THEN F[<<f[s \ {k + 1}], seq[k + 1]>>] ELSE f[s]]
  <2>2. ASSUME NEW s \in SUBSET (1 .. k + 1)
        PROVE  g[s] \in ST /\ Folded(g, F, b, seq, s)
    <3>1. CASE k + 1 \in s
      <4>0. k + 1 \in Nat /\ s # {} /\ \A j \in s : j <= k + 1
        BY <3>1, <1>3
      <4>1. Max(s) = k + 1
        <5>1. Max(s) \in s /\ \A j \in s : j <= Max(s)
          BY <4>0, MaxIsGreatest
        <5>2. Max(s) \in 1 .. k + 1
          BY <5>1
        <5> QED BY <3>1, <4>0, <5>1, <5>2
      <4>2. s \ {k + 1} \in SUBSET (1 .. k) /\ s \ {k+1} \in SUBSET (1 .. k + 1)
        BY <1>3
      <4>3. g[s \ {k + 1}] = f[s \ {k + 1}] /\ f[s \ {k + 1}] \in ST
        BY <4>2
      <4>4. seq[k + 1] \in X /\ s # {}
        BY <3>1
      <4>5. g[s] = F[<<f[s \ {k + 1}], seq[k + 1]>>] /\ g[s] \in ST
        BY <3>1, <4>3, <4>4
      <4> QED BY <4>1, <4>3, <4>4, <4>5 DEF Folded
    <3>2. CASE k + 1 \notin s
      <4>1. s \in SUBSET (1 .. k)
        BY <3>2
      <4>2. g[s] = f[s] /\ f[s] \in ST
        BY <3>2, <4>1
      <4>3. CASE s # {}
        <5>1. Max(s) \in s
          <6>1. k \in Nat
            BY <1>3
          <6> QED BY <4>1, <4>3, <6>1, MaxIsGreatest
        <5>2. /\ s \ {Max(s)} \in SUBSET (1 .. k) /\ k + 1 \notin s \ {Max(s)}
              /\ s \ {Max(s)} \in SUBSET (1 .. k + 1)
          <6> DEFINE t == s \ {Max(s)}
          <6>1. t \subseteq s
            OBVIOUS
          <6> HIDE DEF t
          <6>2. t \in SUBSET (1 .. k) /\ k + 1 \notin t /\ t \in SUBSET (1 .. k + 1)
            BY <6>1, <4>1, <3>2
          <6> QED BY <6>2 DEF t
        <5>3. g[s \ {Max(s)}] = f[s \ {Max(s)}]
          BY <5>2
        <5> QED BY <2>1, <4>1, <4>2, <4>3, <5>3 DEF Folded
      <4> QED BY <2>1, <4>1, <4>2, <4>3 DEF Folded
    <3> QED BY <3>1, <3>2
  <2>3. g \in [SUBSET (1 .. k + 1) -> ST]
    BY <2>2
  <2> HIDE DEF g
  <2>4. k + 1 \in 0 .. m
    BY <1>1
  <2> QED BY <2>2, <2>3, <2>4
<1>4. m \in K
  <2>1. \A k \in 0 .. m - 1 : k \in K => k + 1 \in K
    BY <1>3
  <2>2. 0 .. m \subseteq K
    <3> HIDE DEF K, m
    <3> QED BY <1>1, <1>2, <2>1, UpTo
  <2>3. m \in 0 .. m
    BY <1>1
  <2> QED
    <3> HIDE DEF K, m
    <3> QED BY <2>2, <2>3
<1> QED BY <1>4

\* A function by whose recursion FoldLeft is defined visits the elements in turn.
Solution(f, ST, F, b, seq) ==
  /\ f[{}] = b
  /\ \A s \in SUBSET (1 .. Len(seq)) :
        s # {} /\ f[s \ {Max(s)}] \in ST => Folded(f, F, b, seq, s)

Trace(g, ST, F, b, seq, f) ==
  /\ g \in [0 .. Len(seq) -> ST]
  /\ g[0] = b /\ g[Len(seq)] = f[1 .. Len(seq)]
  /\ \A i \in 1 .. Len(seq) : g[i] = F[<<g[i-1], seq[i]>>]

\* Its values on the prefixes of the sequence are states, each from the one before.
LEMMA FoldSteps ==
  ASSUME NEW ST, NEW X, NEW F \in [ST \X X -> ST], NEW b \in ST, NEW seq \in Seq(X),
         NEW f, Solution(f, ST, F, b, seq)
  PROVE  \E g : Trace(g, ST, F, b, seq, f)
<1> DEFINE m == Len(seq)
           K == {i \in 0 .. m : f[1 .. i] \in ST}
           g == [i \in 0 .. m |-> f[1 .. i]]
<1>1. m \in Nat /\ 1 .. 0 = {}
  OBVIOUS
<1>0. /\ f[{}] = b
      /\ \A s \in SUBSET (1 .. m) :
            s # {} /\ f[s \ {Max(s)}] \in ST => Folded(f, F, b, seq, s)
  BY DEF Solution
<1>2. ASSUME NEW i \in 0 .. m - 1
      PROVE  /\ f[1 .. i] \in ST =>
                  /\ f[1 .. i + 1] = F[<<f[1 .. i], seq[i + 1]>>]
                  /\ f[1 .. i + 1] \in ST
  <2> DEFINE s == 1 .. i + 1
  <2>0. i \in Nat /\ i + 1 \in Nat /\ i + 1 <= m
    <3> HIDE DEF m
    <3> QED BY <1>1
  <2>1. i + 1 \in s /\ s # {} /\ s \in SUBSET (1 .. i + 1)
    <3>1. i + 1 \in s
      BY <2>0
    <3> QED BY <3>1
  <2>6. s \in SUBSET (1 .. m)
    BY <1>1, <2>0
  <2>2. Max(s) = i + 1
    <3>1. Max(s) \in s /\ \A j \in s : j <= Max(s)
      <4> HIDE DEF s
      <4> QED BY <2>0, <2>1, MaxIsGreatest
    <3>2. Max(s) \in 1 .. i + 1
      BY <3>1
    <3> QED BY <2>0, <2>1, <3>1, <3>2
  <2>3. s \ {i + 1} = 1 .. i
    BY <2>0
  <2>4. seq[i + 1] \in X
    BY <1>1, <2>0
  <2>5. ASSUME f[1 .. i] \in ST PROVE f[s] = F[<<f[1 .. i], seq[i + 1]>>]
    <3>1. f[s \ {Max(s)}] \in ST
      BY <2>2, <2>3, <2>5
    <3>2. Folded(f, F, b, seq, s)
      BY <1>0, <2>1, <2>6, <3>1
    <3> QED BY <2>1, <2>2, <2>3, <3>2 DEF Folded
  <2> QED BY <2>4, <2>5
<1>3. 0 .. m \subseteq K
  <2>1. 0 \in K
    BY <1>0, <1>1
  <2>2. ASSUME NEW i \in 0 .. m - 1, i \in K PROVE i + 1 \in K
    <3>1. f[1 .. i + 1] \in ST
      BY <1>2, <2>2
    <3>2. i + 1 \in 0 .. m
      <4> HIDE DEF m
      <4> QED BY <1>1
    <3> QED BY <3>1, <3>2
  <2> HIDE DEF K, m
  <2> QED BY <1>1, <2>1, <2>2, UpTo
<1>4. g \in [0 .. m -> ST]
  BY <1>3
<1>5. \A i \in 1 .. m : g[i] = F[<<g[i-1], seq[i]>>]
  <2>1. ASSUME NEW i \in 1 .. m PROVE g[i] = F[<<g[i-1], seq[i]>>]
    <3>1. i - 1 \in 0 .. m - 1 /\ i - 1 \in 0 .. m /\ i \in 0 .. m /\ i - 1 + 1 = i
      BY <1>1
    <3>2. f[1 .. i - 1] \in ST
      BY <1>3, <3>1
    <3>3. f[1 .. i] = F[<<f[1 .. i - 1], seq[i]>>]
      BY <1>2, <3>1, <3>2
    <3> QED BY <3>1, <3>3
  <2> QED BY <2>1
<1>6. g[0] = b /\ g[m] = f[1 .. m]
  BY <1>0, <1>1
<1> QED BY <1>4, <1>5, <1>6 DEF Trace

\* The elements a fold takes off a set of places.
LEMMA Greatest ==
  ASSUME NEW X, NEW seq \in Seq(X)
  PROVE  \A u \in SUBSET (1 .. Len(seq)) :
            u # {} => seq[Max(u)] \in X /\ u \ {Max(u)} \in SUBSET (1 .. Len(seq))
<1> SUFFICES ASSUME NEW u \in SUBSET (1 .. Len(seq)), u # {}
             PROVE  seq[Max(u)] \in X /\ u \ {Max(u)} \in SUBSET (1 .. Len(seq))
  OBVIOUS
<1> DEFINE m == Len(seq)
<1>1. m \in Nat /\ u \in SUBSET (1 .. m) /\ u # {}
  OBVIOUS
<1>2. Max(u) \in u
  <2> HIDE DEF m
  <2> QED BY <1>1, MaxIsGreatest
<1>3. Max(u) \in 1 .. Len(seq)
  BY <1>2
<1>4. seq[Max(u)] \in X
  BY <1>3
<1>5. u \ {Max(u)} \subseteq u
  OBVIOUS
<1>6. u \ {Max(u)} \in SUBSET (1 .. Len(seq))
  <2> DEFINE v == u \ {Max(u)}
  <2> HIDE DEF v
  <2>1. v \subseteq u => v \in SUBSET (1 .. Len(seq))
    OBVIOUS
  <2> QED BY <1>5, <2>1 DEF v
<1> QED BY <1>4, <1>6

\* Append, element by element.
LEMMA Appended ==
  ASSUME NEW E, NEW p \in Seq(E), NEW x \in E
  PROVE  Append(p, x) = [i \in 1 .. Len(p) + 1 |-> IF i = Len(p) + 1 THEN x ELSE p[i]]
<1> DEFINE k == Len(p) + 1
           g == Append(p, x)
<1>1. g \in Seq(E) /\ Len(g) = k /\ k \in Nat
  OBVIOUS
<1>2. \A i \in 1 .. k : g[i] = IF i = k THEN x ELSE p[i]
  OBVIOUS
<1> HIDE DEF g, k
<1>3. g = [i \in 1 .. k |-> g[i]]
  BY <1>1
<1>4. g = [i \in 1 .. k |-> IF i = k THEN x ELSE p[i]]
  BY <1>2, <1>3
<1> QED BY <1>4 DEF g, k

\* Induction over the prefixes of a sequence.
LEMMA ByAppending ==
  ASSUME NEW E, NEW q \in Seq(E), NEW K, <<>> \in K,
         \A p \in Seq(E), x \in E : p \in K => Append(p, x) \in K
  PROVE  q \in K
<1> DEFINE m == Len(q)
           pre(k) == [i \in 1 .. k |-> q[i]]
           J == {k \in 0 .. m : pre(k) \in K}
<1>1. m \in Nat /\ DOMAIN q = 1 .. m /\ q = pre(m) /\ \A i \in 1 .. m : q[i] \in E
  OBVIOUS
<1>2. 0 \in J
  <2>1. pre(0) = <<>>
    OBVIOUS
  <2> QED BY <1>1, <2>1
<1>3. ASSUME NEW k \in 0 .. m - 1, k \in J PROVE k + 1 \in J
  <2>1. k + 1 \in 1 .. m /\ k + 1 \in 0 .. m /\ k \in Nat /\ q[k + 1] \in E
    BY <1>1
  <2>2. pre(k) \in Seq(E) /\ Len(pre(k)) = k
    BY <1>1, <2>1
  <2>3. pre(k + 1) = Append(pre(k), q[k + 1])
    <3> DEFINE p == pre(k)
               x == q[k + 1]
    <3>1. Append(p, x) = [i \in 1 .. k + 1 |-> IF i = k + 1 THEN x ELSE p[i]]
      <4>1. p \in Seq(E) /\ Len(p) = k /\ x \in E /\ k \in Nat
        BY <2>1, <2>2
      <4> HIDE DEF p, x
      <4>2. Append(p, x) = [i \in 1 .. Len(p) + 1 |-> IF i = Len(p) + 1 THEN x ELSE p[i]]
        BY <4>1, Appended
      <4> QED BY <4>1, <4>2
    <3>2. \A i \in 1 .. k + 1 : q[i] = IF i = k + 1 THEN x ELSE p[i]
      BY <2>1
    <3> HIDE DEF p, x
    <3> QED BY <3>1, <3>2 DEF p, x
  <2>4. pre(k) \in K
    BY <1>3
  <2> HIDE DEF pre
  <2> QED BY <2>1, <2>2, <2>3, <2>4
<1>4. m \in J
  <2> HIDE DEF J, m
  <2>1. 0 .. m \subseteq J
    BY <1>1, <1>2, <1>3, UpTo
  <2> QED BY <1>1, <2>1
<1> QED BY <1>1, <1>4

\* v is what folding F over a sequence gives, with every state on the way in ST.
FoldsTo(v, ST, F, b, seq) ==
  \E g \in [0 .. Len(seq) -> ST] :
    /\ g[0] = b /\ g[Len(seq)] = v
    /\ \A i \in 1 .. Len(seq) : g[i] = F[<<g[i-1], seq[i]>>]

\* A fold by its last step.
LEMMA FoldLast ==
  ASSUME NEW ST, NEW X, NEW F, NEW b, NEW s \in Seq(X), NEW m \in X, NEW v, NEW w,
         FoldsTo(v, ST, F, b, s), FoldsTo(w, ST, F, b, Append(s, m))
  PROVE  v \in ST /\ w = F[<<v, m>>]
<1> DEFINE n == Len(s)
           t == Append(s, m)
<1>1. /\ n \in Nat /\ Len(t) = n + 1 /\ t[n + 1] = m /\ \A i \in 1 .. n : t[i] = s[i]
  OBVIOUS
<1> HIDE DEF t
<1>2. PICK g \in [0 .. n -> ST] :
        g[0] = b /\ g[n] = v /\ \A i \in 1 .. n : g[i] = F[<<g[i-1], s[i]>>]
  BY DEF FoldsTo
<1>3. PICK h \in [0 .. n + 1 -> ST] :
        /\ h[0] = b /\ h[n + 1] = w
        /\ \A i \in 1 .. n + 1 : h[i] = F[<<h[i-1], t[i]>>]
  <2>1. FoldsTo(w, ST, F, b, t)
    BY DEF t
  <2>2. PICK h \in [0 .. Len(t) -> ST] :
          /\ h[0] = b /\ h[Len(t)] = w
          /\ \A i \in 1 .. Len(t) : h[i] = F[<<h[i-1], t[i]>>]
    BY <2>1 DEF FoldsTo
  <2>3. Len(t) = n + 1
    BY <1>1
  <2> HIDE DEF n
  <2> QED BY <2>2, <2>3
<1> HIDE DEF n
<1> DEFINE K == {i \in 0 .. n : g[i] = h[i]}
<1>4. 0 \in K
  BY <1>1, <1>2, <1>3
<1>5. ASSUME NEW i \in 0 .. n - 1, i \in K PROVE i + 1 \in K
  <2>1. i + 1 \in 1 .. n /\ i + 1 \in 0 .. n /\ i + 1 \in 1 .. n + 1 /\ i + 1 - 1 = i
    BY <1>1
  <2>2. g[i + 1] = F[<<g[i + 1 - 1], s[i + 1]>>] /\ h[i + 1] = F[<<h[i + 1 - 1], t[i + 1]>>]
    BY <1>2, <1>3, <2>1
  <2>3. g[i] = h[i] /\ s[i + 1] = t[i + 1]
    BY <1>1, <1>5, <2>1
  <2>4. g[i + 1] = h[i + 1]
    BY <2>1, <2>2, <2>3
  <2> QED BY <2>1, <2>4
<1>6. 0 .. n \subseteq K
  <2> HIDE DEF K
  <2> QED BY <1>1, <1>4, <1>5, UpTo
<1>7. g[n] = h[n] /\ n \in 0 .. n
  BY <1>1, <1>6
<1>10. h[n + 1] = F[<<h[n], m>>]
  <2> DEFINE k == n + 1
  <2>1. k \in 1 .. k /\ k - 1 = n /\ t[k] = m
    BY <1>1
  <2>2. \A i \in 1 .. k : h[i] = F[<<h[i-1], t[i]>>]
    BY <1>3
  <2> HIDE DEF k
  <2>3. h[k] = F[<<h[k - 1], t[k]>>]
    BY <2>1, <2>2
  <2>4. h[k] = F[<<h[n], m>>]
    BY <2>1, <2>3
  <2> QED BY <2>4 DEF k
<1> QED BY <1>2, <1>3, <1>7, <1>10

----------------------------------------------------------------------------
(* Turns.                                                                  *)

Roles == {"user", "assistant", "tool", "system"}
\* What tells the messages of a conversation apart.
TypedMessages(M) ==
  \A m \in M : /\ m.role \in Roles /\ m.content \in Seq(Items)
               /\ m.calls \in Seq(CallIds) /\ m.result \in CallIds \cup {None}
TurnOf ==
  [role : Roles, items : Seq(Items), calls : Seq(CallIds), results : Seq(Results)]
Grouping(M) == [p \in Seq(TurnOf) \X M |-> Group(p[1], p[2])]

\* Two turns together are a turn.
LEMMA TogetherType ==
  ASSUME NEW t \in TurnOf, NEW u \in TurnOf
  PROVE  Together(t, u) \in TurnOf
BY DEF Together, TurnOf

\* Turns with one more are turns.
LEMMA PutType ==
  ASSUME NEW ts \in Seq(TurnOf), NEW t \in TurnOf
  PROVE  Put(ts, t) \in Seq(TurnOf)
<1> DEFINE n == Len(ts)
           u == Together(ts[n], t)
<1>1. n \in Nat
  OBVIOUS
<1>2. ASSUME n # 0 PROVE [ts EXCEPT ![n] = u] \in Seq(TurnOf)
  <2>1. n \in 1 .. n /\ ts[n] \in TurnOf
    BY <1>1, <1>2
  <2>2. u \in TurnOf
    BY <2>1, TogetherType
  <2> HIDE DEF u
  <2> QED BY <2>1, <2>2, ExceptSeq
<1> QED BY <1>1, <1>2 DEF Put

\* A message as a turn.
LEMMA AsTurnType ==
  ASSUME NEW M, TypedMessages(M), NEW m \in M
  PROVE  AsTurn(m) \in TurnOf
<1> DEFINE r == [call |-> m.result, output |-> m.content]
<1>1. m.result # None => <<r>> \in Seq(Results)
  BY DEF TypedMessages, Results
<1> QED BY <1>1 DEF AsTurn, TurnOf, TypedMessages

\* Grouped is a fold of Group.
LEMMA GroupedFolds ==
  ASSUME NEW M, TypedMessages(M), NEW seq \in Seq(M)
  PROVE  FoldsTo(Grouped(seq), Seq(TurnOf), Grouping(M), <<>>, seq)
<1> DEFINE m == Len(seq)
           ST == Seq(TurnOf)
           F == Grouping(M)
           Eq(f) == f = [u \in SUBSET (1 .. m) |->
                           IF u = {} THEN <<>> ELSE Group(f[u \ {Max(u)}], seq[Max(u)])]
           iter == CHOOSE f : Eq(f)
<1>1. Grouped(seq) = iter[1 .. m]
  <2>1. DOMAIN seq = 1 .. m
    OBVIOUS
  <2>3. Grouped(seq) =
          (CHOOSE f : f = [u \in SUBSET DOMAIN seq |->
                             IF u = {} THEN <<>>
                             ELSE Group(f[u \ {Max(u)}], seq[Max(u)])])[DOMAIN seq]
    BY DEF Grouped, FoldLeft, MapThenFoldSet
  <2> QED BY <2>1, <2>3
<1>0. \A x \in ST, t \in M : Group(x, t) \in ST /\ F[<<x, t>>] = Group(x, t)
  BY AsTurnType, PutType DEF Group, Grouping
<1>2. F \in [ST \X M -> ST]
  <2> HIDE DEF ST
  <2>1. F = [p \in ST \X M |-> Group(p[1], p[2])]
    BY DEF Grouping, ST
  <2> HIDE DEF F
  <2> QED BY <1>0, <2>1
<1>3. \A u \in SUBSET (1 .. m) :
         u # {} => seq[Max(u)] \in M /\ u \ {Max(u)} \in SUBSET (1 .. m)
  BY Greatest
<1>9. <<>> \in ST
  OBVIOUS
<1> HIDE DEF ST, F
<1>4. \E f : Eq(f)
  <2>1. PICK f \in [SUBSET (1 .. m) -> ST] :
          \A u \in SUBSET (1 .. m) : Folded(f, F, <<>>, seq, u)
    BY <1>2, <1>9, FoldExists
  <2>2. ASSUME NEW u \in SUBSET (1 .. m)
        PROVE  f[u] = IF u = {} THEN <<>> ELSE Group(f[u \ {Max(u)}], seq[Max(u)])
    <3>1. u # {} => f[u \ {Max(u)}] \in ST
      BY <1>3
    <3> QED BY <1>0, <1>3, <2>1, <3>1 DEF Folded
  <2> QED BY <2>1, <2>2
<1>5. Eq(iter)
  BY <1>4
<1> HIDE DEF iter
<1>6. Solution(iter, ST, F, <<>>, seq)
  <2>1. iter[{}] = <<>>
    BY <1>5
  <2>2. ASSUME NEW u \in SUBSET (1 .. m), u # {}, iter[u \ {Max(u)}] \in ST
        PROVE  Folded(iter, F, <<>>, seq, u)
    <3>1. iter[u] = Group(iter[u \ {Max(u)}], seq[Max(u)])
      BY <1>5, <2>2
    <3> QED BY <1>0, <1>3, <2>2, <3>1 DEF Folded
  <2> QED BY <2>1, <2>2 DEF Solution
<1>7. PICK h : Trace(h, ST, F, <<>>, seq, iter)
  BY <1>2, <1>6, <1>9, FoldSteps
<1> QED BY <1>1, <1>7 DEF Trace, FoldsTo, ST, F

\* Messages are grouped one after the other.
LEMMA GroupedLast ==
  ASSUME NEW M, TypedMessages(M), NEW s \in Seq(M)
  PROVE  /\ Grouped(s) \in Seq(TurnOf) /\ Grouped(<<>>) = <<>>
         /\ \A m \in M : Grouped(Append(s, m)) = Group(Grouped(s), m)
<1> DEFINE ST == Seq(TurnOf)
           F == Grouping(M)
<1>1. Grouped(s) \in ST /\ Grouped(<<>>) = <<>>
  <2>1. FoldsTo(Grouped(s), ST, F, <<>>, s)
    BY GroupedFolds
  <2>2. FoldsTo(Grouped(<<>>), ST, F, <<>>, <<>>)
    <3>1. <<>> \in Seq(M)
      OBVIOUS
    <3> QED BY <3>1, GroupedFolds
  <2>3. Len(s) \in 0 .. Len(s) /\ Len(<<>>) = 0
    OBVIOUS
  <2> HIDE DEF ST, F
  <2> QED BY <2>1, <2>2, <2>3 DEF FoldsTo
<1>2. ASSUME NEW m \in M PROVE Grouped(Append(s, m)) = Group(Grouped(s), m)
  <2>1. Append(s, m) \in Seq(M)
    OBVIOUS
  <2>2. FoldsTo(Grouped(s), ST, F, <<>>, s)
    BY GroupedFolds
  <2>3. FoldsTo(Grouped(Append(s, m)), ST, F, <<>>, Append(s, m))
    BY <2>1, GroupedFolds
  <2> HIDE DEF ST, F
  <2>4. Grouped(Append(s, m)) = F[<<Grouped(s), m>>]
    BY <2>2, <2>3, FoldLast
  <2> QED BY <1>1, <2>4 DEF Grouping, ST, F
<1> QED BY <1>1, <1>2

\* The parts of two turns together.
LEMMA TogetherFields ==
  ASSUME NEW t \in TurnOf, NEW u \in TurnOf
  PROVE  /\ t.items \in Seq(Items) /\ t.calls \in Seq(CallIds) /\ t.results \in Seq(Results)
         /\ Together(t, u).role = t.role /\ Together(t, u).items = t.items \o u.items
         /\ Together(t, u).calls = t.calls \o u.calls
         /\ Together(t, u).results = t.results \o u.results
         /\ Together(t, u) \in TurnOf
BY TogetherType DEF Together, TurnOf

Silent(t) == t.items = <<>> /\ t.calls = <<>> /\ t.results = <<>>

\* Turns of one role are put together whichever pair is joined first.
LEMMA TogetherAssociative ==
  ASSUME NEW t \in TurnOf, NEW u \in TurnOf, NEW v \in TurnOf
  PROVE  Together(Together(t, u), v) = Together(t, Together(u, v))
<1> DEFINE x == Together(t, u)
           y == Together(u, v)
<1>1. x \in TurnOf /\ y \in TurnOf /\ x.role = t.role
  BY TogetherFields
<1>2. x.items \o v.items = t.items \o y.items
  <2>1. t.items \in Seq(Items) /\ u.items \in Seq(Items) /\ v.items \in Seq(Items)
    BY TogetherFields
  <2>2. x.items = t.items \o u.items /\ y.items = u.items \o v.items
    BY TogetherFields
  <2>3. (t.items \o u.items) \o v.items = t.items \o (u.items \o v.items)
    <3> DEFINE a == t.items
               b == u.items
               c == v.items
    <3>1. a \in Seq(Items) /\ b \in Seq(Items) /\ c \in Seq(Items)
      BY <2>1
    <3> HIDE DEF a, b, c
    <3>2. (a \o b) \o c = a \o (b \o c)
      BY <3>1, ConcatAssociative
    <3> QED BY <3>2 DEF a, b, c
  <2> HIDE DEF x, y
  <2> QED BY <2>2, <2>3
<1>3. x.calls \o v.calls = t.calls \o y.calls
  <2>1. t.calls \in Seq(CallIds) /\ u.calls \in Seq(CallIds) /\ v.calls \in Seq(CallIds)
    BY TogetherFields
  <2>2. x.calls = t.calls \o u.calls /\ y.calls = u.calls \o v.calls
    BY TogetherFields
  <2>3. (t.calls \o u.calls) \o v.calls = t.calls \o (u.calls \o v.calls)
    <3> DEFINE a == t.calls
               b == u.calls
               c == v.calls
    <3>1. a \in Seq(CallIds) /\ b \in Seq(CallIds) /\ c \in Seq(CallIds)
      BY <2>1
    <3> HIDE DEF a, b, c
    <3>2. (a \o b) \o c = a \o (b \o c)
      BY <3>1, ConcatAssociative
    <3> QED BY <3>2 DEF a, b, c
  <2> HIDE DEF x, y
  <2> QED BY <2>2, <2>3
<1>4. x.results \o v.results = t.results \o y.results
  <2>1. t.results \in Seq(Results) /\ u.results \in Seq(Results) /\ v.results \in Seq(Results)
    BY TogetherFields
  <2>2. x.results = t.results \o u.results /\ y.results = u.results \o v.results
    BY TogetherFields
  <2>3. (t.results \o u.results) \o v.results = t.results \o (u.results \o v.results)
    <3> DEFINE a == t.results
               b == u.results
               c == v.results
    <3>1. a \in Seq(Results) /\ b \in Seq(Results) /\ c \in Seq(Results)
      BY <2>1
    <3> HIDE DEF a, b, c
    <3>2. (a \o b) \o c = a \o (b \o c)
      BY <3>1, ConcatAssociative
    <3> QED BY <3>2 DEF a, b, c
  <2> HIDE DEF x, y
  <2> QED BY <2>2, <2>3
<1> HIDE DEF x, y
<1>5. Together(x, v) = Together(t, y)
  BY <1>1, <1>2, <1>3, <1>4 DEF Together
<1> QED BY <1>5 DEF x, y

\* A turn that says nothing changes nothing.
LEMMA TogetherSilent ==
  ASSUME NEW t \in TurnOf, NEW u \in TurnOf, t.role = u.role
  PROVE  /\ Silent(t) => Together(t, u) = u
         /\ Silent(u) => Together(t, u) = t
         /\ Silent(Together(t, u)) <=> Silent(t) /\ Silent(u)
<1>1. /\ t.items \in Seq(Items) /\ t.calls \in Seq(CallIds) /\ t.results \in Seq(Results)
      /\ u.items \in Seq(Items) /\ u.calls \in Seq(CallIds) /\ u.results \in Seq(Results)
  BY TogetherFields
<1>2. /\ t = [role |-> t.role, items |-> t.items, calls |-> t.calls, results |-> t.results]
      /\ u = [role |-> u.role, items |-> u.items, calls |-> u.calls, results |-> u.results]
  BY DEF TurnOf
<1>3. ASSUME Silent(t) PROVE Together(t, u) = u
  <2>1. /\ t.items \o u.items = u.items /\ t.calls \o u.calls = u.calls
        /\ t.results \o u.results = u.results
    BY <1>1, <1>3, ConcatEmptySeq DEF Silent
  <2> QED BY <1>2, <2>1 DEF Together
<1>4. ASSUME Silent(u) PROVE Together(t, u) = t
  <2>1. /\ t.items \o u.items = t.items /\ t.calls \o u.calls = t.calls
        /\ t.results \o u.results = t.results
    BY <1>1, <1>4, ConcatEmptySeq DEF Silent
  <2> QED BY <1>2, <2>1 DEF Together
<1>5. Silent(Together(t, u)) <=> Silent(t) /\ Silent(u)
  <2>1. t.items \o u.items = <<>> <=> t.items = <<>> /\ u.items = <<>>
    BY <1>1, ConcatEqualIffEmpty
  <2>2. t.calls \o u.calls = <<>> <=> t.calls = <<>> /\ u.calls = <<>>
    BY <1>1, ConcatEqualIffEmpty
  <2>3. t.results \o u.results = <<>> <=> t.results = <<>> /\ u.results = <<>>
    BY <1>1, ConcatEqualIffEmpty
  <2> QED BY <2>1, <2>2, <2>3, TogetherFields DEF Silent
<1> QED BY <1>3, <1>4, <1>5

\* Two turns of one role are put in as one.
LEMMA PutTwice ==
  ASSUME NEW ts \in Seq(TurnOf), NEW t \in TurnOf, NEW u \in TurnOf, t.role = u.role
  PROVE  Put(Put(ts, t), u) = Put(ts, Together(t, u))
<1> DEFINE n == Len(ts)
           x == Together(t, u)
<1>0. n \in Nat /\ x \in TurnOf /\ x.role = t.role
  <2>1. n \in Nat
    OBVIOUS
  <2>2. x \in TurnOf /\ x.role = t.role
    BY TogetherFields
  <2> QED BY <2>1, <2>2
<1>1. CASE Silent(t)
  <2>1. Put(ts, t) = ts /\ x = u
    BY <1>1, TogetherSilent DEF Put, Silent
  <2> QED BY <2>1
<1>2. CASE ~Silent(t) /\ Silent(u)
  <2>1. x = t
    BY <1>2, TogetherSilent
  <2>2. Put(Put(ts, t), u) = Put(ts, t)
    BY <1>2 DEF Put, Silent
  <2> QED BY <2>1, <2>2
<1>3. CASE ~Silent(t) /\ ~Silent(u)
  <2>0. ~Silent(x)
    BY <1>3, TogetherSilent
  <2>1. CASE n = 0 \/ ts[n].role # t.role
    <3> DEFINE us == Append(ts, t)
    <3>1. Put(ts, t) = us /\ Put(ts, x) = Append(ts, x)
      <4> HIDE DEF x
      <4> QED BY <1>0, <1>3, <2>0, <2>1 DEF Put, Silent
    <3>2. us \in Seq(TurnOf) /\ Len(us) = n + 1 /\ us[n + 1] = t /\ n + 1 # 0
      OBVIOUS
    <3>3. Put(us, u) = [us EXCEPT ![n + 1] = x]
      <4> HIDE DEF us
      <4> QED BY <1>3, <3>2 DEF Put, Silent
    <3>4. [us EXCEPT ![n + 1] = x] = Append(ts, x)
      <4>1. Append(ts, x) \in Seq(TurnOf) /\ Len(Append(ts, x)) = n + 1
        <5> HIDE DEF x
        <5> QED BY <1>0
      <4>2. n + 1 \in 1 .. Len(us)
        BY <1>0, <3>2
      <4>3. ASSUME NEW i \in 1 .. n + 1
            PROVE  [us EXCEPT ![n + 1] = x][i] = Append(ts, x)[i]
        <5> HIDE DEF x
        <5>1. Append(ts, x)[i] = IF i = n + 1 THEN x ELSE ts[i]
          BY <1>0
        <5>2. us[i] = IF i = n + 1 THEN t ELSE ts[i]
          BY <1>0
        <5>3. DOMAIN us = 1 .. n + 1
          OBVIOUS
        <5> HIDE DEF us
        <5> QED BY <5>1, <5>2, <5>3
      <4>4. /\ [us EXCEPT ![n + 1] = x] \in Seq(TurnOf)
            /\ Len([us EXCEPT ![n + 1] = x]) = n + 1
        <5> HIDE DEF x, us
        <5> QED BY <1>0, <3>2, <4>2, ExceptSeq
      <4> DEFINE p == [us EXCEPT ![n + 1] = x]
                 q == Append(ts, x)
                 k == n + 1
      <4>5. p \in Seq(TurnOf) /\ q \in Seq(TurnOf) /\ Len(p) = Len(q) /\ Len(p) = k
        BY <4>1, <4>4
      <4>6. \A i \in 1 .. k : p[i] = q[i]
        BY <4>3
      <4> HIDE DEF p, q, k
      <4>7. p = q
        BY <4>5, <4>6, SeqEqual
      <4> QED BY <4>7 DEF p, q
    <3> QED BY <3>1, <3>3, <3>4
  <2>2. CASE n # 0 /\ ts[n].role = t.role
    <3> DEFINE y == Together(ts[n], t)
               us == [ts EXCEPT ![n] = y]
    <3>1. n \in 1 .. Len(ts) /\ ts[n] \in TurnOf
      BY <1>0, <2>2
    <3>2. y \in TurnOf /\ y.role = t.role
      BY <2>2, <3>1, TogetherFields
    <3>3. Put(ts, t) = us
      BY <1>3, <2>2 DEF Put, Silent
    <3>4. us \in Seq(TurnOf) /\ Len(us) = n /\ us[n] = y /\ DOMAIN ts = 1 .. n
      <4> HIDE DEF y
      <4> QED BY <3>1, <3>2, ExceptSeq
    <3>5. Put(us, u) = [us EXCEPT ![n] = Together(y, u)]
      <4> HIDE DEF us, y
      <4> QED BY <1>3, <2>2, <3>2, <3>4 DEF Put, Silent
    <3>6. Together(y, u) = Together(ts[n], x)
      BY <3>1, TogetherAssociative
    <3>7. Put(ts, x) = [ts EXCEPT ![n] = Together(ts[n], x)]
      <4> HIDE DEF x
      <4> QED BY <1>0, <2>0, <2>2 DEF Put, Silent
    <3>8. [us EXCEPT ![n] = Together(y, u)] = [ts EXCEPT ![n] = Together(y, u)]
      <4> DEFINE z == Together(y, u)
      <4> HIDE DEF z, y
      <4> QED BY <3>1
    <3> QED BY <3>3, <3>5, <3>6, <3>7, <3>8
  <2> QED BY <2>1, <2>2
<1> QED BY <1>1, <1>2, <1>3

\* Nor is it one of the turns.
LEMMA PutSilent ==
  ASSUME NEW ts, NEW t, Silent(t)
  PROVE  Put(ts, t) = ts
BY DEF Put, Silent

----------------------------------------------------------------------------
(* Conversations.                                                          *)

Prefix(s, k) == [i \in 1 .. k |-> s[i]]

\* The shortest and the longest prefix of a sequence.
LEMMA PrefixEnds ==
  ASSUME NEW E, NEW s \in Seq(E)
  PROVE  Prefix(s, 0) = <<>> /\ Prefix(s, Len(s)) = s
<1>1. Prefix(s, 0) = <<>>
  BY DEF Prefix
<1>2. Prefix(s, Len(s)) = s
  BY DEF Prefix
<1> QED BY <1>1, <1>2

\* A prefix is a sequence of the same elements.
LEMMA PrefixType ==
  ASSUME NEW E, NEW s \in Seq(E), NEW k \in 0 .. Len(s)
  PROVE  Prefix(s, k) \in Seq(E) /\ Len(Prefix(s, k)) = k
BY DEF Prefix

\* The next prefix has the next element at its end.
LEMMA PrefixNext ==
  ASSUME NEW E, NEW s \in Seq(E), NEW k \in 0 .. Len(s) - 1
  PROVE  /\ Prefix(s, k) \in Seq(E) /\ s[k + 1] \in E
         /\ Prefix(s, k + 1) = Append(Prefix(s, k), s[k + 1])
<1> DEFINE p == Prefix(s, k)
           x == s[k + 1]
<1>1. k \in Nat /\ k + 1 \in 1 .. Len(s) /\ k \in 0 .. Len(s) /\ x \in E
  OBVIOUS
<1>2. p \in Seq(E) /\ Len(p) = k
  BY <1>1, PrefixType
<1>3. \A i \in 1 .. k : p[i] = s[i]
  BY DEF Prefix
<1> HIDE DEF p, x
<1>4. Append(p, x) = [i \in 1 .. k + 1 |-> IF i = k + 1 THEN x ELSE p[i]]
  BY <1>1, <1>2, Appended
<1>5. Prefix(s, k + 1) = [i \in 1 .. k + 1 |-> s[i]]
  BY DEF Prefix
<1>6. \A i \in 1 .. k + 1 : s[i] = IF i = k + 1 THEN x ELSE p[i]
  BY <1>1, <1>3 DEF x
<1>7. Prefix(s, k + 1) = Append(p, x)
  BY <1>4, <1>5, <1>6
<1> QED BY <1>1, <1>2, <1>7 DEF p, x

\* Appending to the second of two sequences.
LEMMA ConcatAppend ==
  ASSUME NEW E, NEW a \in Seq(E), NEW b \in Seq(E), NEW x \in E
  PROVE  a \o Append(b, x) = Append(a \o b, x) /\ a \o b \in Seq(E)
<1>1. <<x>> \in Seq(E) /\ Append(b, x) = b \o <<x>> /\ a \o b \in Seq(E)
  OBVIOUS
<1>2. Append(a \o b, x) = (a \o b) \o <<x>>
  BY <1>1
<1> QED BY <1>1, <1>2, ConcatAssociative

\* Messages that say the same after conversations that say the same.
SameTurns(c, d) == Len(c) = Len(d) /\ \A i \in 1 .. Len(c) : AsTurn(c[i]) = AsTurn(d[i])

\* Messages that are the same turns are grouped alike after what is grouped alike.
LEMMA GroupedAfter ==
  ASSUME NEW M, TypedMessages(M), NEW N, TypedMessages(N),
         NEW a \in Seq(M), NEW b \in Seq(N), Grouped(a) = Grouped(b),
         NEW c \in Seq(M), NEW d \in Seq(N), SameTurns(c, d)
  PROVE  Grouped(a \o c) = Grouped(b \o d)
<1> DEFINE n == Len(c)
           K == {k \in 0 .. n : Grouped(a \o Prefix(c, k)) = Grouped(b \o Prefix(d, k))}
<1>1. n \in Nat /\ n = Len(d) /\ \A i \in 1 .. n : AsTurn(c[i]) = AsTurn(d[i])
  BY DEF SameTurns
<1>2. 0 \in K
  <2>1. Prefix(c, 0) = <<>> /\ Prefix(d, 0) = <<>>
    BY PrefixEnds
  <2>2. a \o <<>> = a /\ b \o <<>> = b
    OBVIOUS
  <2>3. 0 \in 0 .. n
    BY <1>1
  <2> QED BY <2>1, <2>2, <2>3
<1>3. ASSUME NEW k \in 0 .. n - 1, k \in K PROVE k + 1 \in K
  <2> DEFINE p == Prefix(c, k)
             q == Prefix(d, k)
             x == c[k + 1]
             y == d[k + 1]
  <2>1. k \in 0 .. n /\ k + 1 \in 1 .. n /\ k + 1 \in 0 .. n
    BY <1>1
  <2>2. p \in Seq(M) /\ x \in M /\ Prefix(c, k + 1) = Append(p, x)
    BY PrefixNext
  <2>8. q \in Seq(N) /\ y \in N /\ Prefix(d, k + 1) = Append(q, y)
    <3>1. k \in 0 .. Len(d) - 1
      BY <1>1
    <3> QED BY <3>1, PrefixNext
  <2>3. AsTurn(x) = AsTurn(y)
    BY <1>1, <2>1
  <2>4. Grouped(a \o p) = Grouped(b \o q)
    BY <1>3
  <2> HIDE DEF p, q, x, y
  <2>5. a \o Append(p, x) = Append(a \o p, x) /\ a \o p \in Seq(M)
    BY <2>2, ConcatAppend
  <2>9. b \o Append(q, y) = Append(b \o q, y) /\ b \o q \in Seq(N)
    BY <2>8, ConcatAppend
  <2>6. Grouped(Append(a \o p, x)) = Group(Grouped(a \o p), x)
    BY <2>2, <2>5, GroupedLast
  <2>10. Grouped(Append(b \o q, y)) = Group(Grouped(b \o q), y)
    BY <2>8, <2>9, GroupedLast
  <2>7. Grouped(a \o Prefix(c, k + 1)) = Grouped(b \o Prefix(d, k + 1))
    BY <2>2, <2>3, <2>4, <2>5, <2>6, <2>8, <2>9, <2>10 DEF Group
  <2> QED BY <2>1, <2>7
<1>4. n \in K
  <2> HIDE DEF K, n
  <2>1. 0 .. n \subseteq K
    BY <1>1, <1>2, <1>3, UpTo
  <2> QED BY <1>1, <2>1
<1>5. Prefix(c, n) = c /\ Prefix(d, n) = d
  <2>1. Prefix(c, Len(c)) = c
    BY PrefixEnds
  <2>2. Prefix(d, Len(d)) = d
    BY PrefixEnds
  <2> QED BY <1>1, <2>1, <2>2
<1> QED BY <1>4, <1>5

Wording(t) == Message(t.role, t.items, <<>>, t.calls, None)
SaidMessages ==
  [role : Roles, content : Seq(Items), parts : {<<>>}, calls : Seq(CallIds),
   result : CallIds \cup {None}]

\* The messages of a turn: its results, and then the rest unless there is none.
Shaped(seg, t) ==
  LET k == Len(t.results) IN
  /\ Len(seg) \in {k, k + 1}
  /\ \A i \in 1 .. k : AsTurn(seg[i]) = AsTurn(Outcome(t.results[i]))
  /\ IF Len(seg) = k THEN t.items = <<>> /\ t.calls = <<>>
     ELSE AsTurn(seg[k + 1]) = AsTurn(Wording(t))

\* What is spoken in a turn: its results and then its wording.
LEMMA SpokenType ==
  ASSUME NEW t \in Turns
  PROVE  /\ TypedMessages(SaidMessages)
         /\ [i \in DOMAIN t.results |-> Outcome(t.results[i])] \in Seq(SaidMessages)
         /\ Len([i \in DOMAIN t.results |-> Outcome(t.results[i])]) = Len(t.results)
         /\ Wording(t) \in SaidMessages
         /\ Spoken(t) = Append([i \in DOMAIN t.results |-> Outcome(t.results[i])], Wording(t))
         /\ Spoken(t) \in Seq(SaidMessages)
<1> DEFINE tools == [i \in DOMAIN t.results |-> Outcome(t.results[i])]
<1>0. /\ t.results \in Seq(Results) /\ t.items \in Seq(Items) /\ t.calls \in Seq(CallIds)
      /\ t.role \in {"user", "assistant"}
  BY DEF Turns
<1>1. TypedMessages(SaidMessages)
  BY DEF TypedMessages, SaidMessages
<1>2. Wording(t) \in SaidMessages
  BY <1>0 DEF Wording, Message, SaidMessages, Roles
<1>3. \A r \in Results : Outcome(r) \in SaidMessages
  BY DEF Results, Outcome, ToolMessage, Message, SaidMessages, Roles
<1>4. tools \in Seq(SaidMessages) /\ Len(tools) = Len(t.results)
  <2>1. DOMAIN t.results = 1 .. Len(t.results) /\ Len(t.results) \in Nat
    BY <1>0
  <2>2. \A i \in 1 .. Len(t.results) : Outcome(t.results[i]) \in SaidMessages
    BY <1>0, <1>3
  <2> QED BY <2>1, <2>2
<1>5. Spoken(t) = tools \o <<Wording(t)>>
  BY DEF Spoken, Wording
<1> HIDE DEF tools
<1>6. tools \o <<Wording(t)>> = Append(tools, Wording(t))
  BY <1>2, <1>4
<1>7. Append(tools, Wording(t)) \in Seq(SaidMessages)
  BY <1>2, <1>4
<1> QED BY <1>1, <1>2, <1>4, <1>5, <1>6, <1>7 DEF tools

\* A turn shaped like it is spoken says what is spoken.
LEMMA ThenTurn ==
  ASSUME NEW M, TypedMessages(M), NEW a \in Seq(M), NEW b \in Seq(SaidMessages),
         Grouped(a) = Grouped(b), NEW t \in Turns, NEW seg \in Seq(M), Shaped(seg, t)
  PROVE  Grouped(a \o seg) = Grouped(b \o Spoken(t))
<1> DEFINE k == Len(t.results)
           tools == [i \in DOMAIN t.results |-> Outcome(t.results[i])]
           w == Wording(t)
<1>0. /\ k \in Nat /\ DOMAIN t.results = 1 .. k
      /\ \A i \in 1 .. k : tools[i] = Outcome(t.results[i])
  BY DEF Turns
<1>1. /\ TypedMessages(SaidMessages) /\ tools \in Seq(SaidMessages) /\ Len(tools) = k
      /\ w \in SaidMessages /\ Spoken(t) = Append(tools, w) /\ Spoken(t) \in Seq(SaidMessages)
  BY SpokenType
<1>2. /\ Len(seg) \in {k, k + 1}
      /\ \A i \in 1 .. k : AsTurn(seg[i]) = AsTurn(tools[i])
      /\ IF Len(seg) = k THEN t.items = <<>> /\ t.calls = <<>>
         ELSE AsTurn(seg[k + 1]) = AsTurn(w)
  BY <1>0 DEF Shaped
<1>3. CASE Len(seg) = k
  <2>1. SameTurns(seg, tools)
    <3> HIDE DEF tools
    <3> QED BY <1>1, <1>2, <1>3 DEF SameTurns
  <2>2. Grouped(a \o seg) = Grouped(b \o tools)
    <3> HIDE DEF tools
    <3> QED BY <1>1, <2>1, GroupedAfter
  <2>3. Silent(AsTurn(w))
    BY <1>2, <1>3 DEF Silent, AsTurn, Wording, Message
  <2> HIDE DEF tools, w
  <2>4. b \o Append(tools, w) = Append(b \o tools, w) /\ b \o tools \in Seq(SaidMessages)
    BY <1>1, ConcatAppend
  <2>5. Grouped(Append(b \o tools, w)) = Group(Grouped(b \o tools), w)
    BY <1>1, <2>4, GroupedLast
  <2>6. Group(Grouped(b \o tools), w) = Grouped(b \o tools)
    BY <2>3, PutSilent DEF Group
  <2> QED BY <1>1, <2>2, <2>4, <2>5, <2>6
<1>4. CASE Len(seg) # k
  <2> HIDE DEF tools, w
  <2>1. SameTurns(seg, Spoken(t))
    <3> DEFINE s == Spoken(t)
    <3>1. s \in Seq(SaidMessages) /\ Len(s) = k + 1 /\ s[k + 1] = w
      BY <1>0, <1>1
    <3>2. \A i \in 1 .. k : s[i] = tools[i]
      BY <1>0, <1>1
    <3>3. Len(seg) = k + 1 /\ AsTurn(seg[k + 1]) = AsTurn(w)
      BY <1>2, <1>4
    <3> HIDE DEF s
    <3>4. ASSUME NEW i \in 1 .. k + 1 PROVE AsTurn(seg[i]) = AsTurn(s[i])
      <4>1. CASE i = k + 1
        BY <3>1, <3>3, <4>1
      <4>2. CASE i # k + 1
        <5>1. i \in 1 .. k
          BY <1>0, <4>2
        <5> QED BY <1>2, <3>2, <5>1
      <4> QED BY <4>1, <4>2
    <3>5. SameTurns(seg, s)
      BY <3>1, <3>3, <3>4 DEF SameTurns
    <3> QED BY <3>5 DEF s
  <2> DEFINE s == Spoken(t)
             N == SaidMessages
  <2>2. SameTurns(seg, s) /\ s \in Seq(N) /\ TypedMessages(N) /\ b \in Seq(N)
    BY <1>1, <2>1
  <2> HIDE DEF s, N
  <2>3. Grouped(a \o seg) = Grouped(b \o s)
    BY <2>2, GroupedAfter
  <2> QED BY <2>3 DEF s
<1> QED BY <1>3, <1>4

\* Every result directly follows its call.
Following(msgs) ==
  \A i \in 1 .. Len(msgs) :
    msgs[i].role = "tool" => \E j \in 1 .. i - 1 : AnswersCall(msgs, j, i)

\* The calls the last message makes.
Makes(msgs, calls) == msgs # <<>> /\ msgs[Len(msgs)].calls = calls

\* The roles, results and calls in the messages of a turn.
LEMMA ShapedFields ==
  ASSUME NEW t \in Turns, NEW seg, Shaped(seg, t)
  PROVE  /\ \A i \in 1 .. Len(t.results) :
              seg[i].role = "tool" /\ seg[i].result = t.results[i].call
         /\ Len(seg) # Len(t.results) =>
              /\ seg[Len(t.results) + 1].role = t.role
              /\ seg[Len(t.results) + 1].calls = t.calls
<1> DEFINE k == Len(t.results)
<1>1. ASSUME NEW i \in 1 .. k
      PROVE  seg[i].role = "tool" /\ seg[i].result = t.results[i].call
  <2> DEFINE r == t.results[i]
             x == [call |-> seg[i].result, output |-> seg[i].content]
  <2>0. r \in Results
    BY DEF Turns
  <2>1. r = [call |-> r.call, output |-> r.output] /\ r.call # None
    BY <2>0, NoneAssumption DEF Results
  <2>2. AsTurn(seg[i]) = AsTurn(Outcome(r))
    BY DEF Shaped
  <2> HIDE DEF r
  <2>3. /\ Outcome(r).role = "tool" /\ Outcome(r).result = r.call
        /\ Outcome(r).content = r.output
    BY DEF Outcome, ToolMessage, Message
  <2>4. AsTurn(seg[i]).role = "tool" /\ AsTurn(seg[i]).results = <<r>>
    BY <2>1, <2>2, <2>3 DEF AsTurn
  <2>5. (IF seg[i].result = None THEN <<>> ELSE <<x>>) = <<r>>
    BY <2>4 DEF AsTurn
  <2>6. x = r
    <3> HIDE DEF x
    <3> QED BY <2>5
  <2>7. seg[i].result = r.call
    BY <2>6
  <2> QED BY <2>4, <2>7 DEF AsTurn, r
<1>2. ASSUME Len(seg) # k PROVE seg[k + 1].role = t.role /\ seg[k + 1].calls = t.calls
  <2>1. AsTurn(seg[k + 1]) = AsTurn(Wording(t))
    BY <1>2 DEF Shaped
  <2>2. AsTurn(seg[k + 1]).role = t.role /\ AsTurn(seg[k + 1]).calls = t.calls
    BY <2>1 DEF AsTurn, Wording, Message
  <2> QED BY <2>2 DEF AsTurn
<1> QED BY <1>1, <1>2

\* A turn after the one whose calls it answers.
LEMMA FollowingTurn ==
  ASSUME NEW M, NEW a \in Seq(M), Following(a), NEW t \in Turns,
         NEW seg \in Seq(M), Shaped(seg, t),
         NEW calls, t.results # <<>> => Makes(a, calls) /\ CallsOf(t.results) \subseteq ToSet(calls)
  PROVE  /\ Following(a \o seg)
         /\ t.calls # <<>> => Makes(a \o seg, t.calls)
<1> DEFINE k == Len(t.results)
           n == Len(a)
           c == a \o seg
<1>0. /\ k \in Nat /\ n \in Nat /\ t.results \in Seq(Results) /\ DOMAIN t.results = 1 .. k
      /\ t.role # "tool"
  BY DEF Turns
<1>1. /\ c \in Seq(M) /\ Len(c) = n + Len(seg)
      /\ \A i \in 1 .. n : c[i] = a[i]
      /\ \A i \in 1 .. Len(seg) : c[n + i] = seg[i]
  <2>1. c \in Seq(M) /\ Len(c) = n + Len(seg)
    OBVIOUS
  <2>2. \A i \in 1 .. n : c[i] = a[i]
    OBVIOUS
  <2>3. \A i \in 1 .. Len(seg) : c[n + i] = seg[i]
    OBVIOUS
  <2> QED BY <2>1, <2>2, <2>3
<1>2. /\ Len(seg) \in {k, k + 1}
      /\ Len(seg) = k => t.calls = <<>>
      /\ \A i \in 1 .. k : seg[i].role = "tool" /\ seg[i].result = t.results[i].call
      /\ Len(seg) # k => seg[k + 1].role = t.role /\ seg[k + 1].calls = t.calls
  <2>1. /\ Len(seg) \in {k, k + 1}
        /\ Len(seg) = k => t.calls = <<>>
    BY DEF Shaped
  <2> QED BY <2>1, ShapedFields
<1> HIDE DEF c, k, n
<1>3. ASSUME NEW i \in 1 .. Len(c), c[i].role = "tool"
      PROVE  \E j \in 1 .. i - 1 : AnswersCall(c, j, i)
  <2>1. CASE i <= n
    <3>1. i \in 1 .. n /\ a[i].role = "tool"
      BY <1>0, <1>1, <1>3, <2>1
    <3>2. PICK j \in 1 .. i - 1 : AnswersCall(a, j, i)
      BY <3>1 DEF Following, n
    <3>3. \A l \in 1 .. i : c[l] = a[l]
      BY <1>0, <1>1, <3>1
    <3>4. AnswersCall(c, j, i)
      <4>0. i \in 1 .. i /\ j \in 1 .. i
        BY <1>0, <3>1
      <4>1. c[i] = a[i] /\ c[j] = a[j]
        BY <3>3, <4>0
      <4>2. \A l \in j + 1 .. i - 1 : c[l] = a[l]
        BY <3>3
      <4> QED BY <3>2, <4>1, <4>2 DEF AnswersCall
    <3> QED BY <3>4
  <2>2. CASE i > n
    <3> DEFINE h == i - n
    <3>1. h \in 1 .. Len(seg) /\ n + h = i
      BY <1>0, <1>1, <1>2, <2>2
    <3>2. c[i] = seg[h]
      BY <1>1, <3>1
    <3>3. h \in 1 .. k
      BY <1>0, <1>2, <1>3, <3>1, <3>2
    <3>9. c[i].result = t.results[h].call
      BY <1>2, <3>2, <3>3
    <3>10. t.results[h].call \in CallsOf(t.results)
      <4> HIDE DEF h
      <4> QED BY <1>0, <3>3 DEF CallsOf, ToSet
    <3>11. t.results # <<>>
      <4>1. k # 0
        BY <1>0, <3>3
      <4> QED BY <4>1 DEF k
    <3>4. Makes(a, calls) /\ CallsOf(t.results) \subseteq ToSet(calls)
      BY <3>11
    <3>5. n \in 1 .. i - 1 /\ c[n].calls = calls
      <4>1. n # 0 /\ a[n].calls = calls
        BY <3>4 DEF Makes, n
      <4>2. n \in 1 .. n /\ n \in 1 .. i - 1
        BY <1>0, <2>2, <4>1
      <4> QED BY <1>1, <4>1, <4>2
    <3>6. ASSUME NEW l \in n + 1 .. i - 1 PROVE c[l].role = "tool"
      <4> DEFINE o == l - n
      <4>1. o \in 1 .. k /\ o \in 1 .. Len(seg) /\ n + o = l
        BY <1>0, <1>2, <3>1, <3>3
      <4> HIDE DEF o
      <4>2. c[l] = seg[o]
        BY <1>1, <4>1
      <4> QED BY <1>2, <4>1, <4>2
    <3>7. c[i].result \in ToSet(c[n].calls)
      BY <3>4, <3>5, <3>9, <3>10
    <3>8. AnswersCall(c, n, i)
      BY <3>6, <3>7 DEF AnswersCall
    <3> QED BY <3>5, <3>8
  <2> QED BY <1>0, <2>1, <2>2
<1>4. ASSUME t.calls # <<>> PROVE Makes(c, t.calls)
  <2>1. Len(seg) = k + 1 /\ Len(c) = n + (k + 1)
    BY <1>1, <1>2, <1>4
  <2>2. c[n + (k + 1)] = seg[k + 1]
    BY <1>0, <1>1, <2>1
  <2>3. c # <<>>
    BY <1>0, <1>1, <2>1
  <2> QED BY <1>0, <1>2, <2>1, <2>2, <2>3 DEF Makes
<1> QED BY <1>3, <1>4 DEF Following, c

Segments(M, segs, turns) ==
  /\ segs \in Seq(Seq(M)) /\ Len(segs) = Len(turns)
  /\ \A i \in 1 .. Len(turns) : Shaped(segs[i], turns[i])
SpokenTurns(turns) == [i \in DOMAIN turns |-> Spoken(turns[i])]

\* The conversation up to a turn: what the messages say and that results follow calls.
SaidUpTo(M, a, b, segs, turns, k) ==
  LET f == FlattenSeq(Prefix(segs, k))
      g == FlattenSeq(Prefix(SpokenTurns(turns), k))
  IN /\ f \in Seq(M) /\ g \in Seq(SaidMessages)
     /\ Grouped(a \o f) = Grouped(b \o g)
     /\ Following(f)
     /\ k > 0 /\ turns[k].calls # <<>> => Makes(f, turns[k].calls)

\* What is spoken in all turns.
LEMMA SpokenTurnsType ==
  ASSUME NEW turns \in Seq(Turns)
  PROVE  /\ SpokenTurns(turns) \in Seq(Seq(SaidMessages))
         /\ Len(SpokenTurns(turns)) = Len(turns)
<1>1. DOMAIN turns = 1 .. Len(turns) /\ Len(turns) \in Nat
      /\ \A i \in 1 .. Len(turns) : turns[i] \in Turns
  OBVIOUS
<1>2. \A i \in 1 .. Len(turns) : Spoken(turns[i]) \in Seq(SaidMessages)
  BY <1>1, SpokenType
<1> QED BY <1>1, <1>2 DEF SpokenTurns

\* The step of the induction over the turns.
LEMMA SaidNext ==
  ASSUME NEW M, TypedMessages(M), NEW a \in Seq(M), NEW b \in Seq(SaidMessages),
         NEW turns, IsConversation(turns), NEW segs, Segments(M, segs, turns),
         NEW k \in 0 .. Len(turns) - 1, SaidUpTo(M, a, b, segs, turns, k)
  PROVE  SaidUpTo(M, a, b, segs, turns, k + 1)
<1> DEFINE sp == SpokenTurns(turns)
           f == FlattenSeq(Prefix(segs, k))
           g == FlattenSeq(Prefix(sp, k))
           seg == segs[k + 1]
           t == turns[k + 1]
           calls == turns[k].calls
<1>1. /\ f \in Seq(M) /\ g \in Seq(SaidMessages) /\ Grouped(a \o f) = Grouped(b \o g)
      /\ Following(f)
      /\ k > 0 /\ calls # <<>> => Makes(f, calls)
  BY DEF SaidUpTo
<1>2. /\ Len(turns) \in Nat /\ turns \in Seq(Turns) /\ DOMAIN turns = 1 .. Len(turns)
      /\ k \in Nat /\ k + 1 \in 1 .. Len(turns)
  BY DEF IsConversation
<1>3. t \in Turns /\ Shaped(seg, t)
  BY <1>2 DEF Segments
<1>4. sp \in Seq(Seq(SaidMessages)) /\ Len(sp) = Len(turns)
  BY <1>2, SpokenTurnsType
<1>5. sp[k + 1] = Spoken(t)
  BY <1>2 DEF SpokenTurns
<1>6. segs \in Seq(Seq(M)) /\ Len(segs) = Len(turns)
  BY DEF Segments
<1>7. t.results # <<>> => k > 0 /\ Makes(f, calls) /\ CallsOf(t.results) \subseteq ToSet(calls)
  <2> SUFFICES ASSUME t.results # <<>>
               PROVE  k > 0 /\ Makes(f, calls) /\ CallsOf(t.results) \subseteq ToSet(calls)
    OBVIOUS
  <2> DEFINE l == k + 1
  <2>0. l \in DOMAIN turns /\ turns[l].results # <<>> /\ l - 1 = k
    BY <1>2
  <2>1. l > 1 /\ CallsOf(turns[l].results) \subseteq ToSet(turns[l - 1].calls)
    <3> HIDE DEF l
    <3> QED BY <2>0 DEF IsConversation
  <2>2. k > 0 /\ CallsOf(t.results) \subseteq ToSet(calls)
    BY <1>2, <2>0, <2>1
  <2>3. calls # <<>>
    <3>1. t.results \in Seq(Results)
      BY <1>3 DEF Turns
    <3>2. 1 \in DOMAIN t.results
      BY <3>1
    <3>3. t.results[1].call \in ToSet(calls)
      BY <2>2, <3>2 DEF CallsOf, ToSet
    <3>4. calls = <<>> => ToSet(calls) = {}
      BY DEF ToSet
    <3> QED BY <3>3, <3>4
  <2> QED BY <1>1, <2>2, <2>3
<1> HIDE DEF sp, f, g, seg, t, calls
<1>8. /\ Prefix(segs, k) \in Seq(Seq(M)) /\ seg \in Seq(M)
      /\ Prefix(segs, k + 1) = Append(Prefix(segs, k), seg)
  <2>1. k \in 0 .. Len(segs) - 1
    BY <1>6
  <2> QED BY <1>6, <2>1, PrefixNext DEF seg
<1>9. /\ Prefix(sp, k) \in Seq(Seq(SaidMessages)) /\ Spoken(t) \in Seq(SaidMessages)
      /\ Prefix(sp, k + 1) = Append(Prefix(sp, k), Spoken(t))
  <2>1. k \in 0 .. Len(sp) - 1
    BY <1>4
  <2>2. /\ Prefix(sp, k) \in Seq(Seq(SaidMessages)) /\ sp[k + 1] \in Seq(SaidMessages)
        /\ Prefix(sp, k + 1) = Append(Prefix(sp, k), sp[k + 1])
    BY <1>4, <2>1, PrefixNext
  <2> QED BY <1>5, <2>2
<1>10. FlattenSeq(Prefix(segs, k + 1)) = f \o seg
  BY <1>8, Flattened DEF f
<1>11. FlattenSeq(Prefix(sp, k + 1)) = g \o Spoken(t)
  BY <1>9, Flattened DEF g
<1>12. f \o seg \in Seq(M) /\ (a \o f) \o seg = a \o (f \o seg) /\ a \o f \in Seq(M)
  <2>1. f \o seg \in Seq(M) /\ a \o f \in Seq(M)
    <3>1. f \in Seq(M) /\ a \in Seq(M) /\ seg \in Seq(M)
      BY <1>1, <1>8
    <3> QED BY <3>1, ConcatProperties
  <2>3. f \in Seq(M) /\ seg \in Seq(M)
    BY <1>1, <1>8
  <2>2. (a \o f) \o seg = a \o (f \o seg)
    <3>1. a \in Seq(M)
      OBVIOUS
    <3> QED BY <2>3, <3>1, ConcatAssociative, SMTT(60)
  <2> QED BY <2>1, <2>2, Zenon
<1>13. /\ g \o Spoken(t) \in Seq(SaidMessages) /\ b \o g \in Seq(SaidMessages)
       /\ (b \o g) \o Spoken(t) = b \o (g \o Spoken(t))
  <2> DEFINE s == Spoken(t)
  <2>1. s \in Seq(SaidMessages)
    BY <1>9
  <2> HIDE DEF s
  <2>2. g \o s \in Seq(SaidMessages) /\ b \o g \in Seq(SaidMessages)
    <3>1. g \in Seq(SaidMessages) /\ b \in Seq(SaidMessages)
      BY <1>1
    <3> QED BY <2>1, <3>1, ConcatProperties
  <2>3. (b \o g) \o s = b \o (g \o s)
    <3>1. g \in Seq(SaidMessages) /\ b \in Seq(SaidMessages)
      BY <1>1
    <3> QED BY <2>1, <3>1, ConcatAssociative, SMTT(60)
  <2> QED BY <2>2, <2>3 DEF s
<1>14. Grouped((a \o f) \o seg) = Grouped((b \o g) \o Spoken(t))
  <2> DEFINE x == a \o f
             y == b \o g
  <2>1. x \in Seq(M) /\ y \in Seq(SaidMessages) /\ Grouped(x) = Grouped(y)
    BY <1>1, <1>12, <1>13
  <2>2. t \in Turns /\ seg \in Seq(M) /\ Shaped(seg, t)
    BY <1>3, <1>8
  <2> HIDE DEF x, y
  <2>3. Grouped(x \o seg) = Grouped(y \o Spoken(t))
    BY <2>1, <2>2, ThenTurn
  <2> QED BY <2>3 DEF x, y
<1>15. Following(f \o seg) /\ (t.calls # <<>> => Makes(f \o seg, t.calls))
  BY <1>1, <1>3, <1>7, <1>8, FollowingTurn
<1> QED BY <1>10, <1>11, <1>12, <1>13, <1>14, <1>15 DEF SaidUpTo, sp, t

\* Messages shaped like the turns of a conversation say what is said in it.
LEMMA ConversationSaid ==
  ASSUME NEW M, TypedMessages(M), NEW a \in Seq(M), NEW b \in Seq(SaidMessages),
         Grouped(a) = Grouped(b),
         NEW turns, IsConversation(turns), NEW segs, Segments(M, segs, turns)
  PROVE  /\ FlattenSeq(segs) \in Seq(M) /\ Following(FlattenSeq(segs))
         /\ Grouped(a \o FlattenSeq(segs)) = Grouped(b \o FlattenSeq(SpokenTurns(turns)))
<1> DEFINE n == Len(turns)
           sp == SpokenTurns(turns)
           K == {k \in 0 .. n : SaidUpTo(M, a, b, segs, turns, k)}
<1>1. n \in Nat /\ sp \in Seq(Seq(SaidMessages)) /\ Len(sp) = n
      /\ segs \in Seq(Seq(M)) /\ Len(segs) = n
  <2>1. turns \in Seq(Turns)
    BY DEF IsConversation
  <2>2. n \in Nat
    BY <2>1
  <2> HIDE DEF n, sp
  <2> QED BY <2>1, <2>2, SpokenTurnsType DEF Segments, n, sp
<1>2. 0 \in K
  <2>1. Prefix(segs, 0) = <<>> /\ Prefix(sp, 0) = <<>>
    <3>1. Prefix(segs, 0) = <<>>
      BY <1>1, PrefixEnds
    <3>2. Prefix(sp, 0) = <<>>
      BY <1>1, PrefixEnds
    <3> QED BY <3>1, <3>2
  <2>2. FlattenSeq(<<>>) = <<>> /\ a \o <<>> = a /\ b \o <<>> = b
    BY DEF FlattenSeq
  <2>3. Following(<<>>) /\ <<>> \in Seq(M) /\ <<>> \in Seq(SaidMessages)
    BY DEF Following
  <2>5. FlattenSeq(Prefix(segs, 0)) = <<>> /\ FlattenSeq(Prefix(sp, 0)) = <<>>
    BY <2>1, <2>2
  <2>4. SaidUpTo(M, a, b, segs, turns, 0)
    <3> DEFINE f == FlattenSeq(Prefix(segs, 0))
               g == FlattenSeq(Prefix(SpokenTurns(turns), 0))
    <3>1. f = <<>> /\ g = <<>>
      BY <2>5
    <3> HIDE DEF f, g
    <3>2. Grouped(a \o f) = Grouped(b \o g)
      BY <2>2, <3>1
    <3>3. f \in Seq(M) /\ g \in Seq(SaidMessages) /\ Following(f)
      BY <2>3, <3>1
    <3>4. ~(0 > 0)
      OBVIOUS
    <3> HIDE DEF K
    <3> QED BY <3>2, <3>3, <3>4 DEF SaidUpTo, f, g
  <2> QED BY <1>1, <2>4
<1>3. ASSUME NEW k \in 0 .. n - 1, k \in K PROVE k + 1 \in K
  <2>1. SaidUpTo(M, a, b, segs, turns, k + 1)
    BY <1>3, SaidNext
  <2>2. k + 1 \in 0 .. n
    BY <1>1
  <2> QED BY <2>1, <2>2
<1>4. SaidUpTo(M, a, b, segs, turns, n)
  <2>1. n \in K
    <3> HIDE DEF K, n
    <3>1. 0 .. n \subseteq K
      BY <1>1, <1>2, <1>3, UpTo
    <3> QED BY <1>1, <3>1
  <2> QED BY <2>1
<1>5. Prefix(segs, n) = segs /\ Prefix(sp, n) = sp
  <2>1. Prefix(segs, Len(segs)) = segs
    BY <1>1, PrefixEnds
  <2>2. Prefix(sp, Len(sp)) = sp
    BY <1>1, PrefixEnds
  <2> QED BY <1>1, <2>1, <2>2
<1> QED BY <1>4, <1>5 DEF SaidUpTo

\* Before results there may be messages that are no results.
LEMMA FollowingAfter ==
  ASSUME NEW M, NEW a \in Seq(M), NEW b \in Seq(M),
         \A i \in 1 .. Len(a) : a[i].role # "tool", Following(b)
  PROVE  Following(a \o b)
<1> DEFINE n == Len(a)
           c == a \o b
<1>1. /\ n \in Nat /\ Len(b) \in Nat /\ Len(c) = n + Len(b)
      /\ \A i \in 1 .. n : c[i] = a[i]
      /\ \A i \in 1 .. Len(b) : c[n + i] = b[i]
  OBVIOUS
<1>0. \A i \in 1 .. n : c[i].role # "tool"
  BY <1>1
<1> HIDE DEF c, n
<1>2. ASSUME NEW i \in 1 .. Len(c), c[i].role = "tool"
      PROVE  \E j \in 1 .. i - 1 : AnswersCall(c, j, i)
  <2> DEFINE h == i - n
  <2>1. h \in 1 .. Len(b) /\ i = n + h
    BY <1>0, <1>1, <1>2
  <2>2. PICK j \in 1 .. h - 1 : AnswersCall(b, j, h)
    BY <1>1, <1>2, <2>1 DEF Following
  <2>3. n + j \in 1 .. i - 1 /\ j \in 1 .. Len(b)
    BY <1>1, <2>1
  <2>4. c[i] = b[h] /\ c[n + j] = b[j]
    BY <1>1, <2>1, <2>3
  <2>5. ASSUME NEW l \in n + j + 1 .. i - 1 PROVE c[l].role = "tool"
    <3> DEFINE o == l - n
    <3>1. o \in j + 1 .. h - 1 /\ o \in 1 .. Len(b) /\ n + o = l
      BY <1>1, <2>1, <2>3
    <3> HIDE DEF o
    <3>2. c[l] = b[o]
      BY <1>1, <3>1
    <3> QED BY <2>2, <3>1, <3>2 DEF AnswersCall
  <2>6. AnswersCall(c, n + j, i)
    BY <2>2, <2>4, <2>5 DEF AnswersCall
  <2> QED BY <2>3, <2>6
<1> QED BY <1>2 DEF Following, c

----------------------------------------------------------------------------
(* Choosing the elements of a sequence.                                     *)

\* What the elements of a sequence contribute, one after the other.
Gather(C, q) == FlattenSeq([k \in DOMAIN q |-> C[q[k]]])

Contributes(C, E, X) == C \in [E -> Seq(X)]
Grows(C, X, q, ev) ==
  /\ Gather(C, q) \in Seq(X) /\ Gather(C, <<>>) = <<>>
  /\ Gather(C, Append(q, ev)) = Gather(C, q) \o C[ev]

\* What the elements contribute, with one element more.
LEMMA Gathered ==
  ASSUME NEW E, NEW X, NEW C, Contributes(C, E, X), NEW q \in Seq(E), NEW ev \in E
  PROVE  Grows(C, X, q, ev)
<1> DEFINE ss == [k \in DOMAIN q |-> C[q[k]]]
           r == Append(q, ev)
           rr == [k \in DOMAIN r |-> C[r[k]]]
<1> USE DEF Contributes
<1>1. DOMAIN q = 1 .. Len(q) /\ Len(q) \in Nat /\ \A k \in 1 .. Len(q) : q[k] \in E
  OBVIOUS
<1>2. ss \in Seq(Seq(X)) /\ Len(ss) = Len(q)
  BY <1>1
<1>3. /\ DOMAIN r = 1 .. Len(q) + 1 /\ r[Len(q) + 1] = ev
      /\ \A k \in 1 .. Len(q) : r[k] = q[k]
  OBVIOUS
<1>4. C[ev] \in Seq(X)
  OBVIOUS
<1>5. rr = Append(ss, C[ev])
  <2>1. rr = [k \in 1 .. Len(q) + 1 |-> C[r[k]]]
    BY <1>3
  <2>2. Append(ss, C[ev]) = [k \in 1 .. Len(q) + 1 |-> IF k = Len(q) + 1 THEN C[ev] ELSE ss[k]]
    <3> HIDE DEF ss
    <3> QED BY <1>2, <1>4
  <2>3. ASSUME NEW k \in 1 .. Len(q) + 1
        PROVE  C[r[k]] = IF k = Len(q) + 1 THEN C[ev] ELSE ss[k]
    <3>1. CASE k = Len(q) + 1
      BY <1>3, <3>1
    <3>2. CASE k # Len(q) + 1
      BY <1>1, <1>3, <3>2
    <3> QED BY <3>1, <3>2
  <2> HIDE DEF ss, rr, r
  <2> QED BY <2>1, <2>2, <2>3
<1>6. FlattenSeq(ss) \in Seq(X) /\ FlattenSeq(Append(ss, C[ev])) = FlattenSeq(ss) \o C[ev]
  <2> HIDE DEF ss
  <2> QED BY <1>2, <1>4, Flattened
<1>7. Gather(C, <<>>) = <<>>
  <2>1. [k \in DOMAIN <<>> |-> C[<<>>[k]]] = <<>>
    OBVIOUS
  <2> QED BY <2>1 DEF Gather, FlattenSeq
<1> QED BY <1>5, <1>6, <1>7 DEF Gather, Grows

\* The elements of a sequence that are in a set.
Chosen(seq, T) == FlattenSeq([i \in DOMAIN seq |-> IF seq[i] \in T THEN <<seq[i]>> ELSE <<>>])
Choosing(E, T) == [x \in E |-> IF x \in T THEN <<x>> ELSE <<>>]

\* Choosing is gathering the chosen elements.
LEMMA ChosenGather ==
  ASSUME NEW E, NEW T, NEW seq \in Seq(E)
  PROVE  Chosen(seq, T) = Gather(Choosing(E, T), seq) /\ Contributes(Choosing(E, T), E, E \cap T)
<1> DEFINE C == Choosing(E, T)
<1>1. \A i \in DOMAIN seq : seq[i] \in E
  OBVIOUS
<1>2. \A x \in E : C[x] = IF x \in T THEN <<x>> ELSE <<>>
  BY DEF Choosing
<1>3. [i \in DOMAIN seq |-> C[seq[i]]]
       = [i \in DOMAIN seq |-> IF seq[i] \in T THEN <<seq[i]>> ELSE <<>>]
  <2> HIDE DEF C
  <2> QED BY <1>1, <1>2
<1>4. ASSUME NEW x \in E PROVE (IF x \in T THEN <<x>> ELSE <<>>) \in Seq(E \cap T)
  <2>1. CASE x \in T
    <3> DEFINE U == E \cap T
    <3>1. x \in U
      BY <2>1
    <3> HIDE DEF U
    <3>2. <<x>> \in Seq(U)
      BY <3>1
    <3> QED BY <2>1, <3>2 DEF U
  <2>2. CASE x \notin T
    BY <2>2
  <2> QED BY <2>1, <2>2
<1> QED BY <1>3, <1>4 DEF Chosen, Gather, Contributes, Choosing

ChosenNext(E, T, seq, x) ==
  /\ Chosen(seq, T) \in Seq(E \cap T) /\ Chosen(<<>>, T) = <<>>
  /\ x \in T => Chosen(Append(seq, x), T) = Append(Chosen(seq, T), x)
  /\ x \notin T => Chosen(Append(seq, x), T) = Chosen(seq, T)

\* Choosing from a sequence with one element more.
LEMMA ChosenLast ==
  ASSUME NEW E, NEW T, NEW seq \in Seq(E), NEW x \in E
  PROVE  ChosenNext(E, T, seq, x)
<1> DEFINE C == Choosing(E, T)
           U == E \cap T
           s == Append(seq, x)
<1>1. Contributes(C, E, U)
  BY ChosenGather
<1>2. Chosen(seq, T) = Gather(C, seq) /\ Chosen(<<>>, T) = Gather(C, <<>>)
  <2>1. Chosen(seq, T) = Gather(C, seq)
    BY ChosenGather
  <2>2. <<>> \in Seq(E)
    OBVIOUS
  <2>3. Chosen(<<>>, T) = Gather(C, <<>>)
    BY <2>2, ChosenGather
  <2> QED BY <2>1, <2>3
<1>3. Chosen(s, T) = Gather(C, s)
  <2>1. s \in Seq(E)
    OBVIOUS
  <2> HIDE DEF s
  <2> QED BY <2>1, ChosenGather
<1>4. C[x] = IF x \in T THEN <<x>> ELSE <<>>
  BY DEF Choosing
<1>5. Grows(C, U, seq, x)
  <2> HIDE DEF C, U
  <2> QED BY <1>1, Gathered
<1>6. /\ Gather(C, seq) \in Seq(U) /\ Gather(C, <<>>) = <<>>
      /\ Gather(C, s) = Gather(C, seq) \o C[x]
  BY <1>5 DEF Grows
<1>7. x \in T => Gather(C, s) = Append(Gather(C, seq), x)
  <2> SUFFICES ASSUME x \in T PROVE Gather(C, s) = Append(Gather(C, seq), x)
    OBVIOUS
  <2> DEFINE g == Gather(C, seq)
  <2>1. g \in Seq(U) /\ x \in U /\ Gather(C, s) = g \o <<x>>
    BY <1>4, <1>6
  <2> HIDE DEF g, U
  <2>2. g \o <<x>> = Append(g, x)
    BY <2>1
  <2> QED BY <2>1, <2>2 DEF g
<1>8. x \notin T => Gather(C, s) = Gather(C, seq)
  <2> SUFFICES ASSUME x \notin T PROVE Gather(C, s) = Gather(C, seq)
    OBVIOUS
  <2> DEFINE g == Gather(C, seq)
  <2>1. g \in Seq(U) /\ Gather(C, s) = g \o <<>>
    BY <1>4, <1>6
  <2> HIDE DEF g, U
  <2>2. g \o <<>> = g
    BY <2>1
  <2> QED BY <2>1, <2>2 DEF g
<1> HIDE DEF C
<1> QED BY <1>2, <1>3, <1>6, <1>7, <1>8 DEF ChosenNext

\* The last element is chosen,
LEMMA ChosenIn ==
  ASSUME NEW E, NEW T, NEW seq \in Seq(E), NEW x \in E, x \in T
  PROVE  Chosen(Append(seq, x), T) = Append(Chosen(seq, T), x)
<1>1. ChosenNext(E, T, seq, x)
  BY ChosenLast
<1> QED BY <1>1 DEF ChosenNext

\* or it is not.
LEMMA ChosenOut ==
  ASSUME NEW E, NEW T, NEW seq \in Seq(E), NEW x \in E, x \notin T
  PROVE  Chosen(Append(seq, x), T) = Chosen(seq, T)
<1>1. ChosenNext(E, T, seq, x)
  BY ChosenLast
<1> QED BY <1>1 DEF ChosenNext

\* There is nothing to choose from the empty sequence.
LEMMA ChosenEmpty == \A T : Chosen(<<>>, T) = <<>>
<1> TAKE T
<1>1. [i \in DOMAIN <<>> |-> IF <<>>[i] \in T THEN <<<<>>[i]>> ELSE <<>>] = <<>>
  OBVIOUS
<1> QED BY <1>1 DEF Chosen, FlattenSeq

\* The chosen elements are in the set.
LEMMA ChosenType ==
  ASSUME NEW E, NEW T, NEW q \in Seq(E)
  PROVE  Chosen(q, T) \in Seq(E \cap T)
<1>1. CASE E = {}
  <2>1. q = <<>>
    BY <1>1
  <2>2. Chosen(q, T) = <<>>
    BY <2>1, ChosenEmpty
  <2> QED BY <2>2
<1>2. CASE E # {}
  <2>1. PICK x \in E : TRUE
    BY <1>2
  <2> QED BY <2>1, ChosenLast DEF ChosenNext
<1> QED BY <1>1, <1>2

\* Choosing from two sequences, one after the other.
LEMMA ChosenConcat ==
  ASSUME NEW E, NEW T, NEW a \in Seq(E), NEW b \in Seq(E)
  PROVE  Chosen(a \o b, T) = Chosen(a, T) \o Chosen(b, T)
<1> DEFINE U == E \cap T
           K == {q \in Seq(E) : Chosen(a \o q, T) = Chosen(a, T) \o Chosen(q, T)}
<1>1. \A q \in Seq(E) : Chosen(q, T) \in Seq(U)
  BY ChosenType
<1>2. <<>> \in K
  <2>1. Chosen(<<>>, T) = <<>> /\ a \o <<>> = a
    BY ChosenEmpty
  <2> DEFINE c == Chosen(a, T)
  <2>2. c \in Seq(U)
    BY <1>1
  <2> HIDE DEF c, U
  <2>3. c \o <<>> = c
    BY <2>2
  <2>4. <<>> \in Seq(E)
    OBVIOUS
  <2> QED BY <2>1, <2>3, <2>4 DEF c
<1>3. ASSUME NEW q \in Seq(E), NEW x \in E, q \in K PROVE Append(q, x) \in K
  <2>1. a \o Append(q, x) = Append(a \o q, x) /\ a \o q \in Seq(E) /\ Append(q, x) \in Seq(E)
    <3>1. Append(q, x) \in Seq(E)
      OBVIOUS
    <3> QED BY <3>1, ConcatAppend
  <2> DEFINE c == Chosen(a, T)
             d == Chosen(q, T)
  <2>2. Chosen(a \o q, T) = c \o d
    BY <1>3
  <2>3. c \in Seq(U) /\ d \in Seq(U)
    BY <1>1
  <2>4. CASE x \in T
    <3>1. Chosen(Append(a \o q, x), T) = Append(c \o d, x)
      <4> DEFINE p == a \o q
      <4>1. p \in Seq(E)
        BY <2>1
      <4> HIDE DEF p
      <4>2. Chosen(Append(p, x), T) = Append(Chosen(p, T), x)
        BY <2>4, <4>1, ChosenIn
      <4> QED BY <2>2, <4>2 DEF p
    <3>2. Chosen(Append(q, x), T) = Append(d, x)
      BY <2>4, ChosenIn
    <3>3. x \in U
      BY <2>4
    <3> HIDE DEF c, d, U
    <3>4. c \o Append(d, x) = Append(c \o d, x)
      BY <2>3, <3>3, ConcatAppend
    <3>5. Chosen(a \o Append(q, x), T) = c \o Chosen(Append(q, x), T)
      BY <2>1, <3>1, <3>2, <3>4
    <3> QED BY <2>1, <3>5 DEF c
  <2>5. CASE x \notin T
    <3>1. Chosen(Append(a \o q, x), T) = c \o d
      BY <2>1, <2>2, <2>5, ChosenOut
    <3>2. Chosen(Append(q, x), T) = d
      BY <2>5, ChosenOut
    <3> QED BY <2>1, <3>1, <3>2
  <2> QED BY <2>4, <2>5
<1>4. b \in K
  <2> HIDE DEF K
  <2>1. \A q \in Seq(E), x \in E : q \in K => Append(q, x) \in K
    BY <1>3
  <2> QED BY <1>2, <2>1, ByAppending
<1> QED BY <1>4

\* All elements are chosen or none.
LEMMA ChosenAll ==
  ASSUME NEW E, NEW T, NEW seq \in Seq(E), E \subseteq T
  PROVE  Chosen(seq, T) = seq
<1> DEFINE K == {q \in Seq(E) : Chosen(q, T) = q}
<1>1. <<>> \in K
  BY ChosenEmpty
<1>2. ASSUME NEW q \in Seq(E), NEW x \in E, q \in K PROVE Append(q, x) \in K
  <2>1. Append(q, x) \in Seq(E) /\ x \in T /\ Chosen(q, T) = q
    BY <1>2
  <2>2. Chosen(Append(q, x), T) = Append(Chosen(q, T), x)
    BY <2>1, ChosenIn
  <2> QED BY <2>1, <2>2
<1>3. seq \in K
  <2> HIDE DEF K
  <2>1. \A q \in Seq(E), x \in E : q \in K => Append(q, x) \in K
    BY <1>2
  <2> QED BY <1>1, <2>1, ByAppending
<1> QED BY <1>3

\* None of the elements is in the set.
LEMMA ChosenNone ==
  ASSUME NEW E, NEW T, NEW seq \in Seq(E), E \cap T = {}
  PROVE  Chosen(seq, T) = <<>>
<1>1. Chosen(seq, T) \in Seq(E \cap T)
  BY ChosenType
<1>2. Chosen(seq, T) \in Seq({})
  BY <1>1
<1> QED BY <1>2

----------------------------------------------------------------------------
(* The Anthropic protocol.                                                 *)

BlockTypes == {"text", "image", "tool_result", "tool_use", "thinking"}
BlockContents == Items \cup CallIds \cup Results \cup {None}
BlockOf == [type : BlockTypes, of : BlockContents, cache : BOOLEAN]
Typed(types) == {b \in BlockOf : b.type \in types}
UpMessages ==
  [role : Roles, content : Seq(Items), parts : Seq([of : Seq(Items), cache : BOOLEAN]),
   calls : Seq(CallIds), result : CallIds \cup {None}]

\* The blocks are those of a sequence, but for cache markers.
SameBlocks(c, d) ==
  /\ Len(c) = Len(d)
  /\ \A i \in 1 .. Len(c) : c[i].type = d[i].type /\ c[i].of = d[i].of

\* One more block of the same type and content.
LEMMA SameAppend ==
  ASSUME NEW c \in Seq(BlockOf), NEW d \in Seq(BlockOf), SameBlocks(c, d),
         NEW x \in BlockOf, NEW y \in BlockOf, x.type = y.type, x.of = y.of
  PROVE  SameBlocks(Append(c, x), Append(d, y))
<1> DEFINE n == Len(c)
           p == Append(c, x)
           q == Append(d, y)
<1>1. /\ n \in Nat /\ Len(d) = n
      /\ \A i \in 1 .. n : c[i].type = d[i].type /\ c[i].of = d[i].of
  BY DEF SameBlocks
<1>2. Len(p) = n + 1 /\ Len(q) = n + 1 /\ p[n + 1] = x /\ q[n + 1] = y
  BY <1>1
<1>3. \A i \in 1 .. n : p[i] = c[i] /\ q[i] = d[i]
  BY <1>1
<1> HIDE DEF p, q, n
<1>4. ASSUME NEW i \in 1 .. n + 1 PROVE p[i].type = q[i].type /\ p[i].of = q[i].of
  <2>1. CASE i = n + 1
    BY <1>2, <2>1
  <2>2. CASE i # n + 1
    <3>1. i \in 1 .. n
      BY <1>1, <2>2
    <3> QED BY <1>1, <1>3, <3>1
  <2> QED BY <2>1, <2>2
<1>5. SameBlocks(p, q)
  BY <1>2, <1>4 DEF SameBlocks
<1> QED BY <1>5 DEF p, q

\* Markers make no difference to which blocks are chosen.
LEMMA ChosenSame ==
  ASSUME NEW c \in Seq(BlockOf), NEW d \in Seq(BlockOf), SameBlocks(c, d), NEW types
  PROVE  SameBlocks(Chosen(c, Typed(types)), Chosen(d, Typed(types)))
<1> DEFINE T == Typed(types)
           n == Len(c)
           Same(k) == SameBlocks(Chosen(Prefix(c, k), T), Chosen(Prefix(d, k), T))
           K == {k \in 0 .. n : Same(k)}
<1>1. n \in Nat /\ n = Len(d) /\ \A i \in 1 .. n : c[i].type = d[i].type /\ c[i].of = d[i].of
  BY DEF SameBlocks
<1>2. 0 \in K
  <2>1. Prefix(c, 0) = <<>> /\ Prefix(d, 0) = <<>>
    BY PrefixEnds
  <2>2. Chosen(<<>>, T) = <<>>
    BY ChosenEmpty
  <2>3. SameBlocks(<<>>, <<>>)
    BY DEF SameBlocks
  <2> HIDE DEF T
  <2> QED BY <1>1, <2>1, <2>2, <2>3
<1>3. ASSUME NEW k \in 0 .. n - 1, k \in K PROVE k + 1 \in K
  <2> DEFINE p == Prefix(c, k)
             q == Prefix(d, k)
             x == c[k + 1]
             y == d[k + 1]
  <2>1. k + 1 \in 1 .. n /\ k + 1 \in 0 .. n /\ k \in 0 .. Len(d) - 1 /\ k \in 0 .. Len(c) - 1
    BY <1>1
  <2>2. p \in Seq(BlockOf) /\ x \in BlockOf /\ Prefix(c, k + 1) = Append(p, x)
    BY <2>1, PrefixNext
  <2>3. q \in Seq(BlockOf) /\ y \in BlockOf /\ Prefix(d, k + 1) = Append(q, y)
    BY <2>1, PrefixNext
  <2>4. x.type = y.type /\ x.of = y.of
    BY <1>1, <2>1
  <2>5. SameBlocks(Chosen(p, T), Chosen(q, T))
    BY <1>3
  <2>6. x \in T <=> y \in T
    BY <2>2, <2>3, <2>4 DEF Typed
  <2> HIDE DEF p, q, x, y, T
  <2>7. Chosen(p, T) \in Seq(BlockOf) /\ Chosen(q, T) \in Seq(BlockOf)
    <3>1. Chosen(p, T) \in Seq(BlockOf \cap T)
      BY <2>2, ChosenType
    <3>2. Chosen(q, T) \in Seq(BlockOf \cap T)
      BY <2>3, ChosenType
    <3> QED BY <3>1, <3>2
  <2>8. CASE x \in T
    <3>1. Chosen(Append(p, x), T) = Append(Chosen(p, T), x)
      BY <2>2, <2>8, ChosenIn
    <3>2. Chosen(Append(q, y), T) = Append(Chosen(q, T), y)
      BY <2>3, <2>6, <2>8, ChosenIn
    <3>3. SameBlocks(Append(Chosen(p, T), x), Append(Chosen(q, T), y))
      <4> DEFINE u == Chosen(p, T)
                 v == Chosen(q, T)
      <4>1. u \in Seq(BlockOf) /\ v \in Seq(BlockOf) /\ SameBlocks(u, v)
        BY <2>5, <2>7
      <4> HIDE DEF u, v
      <4>2. SameBlocks(Append(u, x), Append(v, y))
        BY <2>2, <2>3, <2>4, <4>1, SameAppend
      <4> QED BY <4>2 DEF u, v
    <3> QED BY <2>1, <2>2, <2>3, <3>1, <3>2, <3>3
  <2>9. CASE x \notin T
    <3>1. Chosen(Append(p, x), T) = Chosen(p, T)
      BY <2>2, <2>9, ChosenOut
    <3>2. Chosen(Append(q, y), T) = Chosen(q, T)
      BY <2>3, <2>6, <2>9, ChosenOut
    <3> QED BY <2>1, <2>2, <2>3, <2>5, <3>1, <3>2
  <2> QED BY <2>8, <2>9
<1>4. n \in K
  <2> HIDE DEF K, n
  <2>1. 0 .. n \subseteq K
    BY <1>1, <1>2, <1>3, UpTo
  <2> QED BY <1>1, <2>1
<1>5. Prefix(c, n) = c /\ Prefix(d, n) = d
  <2>1. Prefix(c, Len(c)) = c
    BY PrefixEnds
  <2>2. Prefix(d, Len(d)) = d
    BY PrefixEnds
  <2> QED BY <1>1, <2>1, <2>2
<1> QED BY <1>4, <1>5

\* What the conversions take from blocks that are the same.
LEMMA SameOf ==
  ASSUME NEW c \in Seq(BlockOf), NEW E, NEW ofs \in Seq(E), Len(c) = Len(ofs),
         \A i \in 1 .. Len(c) : c[i].of = ofs[i]
  PROVE  Flat(c) = ofs /\ DOMAIN c = DOMAIN ofs
<1>1. DOMAIN c = 1 .. Len(c) /\ DOMAIN ofs = 1 .. Len(c)
  OBVIOUS
<1>2. Flat(c) = [i \in 1 .. Len(c) |-> c[i].of]
  BY <1>1 DEF Flat
<1>3. ofs = [i \in 1 .. Len(c) |-> ofs[i]]
  OBVIOUS
<1> QED BY <1>1, <1>2, <1>3

\* Blocks of one type.
LEMMA BlocksType ==
  ASSUME NEW type \in BlockTypes, NEW ofs \in Seq(BlockContents)
  PROVE  /\ Blocks(type, ofs) \in Seq(Typed({type})) /\ Len(Blocks(type, ofs)) = Len(ofs)
         /\ \A i \in 1 .. Len(ofs) : Blocks(type, ofs)[i].of = ofs[i]
<1> DEFINE x(i) == Block(type, ofs[i])
<1>1. DOMAIN ofs = 1 .. Len(ofs) /\ Len(ofs) \in Nat
  OBVIOUS
<1>2. ASSUME NEW i \in 1 .. Len(ofs) PROVE x(i) \in Typed({type}) /\ x(i).of = ofs[i]
  BY DEF Block, Typed, BlockOf
<1>3. Blocks(type, ofs) = [i \in 1 .. Len(ofs) |-> x(i)]
  BY <1>1 DEF Blocks
<1> HIDE DEF x
<1>4. Blocks(type, ofs) \in Seq(Typed({type})) /\ Len(Blocks(type, ofs)) = Len(ofs)
  <2> DEFINE T == Typed({type})
  <2>1. \A i \in 1 .. Len(ofs) : x(i) \in T
    BY <1>2
  <2> HIDE DEF T
  <2>2. [i \in 1 .. Len(ofs) |-> x(i)] \in Seq(T)
    BY <1>1, <2>1
  <2>3. Len([i \in 1 .. Len(ofs) |-> x(i)]) = Len(ofs)
    BY <1>1
  <2> QED BY <1>3, <2>2, <2>3 DEF T
<1>5. \A i \in 1 .. Len(ofs) : Blocks(type, ofs)[i].of = ofs[i]
  BY <1>2, <1>3
<1> QED BY <1>4, <1>5

\* The blocks of texts and images.
LEMMA ContentType ==
  ASSUME NEW items \in Seq(Items)
  PROVE  /\ Content(items) \in Seq(Typed({"text", "image"})) /\ Len(Content(items)) = Len(items)
         /\ \A i \in 1 .. Len(items) : Content(items)[i].of = items[i]
         /\ ~HasImage(items) => Content(items) \in Seq(Typed({"text"}))
<1> DEFINE x(i) == Block(IF items[i] \in Images THEN "image" ELSE "text", items[i])
<1>1. DOMAIN items = 1 .. Len(items) /\ Len(items) \in Nat
  OBVIOUS
<1>2. ASSUME NEW i \in 1 .. Len(items)
      PROVE  /\ x(i) \in Typed({"text", "image"}) /\ x(i).of = items[i]
             /\ ~HasImage(items) => x(i) \in Typed({"text"})
  <2>1. items[i] \in Items
    BY <1>1
  <2>2. x(i) \in Typed({"text", "image"}) /\ x(i).of = items[i]
    BY <2>1 DEF Block, Typed, BlockOf, BlockTypes, BlockContents
  <2>3. ASSUME ~HasImage(items) PROVE x(i) \in Typed({"text"})
    <3>1. items[i] \notin Images
      BY <1>1, <2>3 DEF HasImage
    <3> QED BY <2>1, <3>1 DEF Block, Typed, BlockOf, BlockTypes, BlockContents
  <2> QED BY <2>2, <2>3
<1>3. Content(items) = [i \in 1 .. Len(items) |-> x(i)]
  BY <1>1 DEF Content
<1> HIDE DEF x
<1>4. Content(items) \in Seq(Typed({"text", "image"})) /\ Len(Content(items)) = Len(items)
  BY <1>1, <1>2, <1>3
<1>5. \A i \in 1 .. Len(items) : Content(items)[i].of = items[i]
  BY <1>2, <1>3
<1>6. ~HasImage(items) => Content(items) \in Seq(Typed({"text"}))
  BY <1>1, <1>2, <1>3
<1> QED BY <1>4, <1>5, <1>6

\* Choosing from blocks that are all of other types, or of these.
LEMMA ChosenTypes ==
  ASSUME NEW types, NEW others, NEW c \in Seq(Typed(types))
  PROVE  /\ c \in Seq(BlockOf)
         /\ types \subseteq others => Chosen(c, Typed(others)) = c
         /\ types \cap others = {} => Chosen(c, Typed(others)) = <<>>
<1>1. Typed(types) \subseteq BlockOf
  BY DEF Typed
<1>2. c \in Seq(BlockOf)
  BY <1>1
<1>3. types \subseteq others => Chosen(c, Typed(others)) = c
  <2>1. types \subseteq others => Typed(types) \subseteq Typed(others)
    BY DEF Typed
  <2> QED BY <2>1, ChosenAll
<1>4. types \cap others = {} => Chosen(c, Typed(others)) = <<>>
  <2>1. types \cap others = {} => Typed(types) \cap Typed(others) = {}
    BY DEF Typed
  <2> QED BY <2>1, ChosenNone
<1> QED BY <1>2, <1>3, <1>4

\* A turn of a conversation.
GoodTurn(t) ==
  /\ t \in Turns
  /\ t.role = "user" => t.calls = <<>>
  /\ t.role = "assistant" => t.results = <<>> /\ ~HasImage(t.items)

\* The turns of a conversation are such turns.
LEMMA GoodTurns ==
  ASSUME NEW turns, IsConversation(turns)
  PROVE  /\ turns \in Seq(Turns) /\ \A i \in 1 .. Len(turns) : GoodTurn(turns[i])
         /\ Len(turns) \in Nat /\ DOMAIN turns = 1 .. Len(turns)
<1>1. turns \in Seq(Turns) /\ Len(turns) \in Nat /\ DOMAIN turns = 1 .. Len(turns)
  BY DEF IsConversation
<1>2. ASSUME NEW i \in 1 .. Len(turns) PROVE GoodTurn(turns[i])
  BY <1>1 DEF IsConversation, GoodTurn
<1> QED BY <1>1, <1>2

\* A fact about the blocks a client sends for a turn.
ClientBlocks(t, blocks) ==
  /\ blocks \in Seq(BlockOf)
  /\ SameBlocks(blocks, AnthropicTurn(t).blocks)

\* What blocks are of.
AreOf(part, ofs) == Len(part) = Len(ofs) /\ \A i \in 1 .. Len(ofs) : part[i].of = ofs[i]
Picked(blocks, types, ofs) ==
  /\ Chosen(blocks, Typed(types)) \in Seq(Typed(types))
  /\ Flat(Chosen(blocks, Typed(types))) = ofs
  /\ Len(Chosen(blocks, Typed(types))) = Len(ofs)

\* The blocks of one kind among those of a turn.
LEMMA ChosenFrom ==
  ASSUME NEW blocks \in Seq(BlockOf), NEW whole \in Seq(BlockOf), SameBlocks(blocks, whole),
         NEW types, NEW part, Chosen(whole, Typed(types)) = part,
         NEW E, NEW ofs \in Seq(E), AreOf(part, ofs)
  PROVE  Picked(blocks, types, ofs)
<1> DEFINE c == Chosen(blocks, Typed(types))
<1>1. SameBlocks(c, part)
  BY ChosenSame
<1>2. c \in Seq(Typed(types))
  <2>1. c \in Seq(BlockOf \cap Typed(types))
    BY ChosenType
  <2> DEFINE T == BlockOf \cap Typed(types)
  <2>2. T \subseteq Typed(types) /\ c \in Seq(T)
    BY <2>1
  <2> HIDE DEF c, T
  <2> QED BY <2>2
<1>3. c \in Seq(BlockOf)
  <2>1. Typed(types) \subseteq BlockOf
    BY DEF Typed
  <2> HIDE DEF c
  <2> QED BY <1>2, <2>1
<1> HIDE DEF c
<1>4. Len(c) = Len(ofs) /\ \A i \in 1 .. Len(c) : c[i].of = ofs[i]
  BY <1>1 DEF SameBlocks, AreOf
<1>5. Flat(c) = ofs
  BY <1>3, <1>4, SameOf
<1> QED BY <1>2, <1>4, <1>5 DEF c, Picked

\* Two kinds of blocks, one after the other.
Apart(c, d, types) ==
  /\ c \o d \in Seq(BlockOf) /\ d \o c \in Seq(BlockOf)
  /\ Chosen(c \o d, Typed(types)) = c /\ Chosen(d \o c, Typed(types)) = c

\* Choosing the blocks of one kind from two sequences of different kinds.
LEMMA ChosenOfTwo ==
  ASSUME NEW types, NEW others, NEW c \in Seq(Typed(types)), NEW d \in Seq(Typed(others)),
         types \cap others = {}
  PROVE  Apart(c, d, types)
<1>1. /\ c \in Seq(BlockOf) /\ d \in Seq(BlockOf)
      /\ Chosen(c, Typed(types)) = c /\ Chosen(d, Typed(types)) = <<>>
  <2>1. c \in Seq(BlockOf) /\ Chosen(c, Typed(types)) = c
    BY ChosenTypes
  <2>2. d \in Seq(BlockOf) /\ Chosen(d, Typed(types)) = <<>>
    BY ChosenTypes
  <2> QED BY <2>1, <2>2
<1>2. Chosen(c \o d, Typed(types)) = Chosen(c, Typed(types)) \o Chosen(d, Typed(types))
  BY <1>1, ChosenConcat
<1>3. Chosen(d \o c, Typed(types)) = Chosen(d, Typed(types)) \o Chosen(c, Typed(types))
  BY <1>1, ChosenConcat
<1>4. c \o <<>> = c /\ <<>> \o c = c /\ c \o d \in Seq(BlockOf) /\ d \o c \in Seq(BlockOf)
  BY <1>1
<1> QED BY <1>1, <1>2, <1>3, <1>4 DEF Apart

\* What is picked by type.
LEMMA ThoseTyped ==
  ASSUME NEW blocks \in Seq(BlockOf)
  PROVE  /\ Those(blocks, IsResult) = Chosen(blocks, Typed({"tool_result"}))
         /\ Those(blocks, LAMBDA b : ~IsResult(b))
              = Chosen(blocks, Typed(BlockTypes \ {"tool_result"}))
         /\ Those(blocks, IsContent) = Chosen(blocks, Typed({"text", "image"}))
         /\ Those(blocks, LAMBDA b : b.type = "text") = Chosen(blocks, Typed({"text"}))
         /\ Those(blocks, LAMBDA b : b.type = "tool_use") = Chosen(blocks, Typed({"tool_use"}))
<1>1. \A i \in DOMAIN blocks : blocks[i] \in BlockOf
  OBVIOUS
<1>2. \A types : \A i \in DOMAIN blocks : blocks[i] \in Typed(types) <=> blocks[i].type \in types
  BY <1>1 DEF Typed
<1>3. \A i \in DOMAIN blocks : blocks[i].type \in BlockTypes
  BY <1>1 DEF BlockOf
<1>4. Those(blocks, IsResult) = Chosen(blocks, Typed({"tool_result"}))
  <2> DEFINE T == Typed({"tool_result"})
  <2>1. \A i \in DOMAIN blocks : IsResult(blocks[i]) <=> blocks[i] \in T
    BY <1>2, <1>3 DEF IsResult, IsContent
  <2> HIDE DEF T
  <2>2. [i \in DOMAIN blocks |-> IF IsResult(blocks[i]) THEN <<blocks[i]>> ELSE <<>>]
         = [i \in DOMAIN blocks |-> IF blocks[i] \in T THEN <<blocks[i]>> ELSE <<>>]
    BY <2>1
  <2> QED BY <2>2 DEF Those, Chosen, T
<1>5. Those(blocks, LAMBDA b : ~IsResult(b))
        = Chosen(blocks, Typed(BlockTypes \ {"tool_result"}))
  <2> DEFINE T == Typed(BlockTypes \ {"tool_result"})
  <2>1. \A i \in DOMAIN blocks : ~IsResult(blocks[i]) <=> blocks[i] \in T
    BY <1>2, <1>3 DEF IsResult, IsContent
  <2> HIDE DEF T
  <2>2. [i \in DOMAIN blocks |-> IF ~IsResult(blocks[i]) THEN <<blocks[i]>> ELSE <<>>]
         = [i \in DOMAIN blocks |-> IF blocks[i] \in T THEN <<blocks[i]>> ELSE <<>>]
    BY <2>1
  <2> QED BY <2>2 DEF Those, Chosen, T
<1>6. Those(blocks, IsContent) = Chosen(blocks, Typed({"text", "image"}))
  <2> DEFINE T == Typed({"text", "image"})
  <2>1. \A i \in DOMAIN blocks : IsContent(blocks[i]) <=> blocks[i] \in T
    BY <1>2, <1>3 DEF IsResult, IsContent
  <2> HIDE DEF T
  <2>2. [i \in DOMAIN blocks |-> IF IsContent(blocks[i]) THEN <<blocks[i]>> ELSE <<>>]
         = [i \in DOMAIN blocks |-> IF blocks[i] \in T THEN <<blocks[i]>> ELSE <<>>]
    BY <2>1
  <2> QED BY <2>2 DEF Those, Chosen, T
<1>7. Those(blocks, LAMBDA b : b.type = "text") = Chosen(blocks, Typed({"text"}))
  <2> DEFINE T == Typed({"text"})
  <2>1. \A i \in DOMAIN blocks : (blocks[i].type = "text") <=> blocks[i] \in T
    BY <1>2, <1>3 DEF IsResult, IsContent
  <2> HIDE DEF T
  <2>2. [i \in DOMAIN blocks |-> IF blocks[i].type = "text" THEN <<blocks[i]>> ELSE <<>>]
         = [i \in DOMAIN blocks |-> IF blocks[i] \in T THEN <<blocks[i]>> ELSE <<>>]
    BY <2>1
  <2> QED BY <2>2 DEF Those, Chosen, T
<1>8. Those(blocks, LAMBDA b : b.type = "tool_use") = Chosen(blocks, Typed({"tool_use"}))
  <2> DEFINE T == Typed({"tool_use"})
  <2>1. \A i \in DOMAIN blocks : (blocks[i].type = "tool_use") <=> blocks[i] \in T
    BY <1>2, <1>3 DEF IsResult, IsContent
  <2> HIDE DEF T
  <2>2. [i \in DOMAIN blocks |-> IF blocks[i].type = "tool_use" THEN <<blocks[i]>> ELSE <<>>]
         = [i \in DOMAIN blocks |-> IF blocks[i] \in T THEN <<blocks[i]>> ELSE <<>>]
    BY <2>1
  <2> QED BY <2>2 DEF Those, Chosen, T
<1> QED BY <1>4, <1>5, <1>6, <1>7, <1>8

PartsSeq == Seq([of : Seq(Items), cache : BOOLEAN])

\* The structured parts of blocks.
LEMMA PartsType ==
  ASSUME NEW c \in Seq(BlockOf), Flat(c) \in Seq(Items)
  PROVE  Parts(c) \in PartsSeq
<1>1. DOMAIN c = 1 .. Len(c) /\ Len(c) \in Nat /\ \A i \in 1 .. Len(c) : c[i].cache \in BOOLEAN
  <2>1. \A i \in 1 .. Len(c) : c[i] \in BlockOf
    OBVIOUS
  <2> QED BY <2>1 DEF BlockOf
<1>2. Flat(c) = [i \in 1 .. Len(c) |-> c[i].of]
  BY <1>1 DEF Flat
<1>3. \A i \in 1 .. Len(c) : c[i].of \in Items
  <2>1. Len(Flat(c)) = Len(c)
    BY <1>1, <1>2
  <2>2. \A i \in 1 .. Len(c) : Flat(c)[i] \in Items /\ Flat(c)[i] = c[i].of
    BY <1>2, <2>1
  <2> QED BY <2>2
<1> DEFINE x(i) == Part(<<c[i].of>>, c[i].cache)
<1>4. ASSUME NEW i \in 1 .. Len(c) PROVE x(i) \in [of : Seq(Items), cache : BOOLEAN]
  <2>1. <<c[i].of>> \in Seq(Items)
    BY <1>3
  <2> QED BY <1>1, <2>1 DEF Part
<1>5. Parts(c) = [i \in 1 .. Len(c) |-> x(i)]
  BY <1>1 DEF Parts
<1> HIDE DEF x
<1> QED BY <1>1, <1>4, <1>5 DEF PartsSeq

\* The results of a turn, in a protocol.
ResultsOf(M, tools, t) ==
  /\ tools \in Seq(M) /\ Len(tools) = Len(t.results)
  /\ \A i \in 1 .. Len(t.results) : AsTurn(tools[i]) = AsTurn(Outcome(t.results[i]))

\* The messages of a turn that has nothing but results,
LEMMA ShapedWithout ==
  ASSUME NEW M, NEW t \in Turns, NEW tools, ResultsOf(M, tools, t),
         t.items = <<>>, t.calls = <<>>
  PROVE  Shaped(tools \o <<>>, t) /\ tools \o <<>> \in Seq(M)
<1>1. tools \in Seq(M) /\ tools \o <<>> = tools
  BY DEF ResultsOf
<1> QED BY <1>1 DEF ResultsOf, Shaped

\* and of a turn that has more.
LEMMA ShapedWith ==
  ASSUME NEW M, NEW t \in Turns, NEW tools, ResultsOf(M, tools, t),
         NEW m \in M, AsTurn(m) = AsTurn(Wording(t))
  PROVE  Shaped(tools \o <<m>>, t) /\ tools \o <<m>> \in Seq(M)
<1> DEFINE k == Len(t.results)
           s == tools \o <<m>>
<1>0. k \in Nat /\ tools \in Seq(M) /\ Len(tools) = k
  BY DEF ResultsOf, Turns
<1>1. s \in Seq(M) /\ Len(s) = k + 1 /\ s[k + 1] = m
  BY <1>0
<1>2. \A i \in 1 .. k : s[i] = tools[i]
  BY <1>0
<1>3. \A i \in 1 .. k : AsTurn(tools[i]) = AsTurn(Outcome(t.results[i]))
  BY DEF ResultsOf
<1> HIDE DEF s, k
<1>4. Shaped(s, t)
  <2>1. Len(s) \in {k, k + 1} /\ Len(s) # k
    BY <1>0, <1>1
  <2>2. \A i \in 1 .. k : AsTurn(s[i]) = AsTurn(Outcome(t.results[i]))
    BY <1>2, <1>3
  <2> QED BY <1>1, <2>1, <2>2 DEF Shaped, k
<1> QED BY <1>1, <1>4 DEF s

\* The results as upstream messages.
LEMMA ToolMessages ==
  ASSUME NEW t \in Turns
  PROVE  ResultsOf(UpMessages, [i \in DOMAIN t.results |-> Outcome(t.results[i])], t)
<1>1. t.results \in Seq(Results) /\ DOMAIN t.results = 1 .. Len(t.results) /\ Len(t.results) \in Nat
  BY DEF Turns
<1>2. ASSUME NEW i \in 1 .. Len(t.results) PROVE Outcome(t.results[i]) \in UpMessages
  <2>1. t.results[i] \in Results
    BY <1>1
  <2> QED BY <2>1 DEF Results, Outcome, ToolMessage, Message, UpMessages, Roles
<1> DEFINE x(i) == Outcome(t.results[i])
<1>3. [i \in 1 .. Len(t.results) |-> x(i)] \in Seq(UpMessages)
  <2>1. \A i \in 1 .. Len(t.results) : x(i) \in UpMessages
    BY <1>2
  <2> HIDE DEF x
  <2> QED BY <1>1, <2>1
<1>4. /\ Len([i \in 1 .. Len(t.results) |-> x(i)]) = Len(t.results)
      /\ \A i \in 1 .. Len(t.results) : [j \in 1 .. Len(t.results) |-> x(j)][i] = x(i)
  <2> HIDE DEF x
  <2> QED BY <1>1
<1>5. [i \in DOMAIN t.results |-> Outcome(t.results[i])] = [i \in 1 .. Len(t.results) |-> x(i)]
  BY <1>1
<1> QED BY <1>3, <1>4, <1>5 DEF ResultsOf

\* The type of sequences put one after the other.
LEMMA FlattenedType ==
  ASSUME NEW X, NEW ss \in Seq(Seq(X))
  PROVE  FlattenSeq(ss) \in Seq(X)
<1>1. <<>> \in Seq(X)
  OBVIOUS
<1> QED BY <1>1, Flattened

\* What is left of an output is what it is in words.
LEMMA OutputInWords ==
  ASSUME NEW o \in Seq(Items)
  PROVE  ToolResultText(o) = InWords(o) /\ InWords(o) \in Seq(Items)
<1> DEFINE x(i) == CASE o[i] \notin Images -> <<o[i]>>
                     [] o[i] \in Inline -> <<Omitted>>
                     [] OTHER -> <<>>
           w == [i \in DOMAIN o |-> Named(o[i])]
           y(i) == IF w[i] \notin Images THEN <<w[i]>> ELSE <<>>
           n == Len(o)
<1>1. n \in Nat /\ DOMAIN o = 1 .. n /\ DOMAIN w = DOMAIN o
      /\ \A i \in 1 .. n : o[i] \in Items
  OBVIOUS
<1>2. ASSUME NEW i \in 1 .. n PROVE x(i) = y(i) /\ x(i) \in Seq(Items)
  <2>1. o[i] \in Items /\ w[i] = Named(o[i])
    BY <1>1
  <2>2. CASE o[i] \notin Images
    <3>1. w[i] = o[i] /\ o[i] \notin Inline
      BY <2>1, <2>2, ImagesAssumption DEF Named
    <3> HIDE DEF w
    <3> QED BY <2>1, <2>2, <3>1
  <2>3. CASE o[i] \in Inline
    <3>1. w[i] = Omitted /\ Omitted \in Items \ Images /\ o[i] \in Images
      BY <2>1, <2>3, ImagesAssumption DEF Named
    <3> HIDE DEF w
    <3> QED BY <2>1, <2>3, <3>1
  <2>4. CASE o[i] \in Images /\ o[i] \notin Inline
    <3>1. w[i] = o[i]
      BY <2>1, <2>4 DEF Named
    <3> HIDE DEF w
    <3> QED BY <2>1, <2>4, <3>1
  <2> QED BY <2>2, <2>3, <2>4
<1>3. ToolResultText(o) = FlattenSeq([i \in 1 .. n |-> x(i)])
  BY <1>1 DEF ToolResultText
<1>4. InWords(o) = FlattenSeq([i \in 1 .. n |-> y(i)])
  BY <1>1 DEF InWords, TextsOf, Those
<1> HIDE DEF x, y, n
<1>5. [i \in 1 .. n |-> x(i)] = [i \in 1 .. n |-> y(i)]
  BY <1>2
<1>6. FlattenSeq([i \in 1 .. n |-> x(i)]) \in Seq(Items)
  <2>1. [i \in 1 .. n |-> x(i)] \in Seq(Seq(Items))
    <3> DEFINE T == Seq(Items)
    <3>1. \A i \in 1 .. n : x(i) \in T
      BY <1>2
    <3> HIDE DEF T
    <3>2. [i \in 1 .. n |-> x(i)] \in Seq(T)
      BY <1>1, <3>1
    <3> QED BY <3>2 DEF T
  <2> HIDE DEF x
  <2> QED BY <2>1, FlattenedType
<1> QED BY <1>3, <1>4, <1>5, <1>6

\* A turn as the service hears it from an Anthropic client.
LEMMA TurnHeard ==
  ASSUME NEW t, GoodTurn(t)
  PROVE  /\ GoodTurn(WithWords(t))
         /\ WithWords(t).role = t.role /\ WithWords(t).items = t.items
         /\ WithWords(t).calls = t.calls
         /\ WithWords(t).results \in Seq(Results)
         /\ Len(WithWords(t).results) = Len(t.results)
         /\ \A i \in 1 .. Len(t.results) :
              /\ WithWords(t).results[i]
                   = [call |-> t.results[i].call, output |-> InWords(t.results[i].output)]
              /\ t.results[i] \in Results
         /\ CallsOf(WithWords(t).results) = CallsOf(t.results)
<1> DEFINE k == Len(t.results)
           x(i) == [call |-> t.results[i].call, output |-> InWords(t.results[i].output)]
           rs == [i \in 1 .. k |-> x(i)]
           w == WithWords(t)
<1>1. /\ t \in Turns /\ k \in Nat /\ DOMAIN t.results = 1 .. k
      /\ \A i \in 1 .. k : t.results[i] \in Results
  BY DEF GoodTurn, Turns
<1>2. ASSUME NEW i \in 1 .. k PROVE x(i) \in Results /\ x(i).call = t.results[i].call
  <2>1. t.results[i].call \in CallIds /\ t.results[i].output \in Seq(Items)
    BY <1>1 DEF Results
  <2>2. InWords(t.results[i].output) \in Seq(Items)
    BY <2>1, OutputInWords
  <2> QED BY <2>1, <2>2 DEF Results
<1>3. w = [t EXCEPT !.results = rs]
  BY <1>1 DEF WithWords
<1> HIDE DEF x, w
<1>4. rs \in Seq(Results) /\ Len(rs) = k /\ DOMAIN rs = 1 .. k /\ \A i \in 1 .. k : rs[i] = x(i)
  <2> DEFINE T == Results
  <2>1. \A i \in 1 .. k : x(i) \in T
    BY <1>2
  <2> HIDE DEF T
  <2> QED BY <1>1, <2>1 DEF T
<1> HIDE DEF rs
<1>5. /\ w \in Turns /\ w.role = t.role /\ w.items = t.items /\ w.calls = t.calls
      /\ w.results = rs
  BY <1>1, <1>3, <1>4 DEF Turns
<1>6. CallsOf(rs) = CallsOf(t.results)
  <2>1. \A i \in 1 .. k : rs[i].call = t.results[i].call
    BY <1>2, <1>4
  <2>2. CallsOf(rs) = {rs[i].call : i \in 1 .. k}
    BY <1>4 DEF CallsOf, ToSet
  <2>3. CallsOf(t.results) = {t.results[i].call : i \in 1 .. k}
    BY <1>1 DEF CallsOf, ToSet
  <2> QED BY <2>1, <2>2, <2>3
<1>7. t.results = <<>> => rs = <<>>
  BY <1>4
<1>8. GoodTurn(w)
  BY <1>5, <1>7 DEF GoodTurn
<1> QED BY <1>1, <1>4, <1>5, <1>6, <1>8 DEF w, x

HeardTurns == [i \in DOMAIN request.turns |-> WithWords(request.turns[i])]

\* What the service hears is a conversation.
LEMMA ConversationHeard ==
  ASSUME IsConversation(request.turns)
  PROVE  /\ IsConversation(HeardTurns) /\ Len(HeardTurns) = Len(request.turns)
         /\ \A i \in 1 .. Len(request.turns) : HeardTurns[i] = WithWords(request.turns[i])
<1> DEFINE turns == request.turns
           n == Len(turns)
           h == HeardTurns
<1>1. n \in Nat /\ DOMAIN turns = 1 .. n /\ \A i \in 1 .. n : GoodTurn(turns[i])
  BY GoodTurns
<1>2. h = [i \in 1 .. n |-> WithWords(turns[i])]
  BY <1>1 DEF HeardTurns
<1>3. \A i \in 1 .. n : WithWords(turns[i]) \in Turns
  BY <1>1, TurnHeard DEF GoodTurn
<1>4. /\ h \in Seq(Turns) /\ Len(h) = n /\ DOMAIN h = 1 .. n
      /\ \A i \in 1 .. n : h[i] = WithWords(turns[i])
  BY <1>1, <1>2, <1>3
<1>5. /\ turns # <<>> => turns[1].role = "user"
      /\ \A i \in 1 .. n : turns[i].results # <<>> =>
           i > 1 /\ CallsOf(turns[i].results) \subseteq ToSet(turns[i - 1].calls)
  BY <1>1 DEF IsConversation
<1> HIDE DEF turns, n, h
<1>6. ASSUME NEW i \in 1 .. n
      PROVE  /\ GoodTurn(h[i]) /\ h[i].role = turns[i].role /\ h[i].calls = turns[i].calls
             /\ CallsOf(h[i].results) = CallsOf(turns[i].results)
             /\ h[i].results # <<>> => turns[i].results # <<>>
  <2> DEFINE t == turns[i]
  <2>1. GoodTurn(t) /\ h[i] = WithWords(t)
    BY <1>1, <1>4
  <2> HIDE DEF t
  <2>2. t.results = <<>> => WithWords(t).results = <<>>
    <3>1. WithWords(t).results \in Seq(Results) /\ Len(WithWords(t).results) = Len(t.results)
      BY <2>1, TurnHeard
    <3> QED BY <3>1
  <2> QED BY <2>1, <2>2, TurnHeard DEF t
<1>7. h # <<>> => h[1].role = "user"
  <2> SUFFICES ASSUME h # <<>> PROVE h[1].role = "user"
    OBVIOUS
  <2>1. 1 \in 1 .. n /\ turns # <<>>
    BY <1>1, <1>4
  <2> QED BY <1>5, <1>6, <2>1
<1>8. ASSUME NEW i \in DOMAIN h
      PROVE  /\ h[i].role = "user" => h[i].calls = <<>>
             /\ h[i].role = "assistant" => h[i].results = <<>> /\ ~HasImage(h[i].items)
             /\ h[i].results # <<>> =>
                  i > 1 /\ CallsOf(h[i].results) \subseteq ToSet(h[i - 1].calls)
  <2>1. i \in 1 .. n /\ GoodTurn(h[i])
    BY <1>4, <1>6
  <2>2. ASSUME h[i].results # <<>>
        PROVE  i > 1 /\ CallsOf(h[i].results) \subseteq ToSet(h[i - 1].calls)
    <3>1. i > 1 /\ CallsOf(turns[i].results) \subseteq ToSet(turns[i - 1].calls)
      BY <1>5, <1>6, <2>1, <2>2
    <3>2. i - 1 \in 1 .. n
      BY <1>1, <2>1, <3>1
    <3> QED BY <1>6, <2>1, <3>1, <3>2
  <2> QED BY <2>1, <2>2 DEF GoodTurn
<1>9. IsConversation(h)
  BY <1>4, <1>7, <1>8 DEF IsConversation
<1> QED BY <1>4, <1>9 DEF h, turns, n

\* The user's turn.
LEMMA UserShaped ==
  ASSUME NEW t, GoodTurn(t), t.role = "user", NEW blocks, ClientBlocks(t, blocks)
  PROVE  /\ UserMessages(blocks) \in Seq(UpMessages)
         /\ Shaped(UserMessages(blocks), WithWords(t))
<1> DEFINE RS == Blocks("tool_result", t.results)
           CS == Content(t.items)
           whole == AnthropicTurn(t).blocks
           TR == {"tool_result"}
           TN == BlockTypes \ {"tool_result"}
           TC == {"text", "image"}
           w == WithWords(t)
<1>0. /\ w \in Turns /\ w.items = t.items /\ w.calls = t.calls /\ w.role = "user"
      /\ Len(w.results) = Len(t.results) /\ DOMAIN w.results = 1 .. Len(t.results)
      /\ \A i \in 1 .. Len(t.results) :
           /\ t.results[i] \in Results
           /\ w.results[i]
                = [call |-> t.results[i].call, output |-> InWords(t.results[i].output)]
  <2>1. /\ GoodTurn(w) /\ w.role = t.role /\ w.items = t.items /\ w.calls = t.calls
        /\ w.results \in Seq(Results) /\ Len(w.results) = Len(t.results)
        /\ \A i \in 1 .. Len(t.results) :
             /\ w.results[i]
                  = [call |-> t.results[i].call, output |-> InWords(t.results[i].output)]
             /\ t.results[i] \in Results
    BY TurnHeard
  <2>2. w \in Turns /\ DOMAIN w.results = 1 .. Len(t.results)
    <3> HIDE DEF w
    <3> QED BY <2>1 DEF GoodTurn
  <2> QED BY <2>1, <2>2
<1>1. /\ t \in Turns /\ t.calls = <<>> /\ t.items \in Seq(Items) /\ t.results \in Seq(Results)
      /\ blocks \in Seq(BlockOf) /\ SameBlocks(blocks, whole)
  BY DEF GoodTurn, Turns, ClientBlocks
<1>2. RS \in Seq(Typed(TR)) /\ AreOf(RS, t.results)
  <2>1. t.results \in Seq(BlockContents)
    BY <1>1 DEF BlockContents
  <2> QED BY <2>1, BlocksType DEF BlockTypes, AreOf
<1>3. CS \in Seq(Typed(TC)) /\ AreOf(CS, t.items)
  BY <1>1, ContentType DEF AreOf
<1>4. CS \in Seq(Typed(TN))
  <2>1. Typed(TC) \subseteq Typed(TN)
    BY DEF Typed, BlockTypes
  <2> HIDE DEF CS, TC, TN
  <2> QED BY <1>3, <2>1
<1>5. whole = CS \o RS \/ whole = RS \o CS
  BY DEF AnthropicTurn
<1>6. /\ whole \in Seq(BlockOf) /\ Chosen(whole, Typed(TR)) = RS
  <2>1. TR \cap TN = {}
    OBVIOUS
  <2> HIDE DEF RS, CS, TR, TN, whole
  <2>2. Apart(RS, CS, TR)
    BY <1>2, <1>4, <2>1, ChosenOfTwo
  <2> QED BY <1>5, <2>2 DEF Apart
<1>7. Chosen(whole, Typed(TN)) = CS
  <2>1. TN \cap TR = {}
    OBVIOUS
  <2> HIDE DEF RS, CS, TR, TN, whole
  <2>2. Apart(CS, RS, TN)
    BY <1>2, <1>4, <2>1, ChosenOfTwo
  <2> QED BY <1>5, <2>2 DEF Apart
<1> DEFINE results == Chosen(blocks, Typed(TR))
           normal == Chosen(blocks, Typed(TN))
           content == Chosen(normal, Typed(TC))
<1> HIDE DEF RS, CS, TR, TN, TC, whole, w
<1>8. /\ results \in Seq(Typed(TR)) /\ Flat(results) = t.results
      /\ Len(results) = Len(t.results)
  <2>1. Picked(blocks, TR, t.results)
    BY <1>1, <1>2, <1>6, ChosenFrom
  <2> QED BY <2>1 DEF Picked
<1>9. /\ normal \in Seq(Typed(TN)) /\ Flat(normal) = t.items /\ Len(normal) = Len(t.items)
  <2>1. Picked(blocks, TN, t.items)
    BY <1>1, <1>3, <1>6, <1>7, ChosenFrom
  <2> QED BY <2>1 DEF Picked
<1>10. SameBlocks(normal, CS)
  BY <1>1, <1>6, <1>7, ChosenSame
<1>11. Typed(TN) \subseteq BlockOf /\ Typed(TR) \subseteq BlockOf /\ Typed(TC) \subseteq BlockOf
  BY DEF Typed
<1>12. normal \in Seq(BlockOf) /\ results \in Seq(BlockOf) /\ CS \in Seq(BlockOf)
  <2> HIDE DEF normal, results
  <2> QED BY <1>3, <1>8, <1>9, <1>11
<1>13. content \in Seq(Typed(TC)) /\ Flat(content) = t.items /\ content \in Seq(BlockOf)
  <2>1. Chosen(CS, Typed(TC)) = CS
    BY <1>3, ChosenTypes
  <2>2. content \in Seq(Typed(TC)) /\ Flat(content) = t.items
    <3> HIDE DEF normal
    <3>1. Picked(normal, TC, t.items)
      BY <1>1, <1>3, <1>10, <1>12, <2>1, ChosenFrom
    <3> QED BY <3>1 DEF Picked
  <2> HIDE DEF content
  <2>3. content \in Seq(BlockOf)
    BY <1>11, <2>2
  <2> QED BY <2>2, <2>3
<1> DEFINE tools == [i \in DOMAIN results |-> ResultMessage(results[i])]
           m == Message("user", Flat(content), Parts(content), <<>>, None)
           rest == IF normal = <<>> /\ results # <<>> THEN <<>> ELSE <<m>>
<1>14. UserMessages(blocks) = tools \o rest
  <2>1. Those(blocks, IsResult) = results
    BY <1>1, ThoseTyped DEF TR
  <2>2. Those(blocks, LAMBDA b : ~IsResult(b)) = normal
    BY <1>1, ThoseTyped DEF TN
  <2>3. Those(normal, IsContent) = content
    <3>1. normal \in Seq(BlockOf)
      BY <1>12
    <3> HIDE DEF normal
    <3> QED BY <3>1, ThoseTyped DEF TC
  <2> HIDE DEF results, normal, content
  <2> QED BY <2>1, <2>2, <2>3 DEF UserMessages
<1>15. ResultsOf(UpMessages, tools, w)
  <2>1. DOMAIN results = DOMAIN t.results
    <3> HIDE DEF results
    <3> QED BY <1>1, <1>8, <1>12
  <2>2. \A i \in DOMAIN results : results[i].of = t.results[i]
    <3> HIDE DEF results
    <3>1. t.results = [i \in DOMAIN results |-> results[i].of]
      BY <1>8 DEF Flat
    <3> QED BY <3>1
  <2>3. DOMAIN results = DOMAIN w.results
    BY <1>0, <1>1, <2>1
  <2>4. ASSUME NEW i \in DOMAIN results
        PROVE  ResultMessage(results[i]) = Outcome(w.results[i])
    <3> DEFINE o == t.results[i].output
    <3>1. i \in 1 .. Len(t.results) /\ t.results[i] \in Results /\ results[i].of = t.results[i]
      BY <1>0, <2>2, <2>3
    <3>2. w.results[i].call = t.results[i].call /\ w.results[i].output = InWords(o)
      <4>1. w.results[i] = [call |-> t.results[i].call, output |-> InWords(o)]
        BY <1>0, <3>1
      <4> HIDE DEF o, results
      <4> QED BY <4>1
    <3>3. o \in Seq(Items)
      BY <3>1 DEF Results
    <3>4. ToolResultText(o) = InWords(o)
      <4> HIDE DEF o
      <4> QED BY <3>3, OutputInWords
    <3>5. ResultMessage(results[i]) = ToolMessage(t.results[i].call, ToolResultText(o))
      <4> HIDE DEF results
      <4> QED BY <3>1 DEF ResultMessage
    <3> HIDE DEF o, results
    <3> QED BY <3>2, <3>4, <3>5 DEF Outcome
  <2>5. tools = [i \in DOMAIN w.results |-> Outcome(w.results[i])]
    <3> HIDE DEF results
    <3> QED BY <2>3, <2>4
  <2> QED BY <1>0, <2>5, ToolMessages
<1>16. m \in UpMessages /\ AsTurn(m) = AsTurn(Wording(w))
  <2>1. Parts(content) \in PartsSeq
    <3> HIDE DEF content
    <3> QED BY <1>1, <1>13, PartsType
  <2>2. m \in UpMessages
    <3> HIDE DEF content
    <3> QED BY <1>1, <1>13, <2>1 DEF Message, UpMessages, Roles, PartsSeq
  <2>3. AsTurn(m) = AsTurn(Wording(w))
    <3> HIDE DEF content
    <3> QED BY <1>0, <1>1, <1>13 DEF Message, AsTurn, Wording
  <2> QED BY <2>2, <2>3
<1> HIDE DEF tools, m
<1>17. CASE normal = <<>> /\ results # <<>>
  <2>1. w.items = <<>> /\ w.calls = <<>>
    <3> HIDE DEF normal
    <3>1. Len(t.items) = 0
      BY <1>9, <1>17
    <3> QED BY <1>0, <1>1, <3>1
  <2>2. rest = <<>>
    BY <1>17
  <2> HIDE DEF rest
  <2> QED BY <1>0, <1>14, <1>15, <2>1, <2>2, ShapedWithout DEF w
<1>18. CASE ~(normal = <<>> /\ results # <<>>)
  <2>1. rest = <<m>>
    BY <1>18
  <2> HIDE DEF rest
  <2> QED BY <1>0, <1>14, <1>15, <1>16, <2>1, ShapedWith DEF w
<1> QED BY <1>17, <1>18

\* Of three kinds of blocks, one after the other.
OfThree(c, d, e, T) ==
  /\ (c \o d) \o e \in Seq(BlockOf)
  /\ Chosen((c \o d) \o e, T) = (Chosen(c, T) \o Chosen(d, T)) \o Chosen(e, T)

\* Choosing from three sequences, one after the other.
LEMMA ChosenOfThree ==
  ASSUME NEW c \in Seq(BlockOf), NEW d \in Seq(BlockOf), NEW e \in Seq(BlockOf), NEW T
  PROVE  OfThree(c, d, e, T)
<1>1. c \o d \in Seq(BlockOf) /\ (c \o d) \o e \in Seq(BlockOf)
  OBVIOUS
<1>2. Chosen((c \o d) \o e, T) = Chosen(c \o d, T) \o Chosen(e, T)
  BY <1>1, ChosenConcat
<1>3. Chosen(c \o d, T) = Chosen(c, T) \o Chosen(d, T)
  BY ChosenConcat
<1> QED BY <1>1, <1>2, <1>3 DEF OfThree

\* The assistant's turn.
LEMMA AssistantShaped ==
  ASSUME NEW t, GoodTurn(t), t.role = "assistant", NEW blocks, ClientBlocks(t, blocks)
  PROVE  /\ <<AssistantMessage(blocks)>> \in Seq(UpMessages)
         /\ Shaped(<<AssistantMessage(blocks)>>, WithWords(t))
<1> DEFINE th == IF t.thinks THEN <<Block("thinking", None)>> ELSE <<>>
           c == Content(t.items)
           u == Blocks("tool_use", t.calls)
           whole == AnthropicTurn(t).blocks
           TT == {"text"}
           TU == {"tool_use"}
           TH == {"thinking"}
<1>1. /\ t \in Turns /\ t.results = <<>> /\ ~HasImage(t.items)
      /\ t.items \in Seq(Items) /\ t.calls \in Seq(CallIds)
      /\ blocks \in Seq(BlockOf) /\ SameBlocks(blocks, whole)
  BY DEF GoodTurn, Turns, ClientBlocks
<1>2. th \in Seq(Typed(TH))
  <2>1. Block("thinking", None) \in Typed(TH)
    BY DEF Block, Typed, BlockOf, BlockTypes, BlockContents
  <2> DEFINE x == Block("thinking", None)
             T == Typed(TH)
  <2>2. x \in T /\ th = IF t.thinks THEN <<x>> ELSE <<>>
    BY <2>1
  <2> HIDE DEF x, T, th
  <2>3. th \in Seq(T)
    BY <2>2
  <2> QED BY <2>3 DEF T
<1>3. c \in Seq(Typed(TT)) /\ AreOf(c, t.items)
  BY <1>1, ContentType DEF AreOf
<1>4. u \in Seq(Typed(TU)) /\ AreOf(u, t.calls)
  <2>1. t.calls \in Seq(BlockContents)
    BY <1>1 DEF BlockContents
  <2> QED BY <2>1, BlocksType DEF BlockTypes, AreOf
<1>5. whole = (th \o c) \o u
  <2>1. th \in Seq(BlockOf) /\ c \in Seq(BlockOf) /\ u \in Seq(BlockOf)
    <3>1. Typed(TH) \subseteq BlockOf /\ Typed(TT) \subseteq BlockOf /\ Typed(TU) \subseteq BlockOf
      BY DEF Typed
    <3> HIDE DEF th, c, u, TH, TT, TU
    <3> QED BY <1>2, <1>3, <1>4, <3>1
  <2>2. t.role # "user"
    OBVIOUS
  <2>3. whole = th \o c \o u
    BY <2>2 DEF AnthropicTurn
  <2> HIDE DEF th, c, u, whole
  <2> QED BY <2>1, <2>3, ConcatAssociative
<1> HIDE DEF th, c, u, whole, TH, TT, TU
<1>6. /\ th \in Seq(BlockOf) /\ c \in Seq(BlockOf) /\ u \in Seq(BlockOf)
      /\ Chosen(th, Typed(TT)) = <<>> /\ Chosen(th, Typed(TU)) = <<>>
      /\ Chosen(c, Typed(TT)) = c /\ Chosen(c, Typed(TU)) = <<>>
      /\ Chosen(u, Typed(TT)) = <<>> /\ Chosen(u, Typed(TU)) = u
  <2>1. TH \cap TT = {} /\ TH \cap TU = {} /\ TT \cap TU = {} /\ TU \cap TT = {}
    BY DEF TH, TT, TU
  <2>2. /\ th \in Seq(BlockOf) /\ Chosen(th, Typed(TT)) = <<>>
    BY <1>2, <2>1, ChosenTypes
  <2>3. Chosen(th, Typed(TU)) = <<>>
    BY <1>2, <2>1, ChosenTypes
  <2>4. c \in Seq(BlockOf) /\ Chosen(c, Typed(TU)) = <<>>
    BY <1>3, <2>1, ChosenTypes
  <2>5. Chosen(c, Typed(TT)) = c
    BY <1>3, ChosenTypes
  <2>6. u \in Seq(BlockOf) /\ Chosen(u, Typed(TT)) = <<>>
    BY <1>4, <2>1, ChosenTypes
  <2>7. Chosen(u, Typed(TU)) = u
    BY <1>4, ChosenTypes
  <2> QED BY <2>2, <2>3, <2>4, <2>5, <2>6, <2>7
<1>7. whole \in Seq(BlockOf) /\ Chosen(whole, Typed(TT)) = c
  <2> DEFINE T == Typed(TT)
  <2>1. Chosen(th, T) = <<>> /\ Chosen(c, T) = c /\ Chosen(u, T) = <<>>
    BY <1>6
  <2> HIDE DEF T
  <2>2. OfThree(th, c, u, T)
    BY <1>6, ChosenOfThree
  <2>3. (<<>> \o c) \o <<>> = c
    BY <1>6
  <2> QED BY <1>5, <2>1, <2>2, <2>3 DEF T, OfThree
<1>8. Chosen(whole, Typed(TU)) = u
  <2> DEFINE T == Typed(TU)
  <2>1. Chosen(th, T) = <<>> /\ Chosen(c, T) = <<>> /\ Chosen(u, T) = u
    BY <1>6
  <2> HIDE DEF T
  <2>2. OfThree(th, c, u, T)
    BY <1>6, ChosenOfThree
  <2>3. (<<>> \o <<>>) \o u = u
    BY <1>6
  <2> QED BY <1>5, <2>1, <2>2, <2>3 DEF T, OfThree
<1> DEFINE texts == Chosen(blocks, Typed(TT))
           calls == Chosen(blocks, Typed(TU))
           m == Message("assistant", Flat(texts), Parts(texts), Flat(calls), None)
<1>9. texts \in Seq(Typed(TT)) /\ Flat(texts) = t.items
  <2>1. Picked(blocks, TT, t.items)
    BY <1>1, <1>3, <1>7, ChosenFrom
  <2> QED BY <2>1 DEF Picked
<1>10. Flat(calls) = t.calls
  <2>1. Picked(blocks, TU, t.calls)
    BY <1>1, <1>4, <1>7, <1>8, ChosenFrom
  <2> QED BY <2>1 DEF Picked
<1>11. AssistantMessage(blocks) = m
  <2>1. Those(blocks, LAMBDA b : b.type = "text") = texts
    BY <1>1, ThoseTyped DEF TT
  <2>2. Those(blocks, LAMBDA b : b.type = "tool_use") = calls
    BY <1>1, ThoseTyped DEF TU
  <2> HIDE DEF texts, calls
  <2> QED BY <2>1, <2>2 DEF AssistantMessage
<1> HIDE DEF texts, calls
<1>12. Parts(texts) \in PartsSeq
  <2>1. texts \in Seq(BlockOf)
    <3>1. Typed(TT) \subseteq BlockOf
      BY DEF Typed
    <3> QED BY <1>9, <3>1
  <2> QED BY <1>1, <1>9, <2>1, PartsType
<1>13. m \in UpMessages /\ AsTurn(m) = AsTurn(Wording(t))
  <2>1. m \in UpMessages
    BY <1>1, <1>9, <1>10, <1>12 DEF Message, UpMessages, Roles, PartsSeq
  <2>2. AsTurn(m) = AsTurn(Wording(t))
    BY <1>9, <1>10 DEF Message, AsTurn, Wording
  <2> QED BY <2>1, <2>2
<1> HIDE DEF m
<1>14. ResultsOf(UpMessages, <<>>, t)
  BY <1>1 DEF ResultsOf
<1>15. <<>> \o <<m>> = <<m>>
  BY <1>13
<1>16. Shaped(<<m>>, t) /\ <<m>> \in Seq(UpMessages)
  BY <1>1, <1>13, <1>14, <1>15, ShapedWith
<1>17. Shaped(<<m>>, WithWords(t))
  <2> DEFINE w == WithWords(t)
  <2>1. /\ w.role = t.role /\ w.items = t.items /\ w.calls = t.calls
        /\ Len(w.results) = Len(t.results)
    BY TurnHeard
  <2>2. Len(t.results) = 0 /\ Wording(w) = Wording(t)
    BY <1>1, <2>1 DEF Wording
  <2> HIDE DEF w
  <2>3. Shaped(<<m>>, w)
    BY <1>16, <2>1, <2>2 DEF Shaped
  <2> QED BY <2>3 DEF w
<1> QED BY <1>11, <1>16, <1>17

\* The blocks a client sends for a turn.
LEMMA TurnBlocks ==
  ASSUME NEW t, GoodTurn(t)
  PROVE  /\ AnthropicTurn(t) = [role |-> t.role, blocks |-> AnthropicTurn(t).blocks]
         /\ ClientBlocks(t, AnthropicTurn(t).blocks)
<1> DEFINE th == IF t.thinks THEN <<Block("thinking", None)>> ELSE <<>>
           c == Content(t.items)
           u == Blocks("tool_use", t.calls)
           r == Blocks("tool_result", t.results)
           whole == AnthropicTurn(t).blocks
<1>1. /\ t.items \in Seq(Items) /\ t.calls \in Seq(CallIds) /\ t.results \in Seq(Results)
  BY DEF GoodTurn, Turns
<1>2. th \in Seq(BlockOf)
  <2> DEFINE x == Block("thinking", None)
  <2>1. x \in BlockOf /\ th = IF t.thinks THEN <<x>> ELSE <<>>
    BY DEF Block, BlockOf, BlockTypes, BlockContents
  <2> HIDE DEF x, th
  <2> QED BY <2>1
<1>3. c \in Seq(BlockOf)
  <2> DEFINE T == Typed({"text", "image"})
  <2>1. c \in Seq(T)
    BY <1>1, ContentType
  <2>2. T \subseteq BlockOf
    BY DEF Typed
  <2> HIDE DEF T, c
  <2> QED BY <2>1, <2>2
<1>4. ASSUME NEW type \in BlockTypes, NEW ids \in Seq(BlockContents)
      PROVE  Blocks(type, ids) \in Seq(BlockOf)
  <2> DEFINE T == Typed({type})
             b == Blocks(type, ids)
  <2>2. b \in Seq(T)
    BY BlocksType
  <2>3. T \subseteq BlockOf
    BY DEF Typed
  <2> HIDE DEF T, b
  <2>4. b \in Seq(BlockOf)
    BY <2>2, <2>3
  <2> QED BY <2>4 DEF b
<1>5. u \in Seq(BlockOf) /\ r \in Seq(BlockOf)
  <2>1. t.calls \in Seq(BlockContents) /\ t.results \in Seq(BlockContents)
    BY <1>1 DEF BlockContents
  <2> QED BY <1>4, <2>1 DEF BlockTypes
<1>6. whole \in {c \o r, r \o c, th \o c \o u}
  BY DEF AnthropicTurn
<1>7. AnthropicTurn(t) = [role |-> t.role, blocks |-> whole]
  BY DEF AnthropicTurn
<1> HIDE DEF th, c, u, r, whole
<1>8. whole \in Seq(BlockOf)
  <2>1. c \o r \in Seq(BlockOf) /\ r \o c \in Seq(BlockOf)
    BY <1>3, <1>5
  <2>2. th \o c \in Seq(BlockOf) /\ c \o u \in Seq(BlockOf)
    BY <1>2, <1>3, <1>5
  <2>3. th \o c \o u \in Seq(BlockOf)
    BY <1>2, <1>5, <2>2
  <2> QED BY <1>6, <2>1, <2>3
<1>9. SameBlocks(whole, whole)
  BY DEF SameBlocks
<1> QED BY <1>7, <1>8, <1>9 DEF ClientBlocks, whole

\* The client's marker changes no block but for it.
LEMMA MarkedBlocks ==
  ASSUME NEW b \in Seq(BlockOf), b # <<>>
  PROVE  /\ [b EXCEPT ![Len(b)].cache = TRUE] \in Seq(BlockOf)
         /\ SameBlocks([b EXCEPT ![Len(b)].cache = TRUE], b)
<1> DEFINE k == Len(b)
           x == [b[k] EXCEPT !.cache = TRUE]
           c == [b EXCEPT ![k] = x]
<1>1. k \in Nat /\ k \in 1 .. k /\ DOMAIN b = 1 .. k
  OBVIOUS
<1>2. b[k] \in BlockOf
  BY <1>1
<1>3. x \in BlockOf /\ x.type = b[k].type /\ x.of = b[k].of
  BY <1>2 DEF BlockOf
<1>4. [b EXCEPT ![Len(b)].cache = TRUE] = c
  OBVIOUS
<1> HIDE DEF x
<1>5. /\ c \in Seq(BlockOf) /\ Len(c) = k
      /\ \A i \in 1 .. k : c[i] = IF i = k THEN x ELSE b[i]
  BY <1>1, <1>3
<1> HIDE DEF c
<1>6. SameBlocks(c, b)
  BY <1>1, <1>3, <1>5 DEF SameBlocks
<1> QED BY <1>4, <1>5, <1>6

\* What the client of the Anthropic protocol sends for the turns.
LEMMA ClientMessages ==
  ASSUME IsConversation(request.turns)
  PROVE  /\ DOMAIN AnthropicMessages = 1 .. Len(request.turns)
         /\ \A i \in 1 .. Len(request.turns) :
              /\ AnthropicMessages[i].role = request.turns[i].role
              /\ ClientBlocks(request.turns[i], AnthropicMessages[i].blocks)
<1> DEFINE turns == request.turns
           n == Len(turns)
           msgs == [i \in DOMAIN turns |-> AnthropicTurn(turns[i])]
<1>1. n \in Nat /\ DOMAIN turns = 1 .. n /\ \A i \in 1 .. n : GoodTurn(turns[i])
  BY GoodTurns
<1>2. ASSUME NEW i \in 1 .. n
      PROVE  /\ msgs[i] = [role |-> turns[i].role, blocks |-> msgs[i].blocks]
             /\ msgs[i].role = turns[i].role
             /\ ClientBlocks(turns[i], msgs[i].blocks)
  <2> DEFINE t == turns[i]
  <2>1. GoodTurn(t) /\ msgs[i] = AnthropicTurn(t)
    BY <1>1
  <2> HIDE DEF t, msgs
  <2>2. /\ AnthropicTurn(t) = [role |-> t.role, blocks |-> AnthropicTurn(t).blocks]
        /\ ClientBlocks(t, AnthropicTurn(t).blocks)
    BY <2>1, TurnBlocks
  <2>3. AnthropicTurn(t).role = t.role
    BY <2>2
  <2> QED BY <2>1, <2>2, <2>3 DEF t
<1>3. DOMAIN msgs = 1 .. n /\ Len(msgs) = n
  BY <1>1
<1>4. AnthropicMessages =
        IF request.marked /\ n > 0 /\ msgs[n].blocks # <<>>
          THEN [msgs EXCEPT ![n].blocks[Len(msgs[n].blocks)].cache = TRUE] ELSE msgs
  BY <1>3 DEF AnthropicMessages
<1> HIDE DEF msgs, n, turns
<1> SUFFICES /\ DOMAIN AnthropicMessages = 1 .. n
             /\ \A i \in 1 .. n : /\ AnthropicMessages[i].role = turns[i].role
                                  /\ ClientBlocks(turns[i], AnthropicMessages[i].blocks)
  BY DEF n, turns
<1>5. CASE ~(request.marked /\ n > 0 /\ msgs[n].blocks # <<>>)
  <2>1. AnthropicMessages = msgs
    BY <1>4, <1>5
  <2> QED BY <1>2, <1>3, <2>1
<1>6. CASE request.marked /\ n > 0 /\ msgs[n].blocks # <<>>
  <2> DEFINE b == msgs[n].blocks
             c == [b EXCEPT ![Len(b)].cache = TRUE]
  <2>1. n \in 1 .. n
    BY <1>1, <1>6
  <2>2. b \in Seq(BlockOf) /\ SameBlocks(b, AnthropicTurn(turns[n]).blocks)
    BY <1>2, <2>1 DEF ClientBlocks
  <2>3. msgs[n] = [role |-> turns[n].role, blocks |-> b]
    BY <1>2, <2>1
  <2>4. AnthropicMessages = [msgs EXCEPT ![n] = [msgs[n] EXCEPT !.blocks = c]]
    BY <1>4, <1>6
  <2>5. c \in Seq(BlockOf) /\ SameBlocks(c, b)
    <3> HIDE DEF b
    <3>1. b # <<>>
      BY <1>6 DEF b
    <3> QED BY <2>2, <3>1, MarkedBlocks
  <2> HIDE DEF c
  <2>6. [msgs[n] EXCEPT !.blocks = c] = [role |-> turns[n].role, blocks |-> c]
    <3> HIDE DEF b
    <3> QED BY <2>3
  <2> HIDE DEF b
  <2>7. /\ DOMAIN AnthropicMessages = 1 .. n
        /\ \A i \in 1 .. n :
             AnthropicMessages[i] = IF i = n THEN [role |-> turns[n].role, blocks |-> c]
                                    ELSE msgs[i]
    BY <1>3, <2>4, <2>6
  <2>8. ClientBlocks(turns[n], c)
    <3>1. SameBlocks(c, AnthropicTurn(turns[n]).blocks)
      BY <2>2, <2>5 DEF SameBlocks
    <3> QED BY <2>5, <3>1 DEF ClientBlocks
  <2>9. ASSUME NEW i \in 1 .. n
        PROVE  /\ AnthropicMessages[i].role = turns[i].role
               /\ ClientBlocks(turns[i], AnthropicMessages[i].blocks)
    <3>1. CASE i = n
      <4>1. AnthropicMessages[i] = [role |-> turns[n].role, blocks |-> c]
        BY <2>7, <3>1
      <4> QED BY <2>8, <3>1, <4>1
    <3>2. CASE i # n
      <4>1. AnthropicMessages[i] = msgs[i]
        BY <2>7, <3>2
      <4> QED BY <1>2, <4>1
    <3> QED BY <3>1, <3>2
  <2> QED BY <2>7, <2>9
<1> QED BY <1>5, <1>6

\* The messages of an Anthropic client are shaped like its turns as they are heard.
LEMMA MessagesShaped ==
  ASSUME IsConversation(request.turns)
  PROVE  \E segs : /\ Segments(UpMessages, segs, HeardTurns)
                   /\ MessagesToUpstream(AnthropicMessages) = FlattenSeq(segs)
<1> DEFINE turns == request.turns
           n == Len(turns)
           msgs == AnthropicMessages
           x(i) == IF msgs[i].role = "user" THEN UserMessages(msgs[i].blocks)
                   ELSE <<AssistantMessage(msgs[i].blocks)>>
           segs == [i \in 1 .. n |-> x(i)]
           h == HeardTurns
<1>1. n \in Nat /\ DOMAIN turns = 1 .. n /\ \A i \in 1 .. n : GoodTurn(turns[i])
  BY GoodTurns
<1>2. /\ DOMAIN msgs = 1 .. n
      /\ \A i \in 1 .. n : /\ msgs[i].role = turns[i].role
                           /\ ClientBlocks(turns[i], msgs[i].blocks)
  BY ClientMessages
<1>7. Len(h) = n /\ \A i \in 1 .. n : h[i] = WithWords(turns[i])
  BY ConversationHeard
<1> HIDE DEF msgs, h
<1>3. MessagesToUpstream(msgs) = FlattenSeq(segs)
  BY <1>2 DEF MessagesToUpstream
<1>4. ASSUME NEW i \in 1 .. n PROVE x(i) \in Seq(UpMessages) /\ Shaped(x(i), h[i])
  <2> DEFINE t == turns[i]
             blocks == msgs[i].blocks
  <2>1. /\ GoodTurn(t) /\ ClientBlocks(t, blocks) /\ msgs[i].role = t.role
        /\ h[i] = WithWords(t)
    BY <1>1, <1>2, <1>7
  <2>2. t.role \in {"user", "assistant"}
    BY <2>1 DEF GoodTurn, Turns
  <2> HIDE DEF t, blocks
  <2>3. CASE t.role = "user"
    <3>1. x(i) = UserMessages(blocks)
      BY <2>1, <2>3 DEF blocks
    <3>2. UserMessages(blocks) \in Seq(UpMessages) /\ Shaped(UserMessages(blocks), h[i])
      BY <2>1, <2>3, UserShaped
    <3> HIDE DEF x
    <3> QED BY <3>1, <3>2
  <2>4. CASE t.role = "assistant"
    <3>1. x(i) = <<AssistantMessage(blocks)>>
      BY <2>1, <2>4 DEF blocks
    <3>2. /\ <<AssistantMessage(blocks)>> \in Seq(UpMessages)
          /\ Shaped(<<AssistantMessage(blocks)>>, h[i])
      BY <2>1, <2>4, AssistantShaped
    <3> HIDE DEF x
    <3> QED BY <3>1, <3>2
  <2> QED BY <2>2, <2>3, <2>4
<1> HIDE DEF x
<1>5. segs \in Seq(Seq(UpMessages)) /\ Len(segs) = n /\ \A i \in 1 .. n : segs[i] = x(i)
  <2> DEFINE T == Seq(UpMessages)
  <2>1. \A i \in 1 .. n : x(i) \in T
    BY <1>4
  <2> HIDE DEF T
  <2>2. segs \in Seq(T) /\ Len(segs) = n /\ \A i \in 1 .. n : segs[i] = x(i)
    BY <1>1, <2>1
  <2> QED BY <2>2 DEF T
<1> HIDE DEF segs
<1>6. Segments(UpMessages, segs, h)
  BY <1>4, <1>5, <1>7 DEF Segments
<1> QED BY <1>3, <1>6 DEF msgs, h

----------------------------------------------------------------------------
(* The cache marker and the system prompt.                                  *)

\* Messages that differ in their structured parts only.
SameMessages(c, d) ==
  /\ Len(c) = Len(d)
  /\ \A i \in 1 .. Len(c) :
       /\ c[i].role = d[i].role /\ c[i].content = d[i].content
       /\ c[i].calls = d[i].calls /\ c[i].result = d[i].result

\* The marker leaves the parts what they are.
LEMMA MarkedParts ==
  ASSUME NEW p \in PartsSeq
  PROVE  [p EXCEPT ![Len(p)].cache = TRUE] \in PartsSeq
<1> DEFINE T == [of : Seq(Items), cache : BOOLEAN]
           k == Len(p)
           x == [p[k] EXCEPT !.cache = TRUE]
<1>1. k \in Nat /\ DOMAIN p = 1 .. k /\ p \in Seq(T)
  BY DEF PartsSeq
<1>2. [p EXCEPT ![Len(p)].cache = TRUE] = [p EXCEPT ![k] = x]
  OBVIOUS
<1>3. CASE k = 0
  <2>1. p = <<>>
    BY <1>1, <1>3
  <2>2. [p EXCEPT ![k] = x] = <<>>
    <3> HIDE DEF x
    <3> QED BY <1>3, <2>1
  <2>3. <<>> \in PartsSeq
    BY DEF PartsSeq
  <2> HIDE DEF x
  <2> QED BY <1>2, <2>2, <2>3
<1>4. CASE k # 0
  <2>1. k \in 1 .. k
    BY <1>1, <1>4
  <2>2. p[k] \in T
    <3> HIDE DEF T
    <3> QED BY <1>1, <2>1
  <2>3. x \in T
    BY <2>2
  <2> HIDE DEF x, T
  <2>4. [p EXCEPT ![k] = x] \in Seq(T)
    BY <1>1, <2>1, <2>3
  <2> QED BY <1>2, <2>4 DEF PartsSeq, T
<1> QED BY <1>3, <1>4

\* The cache marker is all that is added.
LEMMA MarkerKeeps ==
  ASSUME NEW msgs \in Seq(UpMessages)
  PROVE  /\ EnsureCacheMarker(msgs) \in Seq(UpMessages)
         /\ SameMessages(EnsureCacheMarker(msgs), msgs)
<1> DEFINE i == SelectLastInSeq(msgs, LAMBDA m : m.role # "tool" /\ m.parts # <<>>)
           old == msgs[i]
           parts == [old.parts EXCEPT ![Len(old.parts)].cache = TRUE]
           new == [old EXCEPT !.parts = parts]
           marked == [msgs EXCEPT ![i] = new]
<1>1. EnsureCacheMarker(msgs) = msgs \/ EnsureCacheMarker(msgs) = marked
  <2> HIDE DEF i
  <2> QED BY DEF EnsureCacheMarker, i
<1>2. SameMessages(msgs, msgs)
  BY DEF SameMessages
<1> HIDE DEF i
<1>3. Len(msgs) \in Nat /\ DOMAIN msgs = 1 .. Len(msgs)
  OBVIOUS
<1>4. CASE i \notin 1 .. Len(msgs)
  <2>1. marked = msgs
    <3> HIDE DEF new
    <3> QED BY <1>3, <1>4
  <2> QED BY <1>1, <1>2, <2>1
<1>5. CASE i \in 1 .. Len(msgs)
  <2>1. old \in UpMessages /\ old.parts \in PartsSeq
    <3>1. old \in UpMessages
      BY <1>5
    <3> QED BY <3>1 DEF UpMessages, PartsSeq
  <2>2. parts \in PartsSeq
    <3> DEFINE p == old.parts
    <3>1. p \in PartsSeq
      BY <2>1
    <3> HIDE DEF p
    <3>2. [p EXCEPT ![Len(p)].cache = TRUE] \in PartsSeq
      BY <3>1, MarkedParts
    <3> QED BY <3>2 DEF p
  <2> HIDE DEF parts, old
  <2>3. /\ new \in UpMessages /\ new.role = old.role /\ new.content = old.content
        /\ new.calls = old.calls /\ new.result = old.result
    BY <2>1, <2>2 DEF UpMessages, PartsSeq
  <2> HIDE DEF new
  <2>4. /\ marked \in Seq(UpMessages) /\ Len(marked) = Len(msgs)
        /\ \A j \in 1 .. Len(msgs) : marked[j] = IF j = i THEN new ELSE msgs[j]
    BY <1>3, <1>5, <2>3
  <2> HIDE DEF marked
  <2>5. SameMessages(marked, msgs)
    BY <2>3, <2>4 DEF SameMessages, old
  <2> QED BY <1>1, <1>2, <2>4, <2>5
<1> QED BY <1>4, <1>5

\* Upstream messages can be read as turns.
LEMMA UpTyped == TypedMessages(UpMessages)
BY DEF TypedMessages, UpMessages

\* What is the same to the properties is the same.
LEMMA SameFollowing ==
  ASSUME NEW c, NEW d, SameMessages(c, d), Len(d) \in Nat, Following(d)
  PROVE  Following(c)
<1>1. /\ Len(c) = Len(d)
      /\ \A i \in 1 .. Len(d) : c[i].role = d[i].role /\ c[i].calls = d[i].calls
                                /\ c[i].result = d[i].result
  BY DEF SameMessages
<1>2. ASSUME NEW i \in 1 .. Len(c), c[i].role = "tool"
      PROVE  \E j \in 1 .. i - 1 : AnswersCall(c, j, i)
  <2>1. d[i].role = "tool"
    BY <1>1, <1>2
  <2>2. PICK j \in 1 .. i - 1 : AnswersCall(d, j, i)
    BY <1>1, <2>1 DEF Following
  <2>3. j \in 1 .. Len(d) /\ i \in 1 .. Len(d) /\ \A k \in j + 1 .. i - 1 : k \in 1 .. Len(d)
    BY <1>1, <2>2
  <2>4. AnswersCall(c, j, i)
    BY <1>1, <2>2, <2>3 DEF AnswersCall
  <2> QED BY <2>4
<1> QED BY <1>2 DEF Following

\* Messages that differ in markers alone are grouped alike.
LEMMA SameGrouped ==
  ASSUME NEW a \in Seq(UpMessages), NEW c \in Seq(UpMessages), NEW d \in Seq(UpMessages),
         SameMessages(c, d)
  PROVE  Grouped(a \o c) = Grouped(a \o d)
<1> DEFINE M == UpMessages
<1>1. SameTurns(c, d)
  BY DEF SameTurns, SameMessages, AsTurn
<1>2. TypedMessages(M) /\ a \in Seq(M) /\ c \in Seq(M) /\ d \in Seq(M)
  BY UpTyped
<1> HIDE DEF M
<1> QED BY <1>1, <1>2, GroupedAfter

SystemFirst == WithSystem(request.system, <<>>)
SystemSaid == <<Message("system", request.system, <<>>, <<>>, None)>>

\* The system prompt before the messages of the conversation; an empty one says nothing.
LEMMA SystemKept ==
  ASSUME request.system \in Seq(Items)
  PROVE  /\ SystemFirst \in Seq(UpMessages) /\ SystemSaid \in Seq(SaidMessages)
         /\ Grouped(SystemFirst) = Grouped(SystemSaid)
         /\ \A i \in 1 .. Len(SystemFirst) : SystemFirst[i].role # "tool"
         /\ \A msgs \in Seq(UpMessages) : WithSystem(request.system, msgs) = SystemFirst \o msgs
<1> DEFINE m == Message("system", request.system, <<>>, <<>>, None)
<1>1. m \in UpMessages /\ m \in SaidMessages /\ m.role = "system"
  BY DEF Message, UpMessages, SaidMessages, Roles
<1>2. SystemFirst = IF request.system = <<>> THEN <<>> ELSE <<m>>
  <2>1. SystemFirst = (IF request.system = <<>> THEN <<>> ELSE <<m>>) \o <<>>
    BY DEF SystemFirst, WithSystem
  <2> HIDE DEF m
  <2> QED BY <1>1, <2>1
<1>3. \A msgs \in Seq(UpMessages) :
         WithSystem(request.system, msgs) = (IF request.system = <<>> THEN <<>> ELSE <<m>>) \o msgs
  BY DEF WithSystem
<1>4. SystemSaid = <<m>>
  BY DEF SystemSaid
<1>5. request.system = <<>> => AsTurn(m).items = <<>> /\ Silent(AsTurn(m))
  BY DEF AsTurn, Message, Silent
<1> HIDE DEF m
<1>6. Grouped(SystemFirst) = Grouped(SystemSaid)
  <2>1. CASE request.system # <<>>
    BY <1>2, <1>4, <2>1
  <2>2. CASE request.system = <<>>
    <3> DEFINE M == SaidMessages
    <3>1. TypedMessages(M) /\ m \in M
      BY <1>1 DEF TypedMessages, SaidMessages
    <3> HIDE DEF M
    <3>4. <<>> \in Seq(M) /\ Append(<<>>, m) = <<m>>
      BY <3>1
    <3>2. Grouped(Append(<<>>, m)) = Group(Grouped(<<>>), m)
      BY <3>1, <3>4, GroupedLast
    <3>3. Group(Grouped(<<>>), m) = Grouped(<<>>)
      BY <1>5, <2>2, PutSilent DEF Group
    <3> QED BY <1>2, <1>4, <2>2, <3>2, <3>3, <3>4
  <2> QED BY <2>1, <2>2
<1>7. SystemFirst \in Seq(UpMessages) /\ SystemSaid \in Seq(SaidMessages)
  <2>1. SystemFirst \in Seq(UpMessages)
    BY <1>1, <1>2
  <2>2. SystemSaid \in Seq(SaidMessages)
    BY <1>1, <1>4
  <2> QED BY <2>1, <2>2
<1>8. \A i \in 1 .. Len(SystemFirst) : SystemFirst[i].role # "tool"
  BY <1>1, <1>2
<1>9. \A msgs \in Seq(UpMessages) : WithSystem(request.system, msgs) = SystemFirst \o msgs
  BY <1>2, <1>3
<1> QED BY <1>6, <1>7, <1>8, <1>9

\* The conversation that is said, and what a body that keeps it is like.
LEMMA SaidIs == \A turns : Said(turns) = Grouped(SystemSaid \o FlattenSeq(SpokenTurns(turns)))
BY DEF Said, SystemSaid, SpokenTurns

\* The messages of a body, before the marker and the system prompt are put in.
SaysAll(msgs, turns) ==
  msgs \in Seq(UpMessages) /\ Grouped(SystemFirst \o msgs) = Said(turns)

\* The marker and the system prompt change nothing in what a body says,
LEMMA BodySays ==
  ASSUME request.system \in Seq(Items), NEW msgs, NEW turns, SaysAll(msgs, turns)
  PROVE  /\ Grouped(WithSystem(request.system, EnsureCacheMarker(msgs))) = Said(turns)
         /\ WithSystem(request.system, EnsureCacheMarker(msgs)) \in Seq(UpMessages)
<1> DEFINE c == EnsureCacheMarker(msgs)
<1>1. msgs \in Seq(UpMessages) /\ Grouped(SystemFirst \o msgs) = Said(turns)
  BY DEF SaysAll
<1>2. c \in Seq(UpMessages) /\ SameMessages(c, msgs)
  BY <1>1, MarkerKeeps
<1> HIDE DEF c
<1>3. SystemFirst \in Seq(UpMessages)
  BY SystemKept
<1>4. Grouped(SystemFirst \o c) = Grouped(SystemFirst \o msgs)
  BY <1>1, <1>2, <1>3, SameGrouped
<1>5. WithSystem(request.system, c) = SystemFirst \o c
  BY <1>2, SystemKept
<1>6. SystemFirst \o c \in Seq(UpMessages)
  BY <1>2, <1>3
<1> QED BY <1>1, <1>4, <1>5, <1>6 DEF c

\* nor in which result follows which call.
LEMMA BodyFollows ==
  ASSUME request.system \in Seq(Items), NEW msgs \in Seq(UpMessages), Following(msgs)
  PROVE  Following(WithSystem(request.system, EnsureCacheMarker(msgs)))
<1> DEFINE c == EnsureCacheMarker(msgs)
<1>2. c \in Seq(UpMessages) /\ SameMessages(c, msgs)
  BY MarkerKeeps
<1> HIDE DEF c
<1>3. /\ SystemFirst \in Seq(UpMessages)
      /\ \A i \in 1 .. Len(SystemFirst) : SystemFirst[i].role # "tool"
  BY SystemKept
<1>4. Following(c)
  <2>1. Len(msgs) \in Nat
    OBVIOUS
  <2> QED BY <1>2, <2>1, SameFollowing
<1>5. WithSystem(request.system, c) = SystemFirst \o c
  BY <1>2, SystemKept
<1>6. Following(SystemFirst \o c)
  <2> DEFINE a == SystemFirst
             M == UpMessages
  <2>1. a \in Seq(M) /\ c \in Seq(M) /\ \A i \in 1 .. Len(a) : a[i].role # "tool"
    BY <1>2, <1>3
  <2> HIDE DEF a, M
  <2>2. Following(a \o c)
    BY <1>4, <2>1, FollowingAfter
  <2> QED BY <2>2 DEF a
<1> QED BY <1>5, <1>6 DEF c

\* Messages shaped like the turns.
LEMMA ShapedSays ==
  ASSUME NEW turns, IsConversation(turns), request.system \in Seq(Items),
         NEW segs, Segments(UpMessages, segs, turns)
  PROVE  SaysAll(FlattenSeq(segs), turns) /\ Following(FlattenSeq(segs))
<1> DEFINE M == UpMessages
           a == SystemFirst
           b == SystemSaid
<1>1. /\ TypedMessages(M) /\ a \in Seq(M) /\ b \in Seq(SaidMessages) /\ Grouped(a) = Grouped(b)
      /\ IsConversation(turns) /\ Segments(M, segs, turns)
  BY UpTyped, SystemKept
<1> HIDE DEF M, a, b
<1>2. /\ FlattenSeq(segs) \in Seq(M) /\ Following(FlattenSeq(segs))
      /\ Grouped(a \o FlattenSeq(segs)) = Grouped(b \o FlattenSeq(SpokenTurns(turns)))
  BY <1>1, ConversationSaid
<1> QED BY <1>2, SaidIs DEF SaysAll, M, a, b

----------------------------------------------------------------------------
(* The Anthropic protocol keeps the conversation.                          *)

\* The messages from an Anthropic request say what the client said, the results in
\* words, and every result directly follows its call, in whatever order the client put
\* the blocks of a turn.
LEMMA FromMessagesKeeps ==
  ASSUME IsConversation(request.turns), request.system \in Seq(Items)
  PROVE  LET r == FromMessages(AnthropicRequest)
             msgs == WithSystem(r.system, r.messages)
         IN Grouped(msgs) = Said(HeardTurns) /\ Following(msgs) /\ msgs \in Seq(UpMessages)
<1> DEFINE q == AnthropicRequest
           r == FromMessages(q)
           up == MessagesToUpstream(AnthropicMessages)
<1>1. q.system = request.system /\ q.messages = AnthropicMessages
  BY DEF AnthropicRequest
<1> HIDE DEF q
<1>2. r.system = request.system /\ r.messages = EnsureCacheMarker(up)
  BY <1>1 DEF FromMessages
<1>3. PICK segs : /\ Segments(UpMessages, segs, HeardTurns)
                  /\ MessagesToUpstream(AnthropicMessages) = FlattenSeq(segs)
  BY MessagesShaped
<1>4. SaysAll(up, HeardTurns) /\ Following(up)
  BY <1>3, ConversationHeard, ShapedSays
<1> HIDE DEF r, up
<1>5. up \in Seq(UpMessages)
  BY <1>4 DEF SaysAll
<1>6. /\ Grouped(WithSystem(request.system, EnsureCacheMarker(up))) = Said(HeardTurns)
      /\ WithSystem(request.system, EnsureCacheMarker(up)) \in Seq(UpMessages)
  BY <1>4, BodySays
<1>7. Following(WithSystem(request.system, EnsureCacheMarker(up)))
  BY <1>4, <1>5, BodyFollows
<1> QED BY <1>2, <1>6, <1>7 DEF r, q

----------------------------------------------------------------------------
(* The OpenAI protocol.                                                    *)

OaiOf ==
  [role : Roles, content : Seq(Items), string : BOOLEAN, calls : Seq(CallIds),
   result : CallIds \cup {None}]
OaiSystems == {m \in OaiOf : IsSystem(m) /\ m.string}
OaiOthers == {m \in OaiOf : ~IsSystem(m)}

\* A content has one message in this protocol, or none.
LEMMA ChatTurnShaped ==
  ASSUME NEW t, GoodTurn(t)
  PROVE  ChatTurn(t) \in Seq(OaiOthers) /\ Shaped(ChatTurn(t), t)
<1> DEFINE x(i) == OaiText("tool", t.results[i].output, <<>>, t.results[i].call)
           k == Len(t.results)
           tools == [i \in 1 .. k |-> x(i)]
           m == OaiText(t.role, t.items, t.calls, None)
<1>1. /\ t \in Turns /\ t.results \in Seq(Results) /\ k \in Nat /\ DOMAIN t.results = 1 .. k
      /\ t.items \in Seq(Items) /\ t.calls \in Seq(CallIds) /\ t.role \in {"user", "assistant"}
  BY DEF GoodTurn, Turns
<1>2. ASSUME NEW i \in 1 .. k
      PROVE  x(i) \in OaiOthers /\ AsTurn(x(i)) = AsTurn(Outcome(t.results[i]))
  <2> DEFINE r == t.results[i]
  <2>0. r \in Results
    BY <1>1
  <2> HIDE DEF r
  <2>1. r.call \in CallIds /\ r.output \in Seq(Items)
    BY <2>0 DEF Results
  <2>2. OaiText("tool", r.output, <<>>, r.call) \in OaiOthers
    BY <2>1 DEF OaiText, OaiOthers, OaiOf, IsSystem, Roles, HasImage
  <2>3. AsTurn(OaiText("tool", r.output, <<>>, r.call)) = AsTurn(Outcome(r))
    BY DEF OaiText, AsTurn, Outcome, ToolMessage, Message
  <2> QED BY <2>2, <2>3 DEF r
<1>3. m \in OaiOthers /\ AsTurn(m) = AsTurn(Wording(t))
  <2>1. m \in OaiOthers
    BY <1>1 DEF OaiText, OaiOthers, OaiOf, IsSystem, Roles, HasImage
  <2>2. AsTurn(m) = AsTurn(Wording(t))
    BY DEF OaiText, AsTurn, Wording, Message
  <2> QED BY <2>1, <2>2
<1>4. ChatTurn(t) = tools \o (IF t.items = <<>> /\ t.calls = <<>> THEN <<>> ELSE <<m>>)
  BY <1>1 DEF ChatTurn
<1> HIDE DEF x, m
<1>5. ResultsOf(OaiOthers, tools, t)
  <2> DEFINE M == OaiOthers
  <2>1. \A i \in 1 .. k : x(i) \in M
    BY <1>2
  <2> HIDE DEF M
  <2>2. tools \in Seq(M) /\ Len(tools) = k /\ \A i \in 1 .. k : tools[i] = x(i)
    BY <1>1, <2>1
  <2> HIDE DEF tools
  <2> QED BY <1>2, <2>2 DEF ResultsOf, M
<1> HIDE DEF tools
<1>6. CASE t.items = <<>> /\ t.calls = <<>>
  BY <1>1, <1>4, <1>5, <1>6, ShapedWithout
<1>7. CASE ~(t.items = <<>> /\ t.calls = <<>>)
  <2>1. ChatTurn(t) = tools \o <<m>>
    BY <1>4, <1>7
  <2> QED BY <1>1, <1>3, <1>5, <2>1, ShapedWith
<1> QED BY <1>6, <1>7

\* The system messages of the client, and then the turns.
LEMMA ChatParts ==
  ASSUME IsConversation(request.turns), request.system \in Seq(Items \ Images)
  PROVE  \E sys \in Seq(OaiSystems), segs \in Seq(Seq(OaiOthers)) :
           /\ ChatMessages = sys \o FlattenSeq(segs)
           /\ Segments(OaiOthers, segs, request.turns)
           /\ Len(sys) = Len(request.system)
           /\ \A i \in 1 .. Len(sys) : sys[i].content = <<request.system[i]>>
<1> DEFINE turns == request.turns
           n == Len(turns)
           x(i) == ChatTurn(turns[i])
           segs == [i \in 1 .. n |-> x(i)]
           l == Len(request.system)
           y(i) == OaiText("system", <<request.system[i]>>, <<>>, None)
           sys == [i \in 1 .. l |-> y(i)]
<1>1. n \in Nat /\ DOMAIN turns = 1 .. n /\ \A i \in 1 .. n : GoodTurn(turns[i])
  BY GoodTurns
<1>2. l \in Nat /\ DOMAIN request.system = 1 .. l
  OBVIOUS
<1>3. ASSUME NEW i \in 1 .. l
      PROVE  y(i) \in OaiSystems /\ y(i).content = <<request.system[i]>>
  <2>1. request.system[i] \in Items \ Images
    BY <1>2
  <2>2. ~HasImage(<<request.system[i]>>) /\ <<request.system[i]>> \in Seq(Items)
    BY <2>1 DEF HasImage
  <2> DEFINE s == <<request.system[i]>>
  <2> HIDE DEF s
  <2>3. y(i) = [role |-> "system", content |-> s, string |-> TRUE, calls |-> <<>>, result |-> None]
    BY <2>2 DEF OaiText, s
  <2>4. s \in Seq(Items) /\ s = <<request.system[i]>>
    BY <2>2 DEF s
  <2> HIDE DEF y
  <2>5. y(i) \in OaiSystems
    BY <2>3, <2>4 DEF OaiSystems, OaiOf, IsSystem, Roles
  <2> QED BY <2>3, <2>4, <2>5
<1>4. ChatMessages = sys \o FlattenSeq(segs)
  BY <1>1, <1>2 DEF ChatMessages
<1>5. ASSUME NEW i \in 1 .. n PROVE x(i) \in Seq(OaiOthers) /\ Shaped(x(i), turns[i])
  BY <1>1, ChatTurnShaped
<1> HIDE DEF x, y
<1>6. segs \in Seq(Seq(OaiOthers)) /\ Len(segs) = n /\ \A i \in 1 .. n : segs[i] = x(i)
  <2> DEFINE T == Seq(OaiOthers)
  <2>1. \A i \in 1 .. n : x(i) \in T
    BY <1>5
  <2> HIDE DEF T
  <2>2. segs \in Seq(T) /\ Len(segs) = n /\ \A i \in 1 .. n : segs[i] = x(i)
    BY <1>1, <2>1
  <2> QED BY <2>2 DEF T
<1>7. sys \in Seq(OaiSystems) /\ Len(sys) = l /\ \A i \in 1 .. l : sys[i].content = <<request.system[i]>>
  <2> DEFINE T == OaiSystems
  <2>1. \A i \in 1 .. l : y(i) \in T
    BY <1>3
  <2> HIDE DEF T
  <2>2. sys \in Seq(T) /\ Len(sys) = l /\ \A i \in 1 .. l : sys[i] = y(i)
    BY <1>2, <2>1
  <2> HIDE DEF sys
  <2> QED BY <1>3, <2>2 DEF T
<1> HIDE DEF segs, sys
<1>8. Segments(OaiOthers, segs, turns)
  BY <1>5, <1>6 DEF Segments
<1> QED BY <1>4, <1>6, <1>7, <1>8

\* A message of the OpenAI protocol keeps its role, content, calls and result.
LEMMA OaiMessageKeeps ==
  ASSUME NEW m \in OaiOthers
  PROVE  /\ OaiMessage(m) \in UpMessages
         /\ OaiMessage(m).role = m.role /\ OaiMessage(m).content = m.content
         /\ OaiMessage(m).calls = m.calls /\ OaiMessage(m).result = m.result
<1>1. /\ m.role \in Roles /\ m.content \in Seq(Items) /\ m.calls \in Seq(CallIds)
      /\ m.result \in CallIds \cup {None}
  BY DEF OaiOthers, OaiOf
<1> DEFINE p == IF m.string /\ m.content # <<>> /\ m.role # "tool"
                  THEN <<Part(m.content, FALSE)>> ELSE <<>>
<1>2. p \in PartsSeq
  <2> DEFINE T == [of : Seq(Items), cache : BOOLEAN]
             x == Part(m.content, FALSE)
  <2>1. x \in T
    BY <1>1 DEF Part
  <2>2. p = <<x>> \/ p = <<>>
    OBVIOUS
  <2> HIDE DEF x, p, T
  <2>4. <<x>> \in Seq(T) /\ <<>> \in Seq(T)
    BY <2>1
  <2>3. p \in Seq(T)
    BY <2>2, <2>4
  <2> QED BY <2>3 DEF PartsSeq, T
<1>3. OaiMessage(m) = Message(m.role, m.content, p, m.calls, m.result)
  BY DEF OaiMessage
<1> HIDE DEF p
<1> QED BY <1>1, <1>2, <1>3 DEF Message, UpMessages, PartsSeq

\* A text for each message of the system.
LEMMA Texts ==
  ASSUME NEW system \in Seq(Items), NEW sys, Len(sys) = Len(system), DOMAIN sys = 1 .. Len(sys),
         \A i \in 1 .. Len(sys) : sys[i].content = <<system[i]>>
  PROVE  FlattenSeq([i \in DOMAIN sys |-> sys[i].content]) = system
<1>1. DOMAIN sys = DOMAIN system /\ DOMAIN system = 1 .. Len(system)
  OBVIOUS
<1>2. \A i \in DOMAIN system : system[i] \in Items
  OBVIOUS
<1>3. [i \in DOMAIN sys |-> sys[i].content]
       = [i \in DOMAIN system |-> IF system[i] \in Items THEN <<system[i]>> ELSE <<>>]
  BY <1>1, <1>2
<1>4. Chosen(system, Items) = system
  BY ChosenAll
<1> QED BY <1>3, <1>4 DEF Chosen

\* The two kinds of messages are told apart.
LEMMA ChatPicked ==
  ASSUME NEW sys \in Seq(OaiSystems), NEW rest \in Seq(OaiOthers)
  PROVE  /\ Those(sys \o rest, LAMBDA m : IsSystem(m) /\ m.string) = sys
         /\ Those(sys \o rest, LAMBDA m : ~IsSystem(m)) = rest
<1> DEFINE X == OaiSystems
           Y == OaiOthers
           all == sys \o rest
<1>1. X \cap Y = {} /\ X \subseteq OaiOf /\ Y \subseteq OaiOf
  BY DEF OaiSystems, OaiOthers
<1>2. \A m \in OaiOf : (IsSystem(m) /\ m.string <=> m \in X) /\ (~IsSystem(m) <=> m \in Y)
  BY DEF OaiSystems, OaiOthers
<1>3. sys \in Seq(X) /\ rest \in Seq(Y)
  OBVIOUS
<1> HIDE DEF X, Y
<1>4. all \in Seq(OaiOf) /\ sys \in Seq(OaiOf) /\ rest \in Seq(OaiOf)
  BY <1>1, <1>3
<1> HIDE DEF all
<1>5. \A i \in DOMAIN all : all[i] \in OaiOf
  BY <1>4
<1>6. Those(all, LAMBDA m : IsSystem(m) /\ m.string) = Chosen(all, X)
  <2>1. [i \in DOMAIN all |-> IF IsSystem(all[i]) /\ all[i].string THEN <<all[i]>> ELSE <<>>]
         = [i \in DOMAIN all |-> IF all[i] \in X THEN <<all[i]>> ELSE <<>>]
    BY <1>2, <1>5
  <2> QED BY <2>1 DEF Those, Chosen
<1>7. Those(all, LAMBDA m : ~IsSystem(m)) = Chosen(all, Y)
  <2>1. [i \in DOMAIN all |-> IF ~IsSystem(all[i]) THEN <<all[i]>> ELSE <<>>]
         = [i \in DOMAIN all |-> IF all[i] \in Y THEN <<all[i]>> ELSE <<>>]
    BY <1>2, <1>5
  <2> QED BY <2>1 DEF Those, Chosen
<1>8. Chosen(all, X) = sys
  <2>1. Chosen(all, X) = Chosen(sys, X) \o Chosen(rest, X)
    BY <1>4, ChosenConcat DEF all
  <2>2. Chosen(sys, X) = sys
    BY <1>3, ChosenAll
  <2>3. Chosen(rest, X) = <<>>
    BY <1>1, <1>3, ChosenNone
  <2>4. sys \o <<>> = sys
    BY <1>3
  <2> QED BY <2>1, <2>2, <2>3, <2>4
<1>9. Chosen(all, Y) = rest
  <2>1. Chosen(all, Y) = Chosen(sys, Y) \o Chosen(rest, Y)
    BY <1>4, ChosenConcat DEF all
  <2>2. Chosen(rest, Y) = rest
    BY <1>3, ChosenAll
  <2>3. Chosen(sys, Y) = <<>>
    BY <1>1, <1>3, ChosenNone
  <2>4. <<>> \o rest = rest
    BY <1>3
  <2> QED BY <2>1, <2>2, <2>3, <2>4
<1> QED BY <1>6, <1>7, <1>8, <1>9 DEF all

\* The messages of a conversation, once each is written for upstream, say the same.
LEMMA OaiSays ==
  ASSUME IsConversation(request.turns), request.system \in Seq(Items),
         NEW segs, Segments(OaiOthers, segs, request.turns),
         NEW others, others = FlattenSeq(segs)
  PROVE  LET up == [i \in DOMAIN others |-> OaiMessage(others[i])]
         IN SaysAll(up, request.turns) /\ Following(up)
<1> DEFINE M == OaiOthers \cup UpMessages
           turns == request.turns
           a == SystemFirst
           b == SystemSaid
           up == [i \in DOMAIN others |-> OaiMessage(others[i])]
<1>1. /\ TypedMessages(M) /\ a \in Seq(M) /\ b \in Seq(SaidMessages) /\ Grouped(a) = Grouped(b)
      /\ IsConversation(turns) /\ Segments(M, segs, turns) /\ a \in Seq(UpMessages)
  <2>1. TypedMessages(M)
    BY DEF TypedMessages, UpMessages, OaiOthers, OaiOf
  <2>2. a \in Seq(UpMessages) /\ b \in Seq(SaidMessages) /\ Grouped(a) = Grouped(b)
    BY SystemKept
  <2>3. Segments(M, segs, turns)
    <3>1. Seq(OaiOthers) \subseteq Seq(M)
      OBVIOUS
    <3>2. /\ segs \in Seq(Seq(OaiOthers)) /\ Len(segs) = Len(turns)
          /\ \A i \in 1 .. Len(turns) : Shaped(segs[i], turns[i])
      BY DEF Segments
    <3> DEFINE P == Seq(OaiOthers)
               Q == Seq(M)
    <3> HIDE DEF P, Q, M
    <3>3. P \subseteq Q /\ segs \in Seq(P)
      BY <3>1, <3>2 DEF P, Q
    <3>4. segs \in Seq(Q)
      BY <3>3
    <3> QED BY <3>2, <3>4 DEF Segments, Q
  <2>4. UpMessages \subseteq M
    OBVIOUS
  <2> HIDE DEF M, a
  <2>5. a \in Seq(M)
    BY <2>2, <2>4
  <2> QED BY <2>1, <2>2, <2>3, <2>5
<1>2. others \in Seq(OaiOthers)
  <2>1. segs \in Seq(Seq(OaiOthers))
    BY DEF Segments
  <2> QED BY <2>1, FlattenedType
<1>3. DOMAIN others = 1 .. Len(others) /\ Len(others) \in Nat
  BY <1>2
<1>4. /\ up \in Seq(UpMessages) /\ Len(up) = Len(others)
      /\ \A i \in 1 .. Len(others) : up[i] = OaiMessage(others[i])
  <2> DEFINE x(i) == OaiMessage(others[i])
             T == UpMessages
  <2>1. ASSUME NEW i \in 1 .. Len(others) PROVE x(i) \in T
    <3>1. others[i] \in OaiOthers
      BY <1>2, <1>3
    <3> QED BY <3>1, OaiMessageKeeps
  <2>2. up = [i \in 1 .. Len(others) |-> x(i)]
    BY <1>3
  <2> HIDE DEF x, T
  <2>3. [i \in 1 .. Len(others) |-> x(i)] \in Seq(T)
    BY <1>3, <2>1
  <2>4. /\ Len([i \in 1 .. Len(others) |-> x(i)]) = Len(others)
        /\ \A i \in 1 .. Len(others) : [j \in 1 .. Len(others) |-> x(j)][i] = x(i)
    BY <1>3
  <2> QED BY <2>2, <2>3, <2>4 DEF T, x
<1>5. SameMessages(up, others)
  <2>1. ASSUME NEW i \in 1 .. Len(others)
        PROVE  /\ up[i].role = others[i].role /\ up[i].content = others[i].content
               /\ up[i].calls = others[i].calls /\ up[i].result = others[i].result
    <3> DEFINE m == others[i]
    <3>1. m \in OaiOthers /\ up[i] = OaiMessage(m)
      BY <1>2, <1>3, <1>4
    <3> HIDE DEF m, up
    <3> QED BY <3>1, OaiMessageKeeps DEF m
  <2> HIDE DEF up
  <2> QED BY <1>4, <2>1 DEF SameMessages
<1> HIDE DEF M, turns, a, b, up
<1>6. /\ FlattenSeq(segs) \in Seq(M) /\ Following(FlattenSeq(segs))
      /\ Grouped(a \o FlattenSeq(segs)) = Grouped(b \o FlattenSeq(SpokenTurns(turns)))
  BY <1>1, ConversationSaid
<1>7. Following(up)
  BY <1>3, <1>5, <1>6, SameFollowing
<1>8. Grouped(a \o up) = Grouped(a \o others)
  <2>1. SameTurns(up, others)
    BY <1>5 DEF SameTurns, SameMessages, AsTurn
  <2>2. up \in Seq(M)
    <3>1. UpMessages \subseteq M
      BY DEF M
    <3> QED BY <1>4, <3>1
  <2>3. others \in Seq(M)
    BY <1>6
  <2> QED BY <1>1, <2>1, <2>2, <2>3, GroupedAfter
<1>9. Grouped(a \o up) = Said(turns)
  BY <1>6, <1>8, SaidIs DEF b
<1> QED BY <1>4, <1>7, <1>9 DEF SaysAll, a, up, turns

\* The messages from an OpenAI request say the same.
LEMMA FromChatKeeps ==
  ASSUME IsConversation(request.turns), request.system \in Seq(Items \ Images)
  PROVE  LET r == FromChat(ChatRequest)
             msgs == WithSystem(r.system, r.messages)
         IN Grouped(msgs) = Said(request.turns) /\ Following(msgs) /\ msgs \in Seq(UpMessages)
<1> DEFINE q == ChatRequest
           r == FromChat(q)
           system == request.system
<1>1. q.messages = ChatMessages
  BY DEF ChatRequest
<1>2. system \in Seq(Items)
  OBVIOUS
<1>3. PICK sys \in Seq(OaiSystems), segs \in Seq(Seq(OaiOthers)) :
        /\ ChatMessages = sys \o FlattenSeq(segs)
        /\ Segments(OaiOthers, segs, request.turns)
        /\ Len(sys) = Len(request.system)
        /\ \A i \in 1 .. Len(sys) : sys[i].content = <<request.system[i]>>
  BY ChatParts
<1> DEFINE others == FlattenSeq(segs)
           up == [i \in DOMAIN others |-> OaiMessage(others[i])]
<1> HIDE DEF q, system
<1>4. others \in Seq(OaiOthers)
  BY FlattenedType
<1>5. SaysAll(up, request.turns) /\ Following(up)
  <2>1. request.system \in Seq(Items)
    BY <1>2 DEF system
  <2> QED BY <1>3, <2>1, OaiSays
<1> HIDE DEF others
<1>6. /\ Those(q.messages, LAMBDA m : IsSystem(m) /\ m.string) = sys
      /\ Those(q.messages, LAMBDA m : ~IsSystem(m)) = others
  <2>1. q.messages = sys \o others
    BY <1>1, <1>3 DEF others
  <2> QED BY <1>4, <2>1, ChatPicked
<1>7. FlattenSeq([i \in DOMAIN sys |-> sys[i].content]) = system
  <2>1. Len(sys) = Len(system) /\ DOMAIN sys = 1 .. Len(sys)
        /\ \A i \in 1 .. Len(sys) : sys[i].content = <<system[i]>>
    BY <1>3 DEF system
  <2> QED BY <1>2, <2>1, Texts
<1>8. r.system = system /\ r.messages = EnsureCacheMarker(up)
  BY <1>6, <1>7 DEF FromChat
<1> HIDE DEF r, up
<1>9. up \in Seq(UpMessages)
  BY <1>5 DEF SaysAll
<1>10. /\ Grouped(WithSystem(request.system, EnsureCacheMarker(up))) = Said(request.turns)
       /\ WithSystem(request.system, EnsureCacheMarker(up)) \in Seq(UpMessages)
  <2>1. request.system \in Seq(Items)
    BY <1>2 DEF system
  <2> QED BY <1>5, <2>1, BodySays
<1>11. Following(WithSystem(request.system, EnsureCacheMarker(up)))
  <2>1. request.system \in Seq(Items)
    BY <1>2 DEF system
  <2> QED BY <1>5, <1>9, <2>1, BodyFollows
<1> QED BY <1>8, <1>10, <1>11 DEF r, q, system

----------------------------------------------------------------------------
(* The Responses protocol: an item at a time.                              *)

RespState == [system : Seq(Items), msgs : Seq(UpMessages), calls : Seq(CallIds)]
\* The items of text, with a type or without.
IsText(x) == x.type = "message" \/ x.type = ""
RespTypes == {"message", "", "function_call", "function_call_output", "reasoning"}
RespItemOf ==
  {x \in [type : RespTypes, role : {None, "user", "assistant"}, content : Seq(Items),
          id : CallIds \cup {None}] :
     /\ IsText(x) =>
          x.role # None /\ x.content # <<>> /\ (x.role = "assistant" => ~HasImage(x.content))
     /\ x.type \in {"function_call", "function_call_output"} => x.id \in CallIds}

CallMessage(calls) == Message("assistant", <<>>, <<>>, calls, None)

\* The message for collected calls.
LEMMA CallMessageType ==
  ASSUME NEW calls \in Seq(CallIds)
  PROVE  /\ CallMessage(calls) \in UpMessages
         /\ CallMessage(calls).role = "assistant" /\ CallMessage(calls).calls = calls
BY DEF CallMessage, Message, UpMessages, Roles

\* What flushing the calls does.
LEMMA FlushIs ==
  ASSUME NEW s \in RespState
  PROVE  /\ Flush(s) \in RespState /\ Flush(s).system = s.system /\ Flush(s).calls = <<>>
         /\ Flush(s).msgs = IF s.calls = <<>> THEN s.msgs
                            ELSE Append(s.msgs, CallMessage(s.calls))
         /\ s.system \in Seq(Items) /\ s.msgs \in Seq(UpMessages) /\ s.calls \in Seq(CallIds)
<1>1. /\ s.system \in Seq(Items) /\ s.msgs \in Seq(UpMessages) /\ s.calls \in Seq(CallIds)
      /\ s = [system |-> s.system, msgs |-> s.msgs, calls |-> s.calls]
  BY DEF RespState
<1> DEFINE m == CallMessage(s.calls)
           msgs == Append(s.msgs, m)
<1>2. msgs \in Seq(UpMessages)
  <2>1. m \in UpMessages
    BY <1>1, CallMessageType
  <2> HIDE DEF m
  <2> QED BY <1>1, <2>1
<1>3. s.calls # <<>> =>
         /\ Flush(s) \in RespState /\ Flush(s).system = s.system /\ Flush(s).calls = <<>>
         /\ Flush(s).msgs = msgs
  <2> SUFFICES ASSUME s.calls # <<>>
               PROVE  /\ Flush(s) \in RespState /\ Flush(s).system = s.system
                      /\ Flush(s).calls = <<>> /\ Flush(s).msgs = msgs
    OBVIOUS
  <2>1. Flush(s) = [s EXCEPT !.msgs = msgs, !.calls = <<>>]
    BY DEF Flush, CallMessage
  <2> DEFINE f == Flush(s)
             e == <<>>
  <2>2. f = [s EXCEPT !.msgs = msgs, !.calls = e] /\ e \in Seq(CallIds)
    BY <2>1
  <2> HIDE DEF f, e, msgs
  <2>3. f \in RespState /\ f.system = s.system /\ f.calls = e /\ f.msgs = msgs
    BY <1>1, <1>2, <2>2 DEF RespState
  <2> QED BY <2>3 DEF f, e
<1> HIDE DEF msgs
<1>5. s.calls = <<>> => Flush(s) = s
  BY DEF Flush
<1> QED BY <1>1, <1>3, <1>5 DEF msgs

\* The message of an item: what it says, and that it is one that upstream takes.
LEMMA RespMessageIs ==
  ASSUME NEW x \in RespItemOf, IsText(x)
  PROVE  /\ RespMessage(x) \in UpMessages
         /\ RespMessage(x).role = x.role /\ RespMessage(x).content = x.content
         /\ RespMessage(x).calls = <<>> /\ RespMessage(x).result = None
         /\ x.role \in {"user", "assistant"} /\ ~IsSystem(x)
<1>1. /\ x.role \in {"user", "assistant"} /\ x.content \in Seq(Items)
      /\ x.role = "assistant" => ~HasImage(x.content)
  BY DEF RespItemOf
<1>2. ~IsSystem(x)
  BY <1>1 DEF IsSystem
<1> DEFINE texts == TextsOf(x.content)
           c == x.content
           T == [of : Seq(Items), cache : BOOLEAN]
<1> HIDE DEF c, T
<1>6. c \in Seq(Items)
  BY <1>1 DEF c
<1>3. DOMAIN c = 1 .. Len(c) /\ Len(c) \in Nat /\ \A i \in 1 .. Len(c) : c[i] \in Items
  <2> HIDE DEF texts
  <2> QED BY <1>6
<1>4. CASE x.role = "user"
  <2> DEFINE y(i) == Part(<<c[i]>>, FALSE)
             p == [i \in 1 .. Len(c) |-> y(i)]
  <2>1. RespMessage(x) = Message("user", c, p, <<>>, None)
    BY <1>3, <1>4 DEF RespMessage, c
  <2>2. ASSUME NEW i \in 1 .. Len(c) PROVE y(i) \in T
    <3> DEFINE z == c[i]
    <3>1. z \in Items
      BY <1>3
    <3> HIDE DEF z
    <3>2. <<z>> \in Seq(Items)
      BY <3>1
    <3> QED BY <3>2 DEF Part, z, T
  <2>3. p \in PartsSeq
    <3> HIDE DEF y
    <3>1. \A i \in 1 .. Len(c) : y(i) \in T
      BY <2>2
    <3>2. p \in Seq(T)
      BY <1>3, <3>1
    <3> QED BY <3>2 DEF PartsSeq, T
  <2> HIDE DEF p
  <2>4. /\ RespMessage(x) \in UpMessages
        /\ RespMessage(x).role = "user" /\ RespMessage(x).content = c
        /\ RespMessage(x).calls = <<>> /\ RespMessage(x).result = None
    BY <1>6, <2>1, <2>3 DEF Message, UpMessages, Roles, PartsSeq
  <2> QED BY <1>2, <1>4, <2>4 DEF c
<1>5. CASE x.role = "assistant"
  <2>1. texts = c
    <3>1. \A i \in DOMAIN c : c[i] \notin Images
      BY <1>1, <1>3, <1>5 DEF HasImage, c
    <3>2. [i \in DOMAIN c |-> IF c[i] \notin Images THEN <<c[i]>> ELSE <<>>]
           = [i \in DOMAIN c |-> IF c[i] \in Items THEN <<c[i]>> ELSE <<>>]
      BY <1>3, <3>1
    <3>3. Chosen(c, Items) = c
      BY <1>6, ChosenAll
    <3> QED BY <3>2, <3>3 DEF TextsOf, Those, Chosen, c
  <2> DEFINE z == Part(texts, FALSE)
             p == IF texts = <<>> THEN <<>> ELSE <<z>>
  <2>2. RespMessage(x) = Message("assistant", texts, p, <<>>, None)
    BY <1>5 DEF RespMessage, c
  <2>3. p \in PartsSeq
    <3>1. z \in T
      BY <1>6, <2>1 DEF Part, T
    <3>2. \A w \in T : <<w>> \in Seq(T) /\ <<>> \in Seq(T)
      OBVIOUS
    <3> HIDE DEF z, texts
    <3>3. p \in Seq(T)
      BY <3>1, <3>2
    <3> QED BY <3>3 DEF PartsSeq, T
  <2> HIDE DEF p, texts
  <2>4. /\ RespMessage(x) \in UpMessages
        /\ RespMessage(x).role = "assistant" /\ RespMessage(x).content = c
        /\ RespMessage(x).calls = <<>> /\ RespMessage(x).result = None
    BY <1>6, <2>1, <2>2, <2>3 DEF Message, UpMessages, Roles, PartsSeq
  <2> QED BY <1>2, <1>5, <2>4 DEF c
<1> QED BY <1>1, <1>4, <1>5

\* What each kind of item does.
LEMMA AddItemIs ==
  ASSUME NEW s \in RespState, NEW x \in RespItemOf
  PROVE  /\ AddItem(s, x) \in RespState /\ AddItem(s, x).system = s.system
         /\ x.type = "reasoning" => AddItem(s, x) = s
         /\ x.type = "function_call" =>
              AddItem(s, x).msgs = s.msgs /\ AddItem(s, x).calls = Append(s.calls, x.id)
         /\ x.type = "function_call_output" =>
              /\ AddItem(s, x).msgs = Append(Flush(s).msgs, ToolMessage(x.id, x.content))
              /\ AddItem(s, x).calls = <<>>
         /\ IsText(x) =>
              /\ AddItem(s, x).msgs = Append(Flush(s).msgs, RespMessage(x))
              /\ AddItem(s, x).calls = <<>>
<1> DEFINE u == AddItem(s, x)
           f == Flush(s)
<1>1. /\ s.system \in Seq(Items) /\ s.msgs \in Seq(UpMessages) /\ s.calls \in Seq(CallIds)
      /\ f \in RespState /\ f.system = s.system /\ f.calls = <<>> /\ f.msgs \in Seq(UpMessages)
  <2>1. /\ f \in RespState /\ f.system = s.system /\ f.calls = <<>>
        /\ s.system \in Seq(Items) /\ s.msgs \in Seq(UpMessages) /\ s.calls \in Seq(CallIds)
    BY FlushIs
  <2> HIDE DEF f
  <2> QED BY <2>1 DEF RespState
<1>2. x.type \in RespTypes
  BY DEF RespItemOf
<1>7. IsText(x) => x.type \notin {"reasoning", "function_call", "function_call_output"}
  BY DEF IsText
<1> HIDE DEF f
<1>3. CASE x.type = "reasoning"
  <2>1. u = s
    BY <1>3 DEF AddItem, IsCompact
  <2> HIDE DEF u
  <2> QED BY <1>1, <1>3, <1>7, <2>1 DEF u
<1>4. CASE x.type = "function_call"
  <2>1. u = [s EXCEPT !.calls = Append(@, x.id)]
    BY <1>4 DEF AddItem, IsCompact
  <2>2. Append(s.calls, x.id) \in Seq(CallIds)
    <3>1. x.id \in CallIds
      BY <1>4 DEF RespItemOf
    <3> QED BY <1>1, <3>1
  <2> DEFINE c == Append(s.calls, x.id)
  <2>3. u = [s EXCEPT !.calls = c]
    BY <2>1
  <2> HIDE DEF c, u
  <2>4. u \in RespState /\ u.system = s.system /\ u.msgs = s.msgs /\ u.calls = c
    BY <2>2, <2>3 DEF RespState, c
  <2> QED BY <1>4, <1>7, <2>4 DEF u, c
<1>5. CASE x.type = "function_call_output"
  <2> DEFINE c == Append(f.msgs, ToolMessage(x.id, x.content))
  <2>1. u = [f EXCEPT !.msgs = c]
    BY <1>5 DEF AddItem, IsCompact, FlushCalls, f
  <2>2. c \in Seq(UpMessages)
    <3> DEFINE id == x.id
               o == x.content
               m == ToolMessage(id, o)
    <3>2. id \in CallIds /\ o \in Seq(Items)
      BY <1>5 DEF RespItemOf
    <3> HIDE DEF id, o
    <3>1. m \in UpMessages
      BY <3>2 DEF ToolMessage, Message, UpMessages, Roles
    <3> HIDE DEF m
    <3>3. Append(f.msgs, m) \in Seq(UpMessages)
      BY <1>1, <3>1
    <3> QED BY <3>3 DEF m, id, o
  <2> HIDE DEF c, u
  <2>4. u \in RespState /\ u.system = f.system /\ u.msgs = c /\ u.calls = f.calls
    BY <1>1, <2>1, <2>2 DEF RespState
  <2> QED BY <1>1, <1>5, <1>7, <2>4 DEF u, c, f
<1>6. CASE IsText(x)
  <2> DEFINE m == RespMessage(x)
             c == Append(f.msgs, m)
  <2>0. m \in UpMessages /\ ~IsSystem(x)
    BY <1>6, RespMessageIs
  <2>1. x.type = "message" \/ IsCompact(x)
    BY <1>6 DEF IsCompact, RespItemOf, IsText
  <2>3. u = AddMessage(f, x)
    <3>1. /\ x.type = "message" \/ IsCompact(x)
          /\ x.type # "function_call" /\ x.type # "function_call_output"
          /\ x.type \notin {"reasoning", "item_reference"}
      BY <1>6, <2>1 DEF IsText
    <3> HIDE DEF u
    <3> QED BY <3>1 DEF AddItem, f, u
  <2>5. u = [f EXCEPT !.msgs = c]
    BY <2>0, <2>3 DEF AddMessage
  <2> HIDE DEF m
  <2>2. c \in Seq(UpMessages)
    BY <1>1, <2>0
  <2> HIDE DEF c, u
  <2>4. u \in RespState /\ u.system = f.system /\ u.msgs = c /\ u.calls = f.calls
    BY <1>1, <2>2, <2>5 DEF RespState
  <2> QED BY <1>1, <1>6, <1>7, <2>4 DEF u, c, f, m
<1> QED BY <1>2, <1>3, <1>4, <1>5, <1>6 DEF RespTypes, IsText

Adds(s, q) == FoldLeft(AddItem, s, q)
Adding == [p \in RespState \X RespItemOf |-> AddItem(p[1], p[2])]

\* Adding items is a fold over states.
LEMMA AddsFolds ==
  ASSUME NEW b \in RespState, NEW seq \in Seq(RespItemOf)
  PROVE  FoldsTo(Adds(b, seq), RespState, Adding, b, seq)
<1> DEFINE m == Len(seq)
           ST == RespState
           E == RespItemOf
           F == Adding
           Eq(f) == f = [u \in SUBSET (1 .. m) |->
                           IF u = {} THEN b ELSE AddItem(f[u \ {Max(u)}], seq[Max(u)])]
           iter == CHOOSE f : Eq(f)
<1>1. Adds(b, seq) = iter[1 .. m]
  <2>1. DOMAIN seq = 1 .. m
    OBVIOUS
  <2>3. Adds(b, seq) =
          (CHOOSE f : f = [u \in SUBSET DOMAIN seq |->
                             IF u = {} THEN b
                             ELSE AddItem(f[u \ {Max(u)}], seq[Max(u)])])[DOMAIN seq]
    BY DEF Adds, FoldLeft, MapThenFoldSet
  <2> QED BY <2>1, <2>3
<1>0. \A x \in ST, t \in E : AddItem(x, t) \in ST /\ F[<<x, t>>] = AddItem(x, t)
  BY AddItemIs DEF Adding
<1>2. F \in [ST \X E -> ST]
  <2> HIDE DEF ST, E
  <2>1. F = [p \in ST \X E |-> AddItem(p[1], p[2])]
    BY DEF Adding, ST, E
  <2> HIDE DEF F
  <2> QED BY <1>0, <2>1
<1>3. \A u \in SUBSET (1 .. m) :
         u # {} => seq[Max(u)] \in E /\ u \ {Max(u)} \in SUBSET (1 .. m)
  BY Greatest
<1>8. b \in ST /\ seq \in Seq(E)
  OBVIOUS
<1> HIDE DEF ST, E, F
<1>4. \E f : Eq(f)
  <2>1. PICK f \in [SUBSET (1 .. m) -> ST] :
          \A u \in SUBSET (1 .. m) : Folded(f, F, b, seq, u)
    BY <1>2, <1>8, FoldExists
  <2>2. ASSUME NEW u \in SUBSET (1 .. m)
        PROVE  f[u] = IF u = {} THEN b ELSE AddItem(f[u \ {Max(u)}], seq[Max(u)])
    <3>1. u # {} => f[u \ {Max(u)}] \in ST
      BY <1>3
    <3> QED BY <1>0, <1>3, <2>1, <3>1 DEF Folded
  <2> QED BY <2>1, <2>2
<1>5. Eq(iter)
  BY <1>4
<1> HIDE DEF iter
<1>6. Solution(iter, ST, F, b, seq)
  <2>1. iter[{}] = b
    BY <1>5
  <2>2. ASSUME NEW u \in SUBSET (1 .. m), u # {}, iter[u \ {Max(u)}] \in ST
        PROVE  Folded(iter, F, b, seq, u)
    <3>1. iter[u] = AddItem(iter[u \ {Max(u)}], seq[Max(u)])
      BY <1>5, <2>2
    <3> QED BY <1>0, <1>3, <2>2, <3>1 DEF Folded
  <2> QED BY <2>1, <2>2 DEF Solution
<1>7. PICK h : Trace(h, ST, F, b, seq, iter)
  BY <1>2, <1>6, <1>8, FoldSteps
<1> QED BY <1>1, <1>7 DEF Trace, FoldsTo, ST, F

AddsSteps(s, q, x) ==
  /\ Adds(s, q) \in RespState /\ Adds(s, <<>>) = s
  /\ Adds(s, Append(q, x)) = AddItem(Adds(s, q), x)

\* Adding a last item.
LEMMA AddsLast ==
  ASSUME NEW s \in RespState, NEW q \in Seq(RespItemOf), NEW x \in RespItemOf
  PROVE  AddsSteps(s, q, x)
<1> DEFINE ST == RespState
           E == RespItemOf
           F == Adding
<1>0. s \in ST /\ q \in Seq(E) /\ x \in E /\ <<>> \in Seq(E) /\ Append(q, x) \in Seq(E)
  OBVIOUS
<1>1. FoldsTo(Adds(s, q), ST, F, s, q)
  BY AddsFolds
<1>2. FoldsTo(Adds(s, <<>>), ST, F, s, <<>>)
  BY <1>0, AddsFolds
<1>3. FoldsTo(Adds(s, Append(q, x)), ST, F, s, Append(q, x))
  <2> DEFINE r == Append(q, x)
  <2>1. r \in Seq(RespItemOf)
    BY <1>0
  <2> HIDE DEF r
  <2>2. FoldsTo(Adds(s, r), ST, F, s, r)
    BY <2>1, AddsFolds
  <2> QED BY <2>2 DEF r
<1>4. Len(<<>>) = 0
  OBVIOUS
<1> HIDE DEF ST, E, F
<1>5. Adds(s, q) \in ST /\ Adds(s, Append(q, x)) = F[<<Adds(s, q), x>>]
  BY <1>0, <1>1, <1>3, FoldLast
<1>6. Adds(s, <<>>) = s
  BY <1>2, <1>4 DEF FoldsTo
<1> QED BY <1>0, <1>5, <1>6 DEF AddsSteps, Adding, ST, E, F

\* Adding items leads to a state.
LEMMA AddsType ==
  ASSUME NEW s \in RespState, NEW q \in Seq(RespItemOf)
  PROVE  Adds(s, q) \in RespState /\ Adds(s, <<>>) = s
<1> DEFINE x == [type |-> "reasoning", role |-> None, content |-> <<>>, id |-> None]
<1>1. x \in RespItemOf
  <2>1. "reasoning" \in RespTypes
    BY DEF RespTypes
  <2>2. x.type = "reasoning"
    OBVIOUS
  <2>3. ~IsText(x)
    BY <2>2 DEF IsText
  <2>4. x \in [type : RespTypes, role : {None, "user", "assistant"}, content : Seq(Items),
               id : CallIds \cup {None}]
    BY <2>1
  <2>5. x.type \notin {"function_call", "function_call_output"}
    BY <2>2
  <2> HIDE DEF x
  <2> QED BY <2>3, <2>4, <2>5 DEF RespItemOf
<1> HIDE DEF x
<1>2. AddsSteps(s, q, x)
  BY <1>1, AddsLast
<1> QED BY <1>2 DEF AddsSteps

\* The last item is added last.
LEMMA AddsAppend ==
  ASSUME NEW s \in RespState, NEW q \in Seq(RespItemOf), NEW x \in RespItemOf
  PROVE  Adds(s, Append(q, x)) = AddItem(Adds(s, q), x)
<1>1. AddsSteps(s, q, x)
  BY AddsLast
<1> QED BY <1>1 DEF AddsSteps

\* Items are added one after the other.
LEMMA AddsConcat ==
  ASSUME NEW s \in RespState, NEW p \in Seq(RespItemOf), NEW q \in Seq(RespItemOf)
  PROVE  Adds(s, p \o q) = Adds(Adds(s, p), q)
<1> DEFINE E == RespItemOf
           r == Adds(s, p)
           K == {z \in Seq(E) : Adds(s, p \o z) = Adds(r, z)}
<1>1. r \in RespState
  BY AddsType
<1> HIDE DEF r
<1>2. <<>> \in K
  <2>1. p \o <<>> = p /\ <<>> \in Seq(E)
    OBVIOUS
  <2>2. Adds(r, <<>>) = r
    BY <1>1, <2>1, AddsType
  <2> QED BY <2>1, <2>2 DEF r
<1>3. ASSUME NEW z \in Seq(E), NEW x \in E, z \in K PROVE Append(z, x) \in K
  <2>1. p \o Append(z, x) = Append(p \o z, x) /\ p \o z \in Seq(E) /\ Append(z, x) \in Seq(E)
    <3>1. p \in Seq(E)
      OBVIOUS
    <3> HIDE DEF E
    <3>2. p \o Append(z, x) = Append(p \o z, x) /\ p \o z \in Seq(E)
      BY <3>1, ConcatAppend
    <3> QED BY <3>2
  <2> DEFINE w == p \o z
  <2>2. w \in Seq(RespItemOf) /\ Adds(s, w) = Adds(r, z)
    BY <1>3, <2>1
  <2> HIDE DEF w
  <2>3. Adds(s, Append(w, x)) = AddItem(Adds(s, w), x)
    BY <2>2, AddsAppend
  <2>4. Adds(r, Append(z, x)) = AddItem(Adds(r, z), x)
    BY <1>1, AddsAppend
  <2>5. Adds(s, p \o Append(z, x)) = Adds(r, Append(z, x))
    BY <2>1, <2>2, <2>3, <2>4 DEF w
  <2> QED BY <2>1, <2>5
<1>4. q \in K
  <2> HIDE DEF K
  <2> QED BY <1>2, <1>3, ByAppending
<1> QED BY <1>4 DEF r

----------------------------------------------------------------------------
(* What a state says: its messages and the calls collected so far.         *)

CallTurn(calls) == AsTurn(CallMessage(calls))
Mean(s) == Put(Grouped(SystemFirst \o s.msgs), CallTurn(s.calls))

\* Collected calls as a turn.
LEMMA CallTurns ==
  ASSUME NEW c \in Seq(CallIds), NEW d \in Seq(CallIds)
  PROVE  /\ CallTurn(c) \in TurnOf /\ CallTurn(c).role = "assistant"
         /\ Together(CallTurn(c), CallTurn(d)) = CallTurn(c \o d)
         /\ Silent(CallTurn(<<>>))
<1>1. CallTurn(c) = [role |-> "assistant", items |-> <<>>, calls |-> c, results |-> <<>>]
  BY DEF CallTurn, AsTurn, CallMessage, Message
<1>2. CallTurn(d) = [role |-> "assistant", items |-> <<>>, calls |-> d, results |-> <<>>]
  BY DEF CallTurn, AsTurn, CallMessage, Message
<1>3. CallTurn(c \o d) = [role |-> "assistant", items |-> <<>>, calls |-> c \o d, results |-> <<>>]
  BY DEF CallTurn, AsTurn, CallMessage, Message
<1>4. Silent(CallTurn(<<>>))
  BY DEF CallTurn, AsTurn, CallMessage, Message, Silent
<1>5. <<>> \o <<>> = <<>>
  OBVIOUS
<1> QED BY <1>1, <1>2, <1>3, <1>4, <1>5 DEF TurnOf, Roles, Together

\* After a flush the messages say it all.
LEMMA MeanFlush ==
  ASSUME request.system \in Seq(Items), NEW s \in RespState
  PROVE  /\ Grouped(SystemFirst \o Flush(s).msgs) = Mean(s) /\ Mean(s) \in Seq(TurnOf)
         /\ SystemFirst \o Flush(s).msgs \in Seq(UpMessages)
<1> DEFINE M == UpMessages
           a == SystemFirst
           m == CallMessage(s.calls)
           f == Flush(s)
           g == s.msgs
           all == a \o g
<1>1. /\ s.calls \in Seq(CallIds) /\ g \in Seq(M)
      /\ f.msgs = IF s.calls = <<>> THEN g ELSE Append(g, m)
  BY FlushIs
<1>2. TypedMessages(M) /\ a \in Seq(M) /\ m \in M
  BY <1>1, UpTyped, SystemKept, CallMessageType
<1>3. CallTurn(s.calls) = AsTurn(m) /\ CallTurn(s.calls) \in TurnOf
  BY <1>1, CallTurns DEF CallTurn
<1>6. s.calls = <<>> => Silent(CallTurn(s.calls))
  BY CallTurns, <1>1
<1> HIDE DEF M, a, m, f, g
<1>4. all \in Seq(M) /\ Append(g, m) \in Seq(M) /\ a \o Append(g, m) = Append(all, m)
  <2>1. a \o Append(g, m) = Append(all, m) /\ all \in Seq(M)
    BY <1>1, <1>2, ConcatAppend
  <2> QED BY <1>1, <1>2, <2>1
<1>7. Mean(s) = Put(Grouped(all), CallTurn(s.calls))
  BY DEF Mean, a, g
<1> HIDE DEF all
<1>5. Grouped(all) \in Seq(TurnOf) /\ Grouped(Append(all, m)) = Group(Grouped(all), m)
  BY <1>2, <1>4, GroupedLast
<1>8. CASE s.calls = <<>>
  <2>1. Mean(s) = Grouped(all)
    BY <1>6, <1>7, <1>8, PutSilent
  <2>2. a \o f.msgs = all
    BY <1>1, <1>8 DEF all
  <2> QED BY <1>4, <1>5, <2>1, <2>2 DEF a, f, M
<1>9. CASE s.calls # <<>>
  <2>1. a \o f.msgs = Append(all, m)
    BY <1>1, <1>4, <1>9
  <2>2. Grouped(a \o f.msgs) = Mean(s)
    BY <1>3, <1>5, <1>7, <2>1 DEF Group
  <2>3. Mean(s) \in Seq(TurnOf)
    BY <1>3, <1>5, <1>7, PutType
  <2>4. Append(all, m) \in Seq(M)
    BY <1>2, <1>4
  <2> QED BY <2>1, <2>2, <2>3, <2>4 DEF a, f, M
<1> QED BY <1>8, <1>9

\* A message added after a flush.
LEMMA MeanMessage ==
  ASSUME request.system \in Seq(Items), NEW s \in RespState, NEW u \in RespState,
         NEW m \in UpMessages, u.msgs = Append(Flush(s).msgs, m), u.calls = <<>>
  PROVE  Mean(u) = Group(Mean(s), m)
<1> DEFINE M == UpMessages
           a == SystemFirst
           f == Flush(s).msgs
           all == a \o f
<1>1. TypedMessages(M) /\ a \in Seq(M) /\ m \in M
  BY UpTyped, SystemKept
<1>2. f \in Seq(M)
  <2>1. Flush(s) \in RespState
    BY FlushIs
  <2> QED BY <2>1, FlushIs
<1>3. Grouped(all) = Mean(s) /\ all \in Seq(M)
  BY MeanFlush
<1> HIDE DEF M, a, f
<1>4. a \o Append(f, m) = Append(all, m)
  BY <1>1, <1>2, ConcatAppend
<1> HIDE DEF all
<1>5. Grouped(Append(all, m)) = Group(Grouped(all), m)
  BY <1>1, <1>3, GroupedLast
<1>6. Mean(u) = Grouped(a \o Append(f, m))
  <2>1. Silent(CallTurn(<<>>))
    <3>1. <<>> \in Seq(CallIds)
      OBVIOUS
    <3> QED BY <3>1, CallTurns
  <2>2. Mean(u) = Put(Grouped(a \o Append(f, m)), CallTurn(<<>>))
    BY DEF Mean, a, f
  <2> QED BY <2>1, <2>2, PutSilent
<1> QED BY <1>3, <1>4, <1>5, <1>6

\* Calls collected one by one are the calls of one message.
LEMMA MeanCalls ==
  ASSUME request.system \in Seq(Items), NEW s \in RespState, NEW u \in RespState,
         NEW ids \in Seq(CallIds), u.msgs = s.msgs, u.calls = s.calls \o ids
  PROVE  Mean(u) = Put(Mean(s), CallTurn(ids))
<1> DEFINE g == Grouped(SystemFirst \o s.msgs)
           c == s.calls
<1>1. c \in Seq(CallIds) /\ s.msgs \in Seq(UpMessages)
  BY FlushIs
<1>2. g \in Seq(TurnOf)
  <2> DEFINE M == UpMessages
             all == SystemFirst \o s.msgs
  <2>1. TypedMessages(M) /\ all \in Seq(M)
    <3>1. SystemFirst \in Seq(UpMessages)
      BY SystemKept
    <3> QED BY <1>1, <3>1, UpTyped
  <2> HIDE DEF M, all
  <2>2. Grouped(all) \in Seq(TurnOf)
    BY <2>1, GroupedLast
  <2> QED BY <2>2 DEF all
<1>3. Mean(s) = Put(g, CallTurn(c)) /\ Mean(u) = Put(g, CallTurn(c \o ids))
  BY DEF Mean
<1> HIDE DEF g, c
<1>4. /\ CallTurn(c) \in TurnOf /\ CallTurn(c).role = "assistant"
      /\ Together(CallTurn(c), CallTurn(ids)) = CallTurn(c \o ids)
  BY <1>1, CallTurns
<1>5. CallTurn(ids) \in TurnOf /\ CallTurn(ids).role = "assistant"
  BY CallTurns
<1> DEFINE t == CallTurn(c)
           v == CallTurn(ids)
<1>6. t \in TurnOf /\ v \in TurnOf /\ t.role = v.role /\ Together(t, v) = CallTurn(c \o ids)
  BY <1>4, <1>5
<1> HIDE DEF t, v
<1>7. Put(Put(g, t), v) = Put(g, Together(t, v))
  BY <1>2, <1>6, PutTwice
<1> QED BY <1>3, <1>6, <1>7 DEF t, v

----------------------------------------------------------------------------
(* The items of a turn.                                                    *)

OutputItem(r) == RespItem("function_call_output", None, r.output, r.call)
CallItem(id) == RespItem("function_call", None, <<>>, id)

\* The items of results and calls.
LEMMA ItemTypes ==
  /\ \A r \in Results : /\ OutputItem(r) \in RespItemOf
                        /\ OutputItem(r).type = "function_call_output"
                        /\ OutputItem(r).id = r.call /\ OutputItem(r).content = r.output
  /\ \A id \in CallIds : /\ CallItem(id) \in RespItemOf
                         /\ CallItem(id).type = "function_call" /\ CallItem(id).id = id
<1>1. ASSUME NEW type \in {"function_call_output", "function_call"}, NEW id \in CallIds,
             NEW o \in Seq(Items)
      PROVE  /\ RespItem(type, None, o, id) \in RespItemOf
             /\ RespItem(type, None, o, id).type = type /\ RespItem(type, None, o, id).id = id
             /\ RespItem(type, None, o, id).content = o
  <2> DEFINE x == RespItem(type, None, o, id)
  <2>1. type \in RespTypes
    BY DEF RespTypes
  <2>2. x.type = type /\ x.id = id /\ x.content = o
    BY DEF RespItem
  <2>3. ~IsText(x)
    BY <2>2 DEF IsText
  <2>4. x \in [type : RespTypes, role : {None, "user", "assistant"}, content : Seq(Items),
               id : CallIds \cup {None}]
    BY <2>1 DEF RespItem
  <2> HIDE DEF x
  <2>5. x \in RespItemOf
    BY <2>2, <2>3, <2>4 DEF RespItemOf
  <2> QED BY <2>2, <2>5 DEF x
<1>2. ASSUME NEW r \in Results
      PROVE  /\ OutputItem(r) \in RespItemOf /\ OutputItem(r).type = "function_call_output"
             /\ OutputItem(r).id = r.call /\ OutputItem(r).content = r.output
  <2>1. r.call \in CallIds /\ r.output \in Seq(Items)
    BY DEF Results
  <2> QED BY <1>1, <2>1 DEF OutputItem
<1>3. ASSUME NEW id \in CallIds
      PROVE  CallItem(id) \in RespItemOf /\ CallItem(id).type = "function_call" /\ CallItem(id).id = id
  <2>1. <<>> \in Seq(Items)
    OBVIOUS
  <2> QED BY <1>1, <2>1 DEF CallItem
<1> QED BY <1>2, <1>3

\* The calls of a turn are collected.
LEMMA CallsAdded ==
  ASSUME NEW s \in RespState, NEW ids \in Seq(CallIds)
  PROVE  /\ RespItems("function_call", ids) \in Seq(RespItemOf)
         /\ Adds(s, RespItems("function_call", ids)).msgs = s.msgs
         /\ Adds(s, RespItems("function_call", ids)).calls = s.calls \o ids
<1> DEFINE E == RespItemOf
           items(q) == RespItems("function_call", q)
           Good(q) == /\ items(q) \in Seq(E)
                      /\ Adds(s, items(q)).msgs = s.msgs
                      /\ Adds(s, items(q)).calls = s.calls \o q
           K == {q \in Seq(CallIds) : Good(q)}
<1>0. s.calls \in Seq(CallIds)
  BY FlushIs
<1>1. <<>> \in K
  <2>1. items(<<>>) = <<>>
    BY DEF RespItems
  <2>2. <<>> \in Seq(E)
    OBVIOUS
  <2>3. Adds(s, <<>>) = s
    BY <2>2, AddsType
  <2>4. s.calls \o <<>> = s.calls
    BY <1>0
  <2>5. <<>> \in Seq(CallIds)
    OBVIOUS
  <2> QED BY <2>1, <2>2, <2>3, <2>4, <2>5
<1>2. ASSUME NEW q \in Seq(CallIds), NEW id \in CallIds, q \in K PROVE Append(q, id) \in K
  <2> DEFINE x == CallItem(id)
             u == Adds(s, items(q))
             r == Append(q, id)
  <2>1. x \in E /\ x.type = "function_call" /\ x.id = id
    BY ItemTypes
  <2>2. items(r) = Append(items(q), x)
    <3> DEFINE n == Len(q)
    <3>1. /\ n \in Nat /\ DOMAIN q = 1 .. n /\ DOMAIN r = 1 .. n + 1 /\ r[n + 1] = id
          /\ \A i \in 1 .. n : r[i] = q[i]
      OBVIOUS
    <3>2. items(q) = [i \in 1 .. n |-> CallItem(q[i])]
      BY <3>1 DEF RespItems, CallItem
    <3>3. items(r) = [i \in 1 .. n + 1 |-> CallItem(r[i])]
      BY <3>1 DEF RespItems, CallItem
    <3>4. items(q) \in Seq(E) /\ Len(items(q)) = n
      <4>1. items(q) \in Seq(E)
        BY <1>2
      <4>2. DOMAIN items(q) = 1 .. n
        BY <3>2
      <4> QED BY <3>1, <4>1, <4>2
    <3> DEFINE p == items(q)
    <3> HIDE DEF r, n, p
    <3>5. Append(p, x) = [i \in 1 .. n + 1 |-> IF i = n + 1 THEN x ELSE p[i]]
      <4>1. p \in Seq(E) /\ Len(p) = n
        BY <3>4 DEF p
      <4> HIDE DEF x, E
      <4>2. Append(p, x) = [i \in 1 .. Len(p) + 1 |-> IF i = Len(p) + 1 THEN x ELSE p[i]]
        BY <2>1, <4>1, Appended
      <4> QED BY <4>1, <4>2
    <3>6. ASSUME NEW i \in 1 .. n + 1
          PROVE  CallItem(r[i]) = IF i = n + 1 THEN x ELSE p[i]
      <4>1. CASE i = n + 1
        BY <3>1, <4>1
      <4>2. CASE i # n + 1
        <5>1. i \in 1 .. n
          BY <3>1, <4>2
        <5>2. p[i] = CallItem(q[i])
          BY <3>2, <5>1 DEF p
        <5> QED BY <3>1, <4>2, <5>1, <5>2
      <4> QED BY <4>1, <4>2
    <3> HIDE DEF x
    <3> QED BY <3>3, <3>5, <3>6 DEF p
  <2> DEFINE p == items(q)
  <2>3. p \in Seq(E) /\ Adds(s, p).msgs = s.msgs /\ Adds(s, p).calls = s.calls \o q
    BY <1>2
  <2> HIDE DEF x, E, p
  <2>4. Append(p, x) \in Seq(E)
    BY <2>1, <2>3
  <2>5. Adds(s, Append(p, x)) = AddItem(Adds(s, p), x) /\ Adds(s, p) \in RespState
    BY <2>1, <2>3, AddsAppend, AddsType DEF E
  <2>6. /\ AddItem(Adds(s, p), x).msgs = Adds(s, p).msgs
        /\ AddItem(Adds(s, p), x).calls = Append(Adds(s, p).calls, id)
    BY <2>1, <2>5, AddItemIs DEF E
  <2>7. Append(s.calls \o q, id) = s.calls \o r
    <3> DEFINE c == s.calls
    <3>1. c \in Seq(CallIds)
      BY <1>0
    <3> HIDE DEF c
    <3>2. c \o Append(q, id) = Append(c \o q, id)
      BY <3>1, ConcatAppend
    <3> QED BY <3>2 DEF c
  <2>8. Good(r)
    <3> HIDE DEF r
    <3> QED BY <2>2, <2>3, <2>4, <2>5, <2>6, <2>7 DEF p
  <2>9. r \in Seq(CallIds)
    OBVIOUS
  <2> QED BY <2>8, <2>9
<1>3. ids \in K
  <2> HIDE DEF K
  <2> QED BY <1>1, <1>2, ByAppending
<1> QED BY <1>3

Mapped(F, q) == [k \in DOMAIN q |-> F[q[k]]]
MapsOn(F, X, q, e) ==
  /\ Mapped(F, q) \in Seq(X) /\ Mapped(F, <<>>) = <<>>
  /\ Mapped(F, Append(q, e)) = Append(Mapped(F, q), F[e])

\* A mapped sequence with one element more.
LEMMA MappedLast ==
  ASSUME NEW E, NEW X, NEW F \in [E -> X], NEW q \in Seq(E), NEW e \in E
  PROVE  MapsOn(F, X, q, e)
<1> DEFINE n == Len(q)
           r == Append(q, e)
           p == Mapped(F, q)
<1>1. /\ n \in Nat /\ DOMAIN q = 1 .. n /\ DOMAIN r = 1 .. n + 1 /\ r[n + 1] = e
      /\ \A i \in 1 .. n : r[i] = q[i] /\ q[i] \in E
  OBVIOUS
<1>2. p \in Seq(X) /\ Len(p) = n /\ \A i \in 1 .. n : p[i] = F[q[i]]
  BY <1>1 DEF Mapped
<1>3. Mapped(F, r) = [i \in 1 .. n + 1 |-> F[r[i]]]
  BY <1>1 DEF Mapped
<1>4. Mapped(F, <<>>) = <<>>
  BY DEF Mapped
<1> DEFINE x == F[e]
<1>5. x \in X
  OBVIOUS
<1> HIDE DEF p, r, n, x
<1>6. Append(p, x) = [i \in 1 .. n + 1 |-> IF i = n + 1 THEN x ELSE p[i]]
  <2>1. Append(p, x) = [i \in 1 .. Len(p) + 1 |-> IF i = Len(p) + 1 THEN x ELSE p[i]]
    BY <1>2, <1>5, Appended
  <2> QED BY <1>2, <2>1
<1>7. ASSUME NEW i \in 1 .. n + 1 PROVE F[r[i]] = IF i = n + 1 THEN x ELSE p[i]
  <2>1. CASE i = n + 1
    BY <1>1, <2>1 DEF x
  <2>2. CASE i # n + 1
    <3>1. i \in 1 .. n
      BY <1>1, <2>2
    <3> QED BY <1>1, <1>2, <2>2, <3>1
  <2> QED BY <2>1, <2>2
<1>8. Mapped(F, r) = Append(p, x)
  BY <1>3, <1>6, <1>7
<1> QED BY <1>2, <1>4, <1>8 DEF MapsOn, p, r, x

----------------------------------------------------------------------------
(* Results and the calls they answer, item by item.                        *)

Reaches(msgs, ids) ==
  \E j \in 1 .. Len(msgs) :
    /\ ids \subseteq ToSet(msgs[j].calls)
    /\ \A k \in j + 1 .. Len(msgs) : msgs[k].role = "tool"
Reach(s, ids) ==
  IF s.calls = <<>> THEN Reaches(s.msgs, ids) ELSE ids \subseteq ToSet(s.calls)

\* One more message keeps results behind their calls,
LEMMA FollowingAppend ==
  ASSUME NEW M, NEW f \in Seq(M), NEW m \in M, Following(f), NEW ids,
         m.role # "tool" \/ (Reaches(f, ids) /\ m.result \in ids)
  PROVE  Following(Append(f, m))
<1> DEFINE n == Len(f)
           c == Append(f, m)
<1>1. /\ n \in Nat /\ Len(c) = n + 1 /\ c[n + 1] = m
      /\ \A i \in 1 .. n : c[i] = f[i]
  OBVIOUS
<1> HIDE DEF c
<1>2. ASSUME NEW i \in 1 .. Len(c), c[i].role = "tool"
      PROVE  \E j \in 1 .. i - 1 : AnswersCall(c, j, i)
  <2>1. CASE i = n + 1
    <3>1. m.role = "tool" /\ Reaches(f, ids) /\ m.result \in ids
      BY <1>1, <1>2, <2>1
    <3>2. PICK j \in 1 .. n : /\ ids \subseteq ToSet(f[j].calls)
                              /\ \A k \in j + 1 .. n : f[k].role = "tool"
      BY <3>1 DEF Reaches
    <3>3. \A k \in j + 1 .. i - 1 : k \in 1 .. n /\ c[k] = f[k]
      BY <1>1, <2>1
    <3>4. c[i].result \in ToSet(c[j].calls)
      BY <1>1, <2>1, <3>1, <3>2
    <3>5. AnswersCall(c, j, i)
      BY <1>1, <2>1, <3>2, <3>3, <3>4 DEF AnswersCall
    <3> QED BY <1>1, <2>1, <3>5
  <2>2. CASE i # n + 1
    <3>1. i \in 1 .. n /\ f[i].role = "tool"
      BY <1>1, <1>2, <2>2
    <3>2. PICK j \in 1 .. i - 1 : AnswersCall(f, j, i)
      BY <3>1 DEF Following
    <3>3. \A k \in 1 .. i : c[k] = f[k]
      BY <1>1, <3>1
    <3>4. c[i] = f[i] /\ c[j] = f[j] /\ \A k \in j + 1 .. i - 1 : c[k] = f[k]
      BY <3>1, <3>2, <3>3
    <3>5. AnswersCall(c, j, i)
      BY <3>2, <3>4 DEF AnswersCall
    <3> QED BY <3>5
  <2> QED BY <2>1, <2>2
<1> QED BY <1>2 DEF Following, c

\* and one more result leaves the calls within reach.
LEMMA ReachesAppend ==
  ASSUME NEW M, NEW f \in Seq(M), NEW m \in M, NEW ids, Reaches(f, ids), m.role = "tool"
  PROVE  Reaches(Append(f, m), ids)
<1> DEFINE n == Len(f)
           c == Append(f, m)
<1>1. /\ n \in Nat /\ Len(c) = n + 1 /\ c[n + 1] = m
      /\ \A i \in 1 .. n : c[i] = f[i]
  OBVIOUS
<1> HIDE DEF c
<1>2. PICK j \in 1 .. n : /\ ids \subseteq ToSet(f[j].calls)
                          /\ \A k \in j + 1 .. n : f[k].role = "tool"
  BY DEF Reaches
<1>3. ASSUME NEW k \in j + 1 .. Len(c) PROVE c[k].role = "tool"
  <2>1. CASE k = n + 1
    BY <1>1, <2>1
  <2>2. CASE k # n + 1
    <3>1. k \in j + 1 .. n /\ k \in 1 .. n
      BY <1>1, <2>2
    <3> QED BY <1>1, <1>2, <3>1
  <2> QED BY <2>1, <2>2
<1>4. j \in 1 .. Len(c) /\ c[j] = f[j]
  BY <1>1
<1> QED BY <1>2, <1>3, <1>4 DEF Reaches, c

\* Flushing puts collected calls within reach of the results to come.
LEMMA FlushReach ==
  ASSUME NEW s \in RespState, Following(s.msgs)
  PROVE  /\ Following(Flush(s).msgs)
         /\ \A ids : Reach(s, ids) => Reaches(Flush(s).msgs, ids)
<1> DEFINE f == s.msgs
           c == s.calls
           m == CallMessage(c)
           M == UpMessages
           g == Append(f, m)
<1>1. /\ c \in Seq(CallIds) /\ f \in Seq(M)
      /\ Flush(s).msgs = IF c = <<>> THEN f ELSE g
  BY FlushIs
<1>2. m \in M /\ m.role = "assistant" /\ m.calls = c
  BY <1>1, CallMessageType
<1>3. \A ids : Reach(s, ids) <=> IF c = <<>> THEN Reaches(f, ids) ELSE ids \subseteq ToSet(c)
  BY DEF Reach
<1>0. Following(f)
  OBVIOUS
<1> HIDE DEF f, c, m, M
<1>4. CASE c = <<>>
  BY <1>0, <1>1, <1>3, <1>4
<1>5. CASE c # <<>>
  <2>1. Following(g)
    <3>1. m.role # "tool"
      BY <1>2
    <3> QED BY <1>0, <1>1, <1>2, <3>1, FollowingAppend
  <2>2. ASSUME NEW ids, ids \subseteq ToSet(c) PROVE Reaches(g, ids)
    <3> DEFINE n == Len(f) + 1
    <3>1. n \in Nat /\ n \in 1 .. n /\ Len(g) = n /\ g[n] = m
      BY <1>1, <1>2
    <3> HIDE DEF g, n
    <3>2. ids \subseteq ToSet(g[n].calls) /\ \A k \in n + 1 .. Len(g) : FALSE
      BY <1>2, <2>2, <3>1
    <3> QED BY <3>1, <3>2 DEF Reaches
  <2> QED BY <1>1, <1>3, <1>5, <2>1, <2>2
<1> QED BY <1>4, <1>5

\* The state after results: what it says, and that they follow the calls they answer.
Outputs(results) == RespOutputs(results)
Tools(results) == [i \in DOMAIN results |-> Outcome(results[i])]
\* The results of some calls.
Answering(ids) == {r \in Results : r.call \in ids}
Follows(s, ids) == Following(s.msgs) /\ Reach(s, ids)
OutputsGood(s, b, ids, q) ==
  /\ Outputs(q) \in Seq(RespItemOf) /\ Tools(q) \in Seq(SaidMessages)
  /\ Adds(s, Outputs(q)) \in RespState
  /\ Mean(Adds(s, Outputs(q))) = Grouped(b \o Tools(q))
  /\ Follows(s, ids) => Follows(Adds(s, Outputs(q)), ids)

OutputKeeps(s, b, ids, r) ==
  LET u == AddItem(s, OutputItem(r))
  IN /\ u \in RespState /\ Mean(u) = Grouped(Append(b, Outcome(r)))
     /\ Follows(s, ids) => Follows(u, ids)

\* A result is a message of a tool, in what is said and upstream.
LEMMA OutcomeType ==
  ASSUME NEW r \in Results
  PROVE  /\ Outcome(r) \in UpMessages /\ Outcome(r) \in SaidMessages
         /\ Outcome(r).role = "tool" /\ Outcome(r).result = r.call
<1>1. r.call \in CallIds /\ r.output \in Seq(Items)
  BY DEF Results
<1> QED BY <1>1 DEF Outcome, ToolMessage, Message, UpMessages, SaidMessages, Roles

\* The item of one result.
LEMMA OutputNext ==
  ASSUME request.system \in Seq(Items), NEW s \in RespState, NEW b \in Seq(SaidMessages),
         Mean(s) = Grouped(b), NEW ids \in SUBSET CallIds, NEW r \in Answering(ids)
  PROVE  OutputKeeps(s, b, ids, r)
<1> DEFINE x == OutputItem(r)
           u == AddItem(s, x)
           m == Outcome(r)
           f == Flush(s).msgs
<1>0. r \in Results /\ r.call \in ids /\ r.call \in CallIds /\ r.output \in Seq(Items)
  BY DEF Answering, Results
<1>1. /\ x \in RespItemOf /\ x.type = "function_call_output" /\ x.id = r.call
      /\ x.content = r.output
  BY <1>0, ItemTypes
<1>2. m \in UpMessages /\ m \in SaidMessages /\ m.role = "tool" /\ m.result \in ids
  BY <1>0, OutcomeType
<1> HIDE DEF x
<1>3. u \in RespState /\ u.msgs = Append(f, m) /\ u.calls = <<>>
  <2>1. m = ToolMessage(x.id, x.content)
    BY <1>1 DEF Outcome
  <2> QED BY <1>1, <2>1, AddItemIs
<1>4. f \in Seq(UpMessages)
  <2>1. Flush(s) \in RespState
    BY FlushIs
  <2> QED BY <2>1, FlushIs
<1> HIDE DEF u, m
<1>5. Mean(u) = Group(Mean(s), m)
  BY <1>2, <1>3, MeanMessage
<1>6. Grouped(Append(b, m)) = Group(Grouped(b), m)
  <2> DEFINE N == SaidMessages
  <2>1. TypedMessages(N) /\ b \in Seq(N) /\ m \in N
    BY <1>2 DEF TypedMessages, SaidMessages
  <2> HIDE DEF N
  <2> QED BY <2>1, GroupedLast
<1>7. ASSUME Follows(s, ids) PROVE Follows(u, ids)
  <2>1. Following(f) /\ Reaches(f, ids)
    BY <1>7, FlushReach DEF Follows
  <2> HIDE DEF f
  <2>2. Following(Append(f, m))
    BY <1>2, <1>4, <2>1, FollowingAppend
  <2>3. Reaches(Append(f, m), ids)
    BY <1>2, <1>4, <2>1, ReachesAppend
  <2> QED BY <1>3, <2>2, <2>3 DEF Follows, Reach
<1> QED BY <1>3, <1>5, <1>6, <1>7 DEF OutputKeeps, u, m, x

\* The items of all results of a turn.
LEMMA OutputsAdded ==
  ASSUME request.system \in Seq(Items), NEW s \in RespState, NEW b \in Seq(SaidMessages),
         Mean(s) = Grouped(b), NEW ids \in SUBSET CallIds, NEW seq \in Seq(Answering(ids))
  PROVE  OutputsGood(s, b, ids, seq)
<1> DEFINE K == {q \in Seq(Answering(ids)) : OutputsGood(s, b, ids, q)}
           A == Answering(ids)
           F == [r \in A |-> OutputItem(r)]
           T == [r \in A |-> Outcome(r)]
<1>1. /\ F \in [A -> RespItemOf] /\ T \in [A -> SaidMessages]
      /\ \A r \in A : F[r] = OutputItem(r) /\ T[r] = Outcome(r)
  <2>0. A \subseteq Results
    BY DEF Answering
  <2> HIDE DEF A
  <2>1. \A r \in A : OutputItem(r) \in RespItemOf
    BY <2>0, ItemTypes
  <2>2. \A r \in A : Outcome(r) \in SaidMessages
    BY <2>0, OutcomeType
  <2> QED BY <2>1, <2>2
<1>9. seq \in Seq(A)
  OBVIOUS
<1> HIDE DEF A
<1>2. \A q \in Seq(A) : Outputs(q) = Mapped(F, q) /\ Tools(q) = Mapped(T, q)
  <2> TAKE q \in Seq(A)
  <2>1. \A i \in DOMAIN q : q[i] \in A
    OBVIOUS
  <2>2. Outputs(q) = [i \in DOMAIN q |-> OutputItem(q[i])]
    BY DEF Outputs, RespOutputs, OutputItem
  <2> HIDE DEF F, T
  <2> QED BY <1>1, <2>1, <2>2 DEF Tools, Mapped
<1> HIDE DEF F, T
<1>3. <<>> \in K
  <2>1. Outputs(<<>>) = <<>> /\ Tools(<<>>) = <<>>
    BY DEF Outputs, RespOutputs, Tools
  <2>2. <<>> \in Seq(A) /\ <<>> \in Seq(RespItemOf) /\ <<>> \in Seq(SaidMessages) /\ b \o <<>> = b
    OBVIOUS
  <2>3. Adds(s, <<>>) = s
    BY <2>2, AddsType
  <2>4. OutputsGood(s, b, ids, <<>>)
    BY <2>1, <2>2, <2>3 DEF OutputsGood
  <2> QED BY <2>2, <2>4 DEF A
<1>4. ASSUME NEW q \in Seq(A), NEW e \in A, q \in K PROVE Append(q, e) \in K
  <2> DEFINE r == Append(q, e)
             x == OutputItem(e)
             m == Outcome(e)
             p == Outputs(q)
             tools == Tools(q)
             u == Adds(s, p)
             c == b \o tools
  <2>1. /\ p \in Seq(RespItemOf) /\ tools \in Seq(SaidMessages) /\ u \in RespState
        /\ Mean(u) = Grouped(c)
        /\ Follows(s, ids) => Follows(u, ids)
    BY <1>4 DEF OutputsGood
  <2>2. MapsOn(F, RespItemOf, q, e)
    BY <1>1, MappedLast
  <2>3. MapsOn(T, SaidMessages, q, e)
    BY <1>1, MappedLast
  <2>0. r \in Seq(A)
    OBVIOUS
  <2>4. Outputs(r) = Append(p, x) /\ Tools(r) = Append(tools, m)
    <3>1. Mapped(F, r) = Append(Mapped(F, q), F[e])
      BY <2>2 DEF MapsOn
    <3>2. Mapped(T, r) = Append(Mapped(T, q), T[e])
      BY <2>3 DEF MapsOn
    <3> HIDE DEF r
    <3> QED BY <1>1, <1>2, <2>0, <3>1, <3>2
  <2>5. x \in RespItemOf /\ m \in SaidMessages
    BY <1>1
  <2> HIDE DEF r, x, m, p, tools
  <2>6. Adds(s, Append(p, x)) = AddItem(u, x)
    BY <2>1, <2>5, AddsAppend
  <2>7. c \in Seq(SaidMessages) /\ b \o Append(tools, m) = Append(c, m)
    BY <2>1, <2>5, ConcatAppend
  <2> HIDE DEF u, c
  <2>8. /\ AddItem(u, x) \in RespState /\ Mean(AddItem(u, x)) = Grouped(Append(c, m))
        /\ Follows(u, ids) => Follows(AddItem(u, x), ids)
    <3>1. OutputKeeps(u, c, ids, e)
      BY <2>1, <2>7, OutputNext DEF A
    <3> QED BY <3>1 DEF OutputKeeps, x, m
  <2>9. Append(p, x) \in Seq(RespItemOf) /\ Append(tools, m) \in Seq(SaidMessages)
    BY <2>1, <2>5
  <2>10. OutputsGood(s, b, ids, r)
    BY <2>1, <2>4, <2>6, <2>7, <2>8, <2>9 DEF OutputsGood
  <2> QED BY <2>0, <2>10 DEF r, A
<1>5. seq \in K
  <2> HIDE DEF K
  <2> QED BY <1>3, <1>4, <1>9, ByAppending
<1> QED BY <1>5

\* The items of a turn leave the system prompt alone.
LEMMA AddsSystem ==
  ASSUME NEW s \in RespState, NEW q \in Seq(RespItemOf)
  PROVE  Adds(s, q).system = s.system
<1> DEFINE E == RespItemOf
           K == {z \in Seq(E) : Adds(s, z).system = s.system}
<1>1. <<>> \in K
  <2>1. <<>> \in Seq(E)
    OBVIOUS
  <2> QED BY <2>1, AddsType
<1>2. ASSUME NEW z \in Seq(E), NEW x \in E, z \in K PROVE Append(z, x) \in K
  <2>1. Adds(s, Append(z, x)) = AddItem(Adds(s, z), x) /\ Adds(s, z) \in RespState
    BY AddsAppend, AddsType
  <2>2. AddItem(Adds(s, z), x).system = Adds(s, z).system
    BY <2>1, AddItemIs
  <2>3. Append(z, x) \in Seq(E)
    OBVIOUS
  <2> QED BY <1>2, <2>1, <2>2, <2>3
<1>3. q \in K
  <2> HIDE DEF K
  <2> QED BY <1>1, <1>2, ByAppending
<1> QED BY <1>3

\* The text of a turn.
TextTurn(t) == [role |-> t.role, items |-> t.items, calls |-> <<>>, results |-> <<>>]
TextItem(t) == RespItem(IF request.mixed THEN "" ELSE "message", t.role, t.items, None)
TextItems(t) == IF t.items = <<>> THEN <<>> ELSE <<TextItem(t)>>

\* The item of the text of a turn.
LEMMA TextItemIs ==
  ASSUME NEW t, GoodTurn(t), t.items # <<>>
  PROVE  /\ TextItem(t) \in RespItemOf /\ IsText(TextItem(t))
         /\ TextItem(t).role = t.role /\ TextItem(t).content = t.items
<1> DEFINE x == TextItem(t)
           type == IF request.mixed THEN "" ELSE "message"
<1>1. type \in RespTypes
  BY DEF RespTypes
<1>2. x.type = type /\ x.role = t.role /\ x.content = t.items /\ x.id = None
  BY DEF TextItem, RespItem
<1>3. x = [type |-> type, role |-> t.role, content |-> t.items, id |-> None]
  BY DEF TextItem, RespItem
<1>4. IsText(x) /\ x.type \notin {"function_call", "function_call_output"}
  BY <1>2 DEF IsText
<1> HIDE DEF type
<1>5. t.role \in {"user", "assistant"} /\ t.items \in Seq(Items)
  BY DEF GoodTurn, Turns
<1>6. x \in [type : RespTypes, role : {None, "user", "assistant"}, content : Seq(Items),
             id : CallIds \cup {None}]
  BY <1>1, <1>3, <1>5
<1>7. t.role # None /\ (t.role = "assistant" => ~HasImage(t.items))
  BY <1>5, NoneAssumption DEF GoodTurn
<1> HIDE DEF x
<1>8. x \in RespItemOf
  BY <1>2, <1>4, <1>6, <1>7 DEF RespItemOf
<1> QED BY <1>2, <1>4, <1>8 DEF x

\* Adding it.
LEMMA TextAdded ==
  ASSUME request.system \in Seq(Items), NEW s \in RespState, NEW t, GoodTurn(t)
  PROVE  LET u == Adds(s, TextItems(t))
         IN /\ TextItems(t) \in Seq(RespItemOf) /\ u \in RespState
            /\ Mean(u) = Put(Mean(s), TextTurn(t))
            /\ Following(s.msgs) => Following(u.msgs)
<1> DEFINE u == Adds(s, TextItems(t))
           x == TextItem(t)
           m == RespMessage(x)
           f == Flush(s).msgs
<1>0. t.role \in {"user", "assistant"} /\ t.items \in Seq(Items)
  BY DEF GoodTurn, Turns
<1>1. CASE t.items = <<>>
  <2>1. TextItems(t) = <<>> /\ <<>> \in Seq(RespItemOf)
    BY <1>1 DEF TextItems
  <2>2. u = s
    BY <2>1, AddsType
  <2>3. Silent(TextTurn(t))
    BY <1>1 DEF Silent, TextTurn
  <2>4. Put(Mean(s), TextTurn(t)) = Mean(s)
    BY <2>3, PutSilent
  <2> QED BY <2>1, <2>2, <2>4
<1>2. CASE t.items # <<>>
  <2>1. x \in RespItemOf /\ IsText(x) /\ x.role = t.role /\ x.content = t.items
    BY <1>2, TextItemIs
  <2> HIDE DEF x
  <2>2. <<>> \in Seq(RespItemOf) /\ TextItems(t) = Append(<<>>, x) /\ <<x>> \in Seq(RespItemOf)
        /\ Append(<<>>, x) = <<x>>
    BY <1>2, <2>1 DEF TextItems, x
  <2>3. u = AddItem(s, x)
    <3>1. Adds(s, Append(<<>>, x)) = AddItem(Adds(s, <<>>), x)
      BY <2>1, <2>2, AddsAppend
    <3>2. Adds(s, <<>>) = s
      BY <2>2, AddsType
    <3> QED BY <2>2, <3>1, <3>2
  <2>4. /\ m \in UpMessages /\ m.role = t.role /\ m.content = t.items /\ m.calls = <<>>
        /\ m.result = None
    BY <2>1, RespMessageIs
  <2> HIDE DEF u
  <2>5. u \in RespState /\ u.msgs = Append(f, m) /\ u.calls = <<>>
    BY <2>1, <2>3, AddItemIs
  <2> HIDE DEF m
  <2>6. Mean(u) = Group(Mean(s), m)
    BY <2>4, <2>5, MeanMessage
  <2>7. AsTurn(m) = TextTurn(t)
    BY <2>4 DEF AsTurn, TextTurn
  <2>8. f \in Seq(UpMessages)
    <3>1. Flush(s) \in RespState
      BY FlushIs
    <3> QED BY <3>1, FlushIs
  <2>9. ASSUME Following(s.msgs) PROVE Following(u.msgs)
    <3>1. Following(f)
      BY <2>9, FlushReach
    <3>2. m.role # "tool"
      BY <1>0, <2>4
    <3> HIDE DEF f
    <3>3. Following(Append(f, m))
      BY <2>4, <2>8, <3>1, <3>2, FollowingAppend
    <3> QED BY <2>5, <3>3
  <2> QED BY <2>2, <2>5, <2>6, <2>7, <2>9 DEF Group, u
<1> QED BY <1>1, <1>2

\* The text and the calls of a turn, in either order, are what it says.
LEMMA WordingPut ==
  ASSUME NEW z \in Seq(TurnOf), NEW t, GoodTurn(t)
  PROVE  /\ Put(Put(z, TextTurn(t)), CallTurn(t.calls)) = Group(z, Wording(t))
         /\ Put(Put(z, CallTurn(t.calls)), TextTurn(t)) = Group(z, Wording(t))
<1> DEFINE x == TextTurn(t)
           c == CallTurn(t.calls)
           w == AsTurn(Wording(t))
<1>1. /\ t.role \in {"user", "assistant"} /\ t.items \in Seq(Items) /\ t.calls \in Seq(CallIds)
      /\ t.role = "user" => t.calls = <<>>
  BY DEF GoodTurn, Turns
<1>2. x = [role |-> t.role, items |-> t.items, calls |-> <<>>, results |-> <<>>]
  BY DEF TextTurn
<1>3. c = [role |-> "assistant", items |-> <<>>, calls |-> t.calls, results |-> <<>>]
  BY DEF CallTurn, AsTurn, CallMessage, Message
<1>4. w = [role |-> t.role, items |-> t.items, calls |-> t.calls, results |-> <<>>]
  BY DEF AsTurn, Wording, Message
<1>5. Group(z, Wording(t)) = Put(z, w)
  BY DEF Group
<1>6. x \in TurnOf /\ c \in TurnOf
  BY <1>1, <1>2, <1>3 DEF TurnOf, Roles
<1> HIDE DEF x, c, w
<1>7. CASE t.role = "user"
  <2>1. Silent(c)
    BY <1>1, <1>3, <1>7 DEF Silent
  <2>2. x = w
    BY <1>1, <1>2, <1>4, <1>7
  <2>3. Put(Put(z, x), c) = Put(z, x) /\ Put(z, c) = z
    BY <2>1, PutSilent
  <2> QED BY <1>5, <2>2, <2>3 DEF x, c
<1>8. CASE t.role = "assistant"
  <2> DEFINE i == t.items
             k == t.calls
  <2>1. i \in Seq(Items) /\ k \in Seq(CallIds)
    BY <1>1
  <2> HIDE DEF i, k
  <2>2. i \o <<>> = i /\ <<>> \o i = i /\ k \o <<>> = k /\ <<>> \o k = k /\ <<>> \o <<>> = <<>>
    BY <2>1
  <2>3. Together(x, c) = w /\ Together(c, x) = w /\ x.role = c.role
    BY <1>2, <1>3, <1>4, <1>8, <2>2 DEF Together, i, k
  <2>4. Put(Put(z, x), c) = Put(z, Together(x, c))
    BY <1>6, <2>3, PutTwice
  <2>5. Put(Put(z, c), x) = Put(z, Together(c, x))
    BY <1>6, <2>3, PutTwice
  <2> QED BY <1>5, <2>3, <2>4, <2>5 DEF x, c
<1> QED BY <1>1, <1>7, <1>8

\* What the turns so far are for the state after their items.
Tells(s, b) ==
  /\ s \in RespState /\ s.system = request.system /\ b \in Seq(SaidMessages)
  /\ Mean(s) = Grouped(b)
\* The results of the next turn follow their calls.
Ready(s, results) == Following(s.msgs) /\ (results # <<>> => Reach(s, CallsOf(results)))
Answerable(s, calls) == Following(s.msgs) /\ (calls # <<>> => Reach(s, ToSet(calls)))

\* The item of what the assistant thought.
ThoughtItem == RespItem("reasoning", None, <<>>, None)
Thoughts(t) == IF t.thinks THEN <<ThoughtItem>> ELSE <<>>

\* It is an item of the input, at most one for a turn.
LEMMA ThoughtItems ==
  /\ ThoughtItem \in RespItemOf /\ ThoughtItem.type = "reasoning"
  /\ \A t : Thoughts(t) \in Seq(RespItemOf)
<1> DEFINE x == ThoughtItem
           E == RespItemOf
<1>1. x.type = "reasoning"
  BY DEF ThoughtItem, RespItem
<1>2. x \in E
  <2>1. ~IsText(x)
    BY <1>1 DEF IsText
  <2>2. "reasoning" \in RespTypes
    BY DEF RespTypes
  <2>3. x \in [type : RespTypes, role : {None, "user", "assistant"}, content : Seq(Items),
               id : CallIds \cup {None}]
    BY <2>2 DEF ThoughtItem, RespItem
  <2> HIDE DEF x
  <2> QED BY <1>1, <2>1, <2>3 DEF RespItemOf
<1>3. \A t : Thoughts(t) = <<x>> \/ Thoughts(t) = <<>>
  BY DEF Thoughts
<1> HIDE DEF x, E
<1>4. <<x>> \in Seq(E) /\ <<>> \in Seq(E)
  BY <1>2
<1>5. \A t : Thoughts(t) \in Seq(E)
  BY <1>3, <1>4
<1> QED BY <1>1, <1>2, <1>5 DEF x, E

\* The results of a turn, after what the assistant thought.
LEMMA ResultsTold ==
  ASSUME request.system \in Seq(Items), NEW s, NEW b, Tells(s, b), NEW t, GoodTurn(t)
  PROVE  LET first == Thoughts(t) \o Outputs(t.results)
             u == Adds(s, first)
         IN /\ first \in Seq(RespItemOf) /\ Tells(u, b \o Tools(t.results))
            /\ Ready(s, t.results) => Following(u.msgs)
<1> DEFINE x == ThoughtItem
           th == Thoughts(t)
           outs == Outputs(t.results)
           tools == Tools(t.results)
           ids == CallsOf(t.results)
           u == Adds(s, th \o outs)
<1>1. s \in RespState /\ s.system = request.system /\ b \in Seq(SaidMessages) /\ Mean(s) = Grouped(b)
  BY DEF Tells
<1>2. x \in RespItemOf /\ x.type = "reasoning" /\ th \in Seq(RespItemOf)
  BY ThoughtItems
<1>12. th = <<x>> \/ th = <<>>
  BY DEF Thoughts
<1> HIDE DEF x, th
<1>3. th \in Seq(RespItemOf) /\ Adds(s, th) = s
  <2>1. <<>> \in Seq(RespItemOf) /\ <<x>> = Append(<<>>, x) /\ <<x>> \in Seq(RespItemOf)
    BY <1>2
  <2>2. Adds(s, <<>>) = s
    BY <1>1, <2>1, AddsType
  <2>3. Adds(s, Append(<<>>, x)) = AddItem(Adds(s, <<>>), x)
    BY <1>1, <1>2, <2>1, AddsAppend
  <2>4. AddItem(s, x) = s
    BY <1>1, <1>2, AddItemIs
  <2> QED BY <1>2, <1>12, <2>1, <2>2, <2>3, <2>4
<1>4. ids \in SUBSET CallIds /\ t.results \in Seq(Answering(ids))
  <2> DEFINE r == t.results
             A == Answering(ids)
  <2>1. r \in Seq(Results)
    BY DEF GoodTurn, Turns
  <2> HIDE DEF r
  <2>2. \A i \in DOMAIN r : r[i] \in Results /\ r[i] \in ToSet(r)
    BY <2>1 DEF ToSet
  <2>3. \A e \in ToSet(r) : e \in Results /\ e.call \in CallIds
    BY <2>2 DEF ToSet, Results
  <2>4. ids = {e.call : e \in ToSet(r)}
    BY DEF CallsOf, r
  <2>5. ids \in SUBSET CallIds
    BY <2>3, <2>4
  <2>6. \A i \in DOMAIN r : r[i] \in A
    BY <2>2, <2>4 DEF Answering
  <2> HIDE DEF A, ids
  <2>7. r \in Seq(A)
    BY <2>1, <2>6
  <2> QED BY <2>5, <2>7 DEF r, A
<1>5. OutputsGood(s, b, ids, t.results)
  BY <1>1, <1>4, OutputsAdded
<1>6. /\ outs \in Seq(RespItemOf) /\ tools \in Seq(SaidMessages) /\ Adds(s, outs) \in RespState
      /\ Mean(Adds(s, outs)) = Grouped(b \o tools)
      /\ Follows(s, ids) => Follows(Adds(s, outs), ids)
  BY <1>5 DEF OutputsGood
<1>10. t.results = <<>> => outs = <<>>
  BY DEF Outputs, RespOutputs
<1> HIDE DEF outs, tools, ids
<1>7. u = Adds(s, outs)
  BY <1>1, <1>3, <1>6, AddsConcat
<1>8. /\ th \o outs \in Seq(RespItemOf) /\ b \o tools \in Seq(SaidMessages)
      /\ Adds(s, outs).system = s.system
  BY <1>1, <1>3, <1>6, AddsSystem
<1>9. ASSUME Ready(s, t.results) PROVE Following(u.msgs)
  <2>1. CASE t.results # <<>>
    <3>1. Follows(s, ids)
      BY <1>9, <2>1 DEF Ready, Follows, ids
    <3> HIDE DEF u
    <3> QED BY <1>6, <1>7, <3>1 DEF Follows
  <2>2. CASE t.results = <<>>
    <3>1. Adds(s, <<>>) = s
      <4>1. <<>> \in Seq(RespItemOf)
        OBVIOUS
      <4> QED BY <1>1, <4>1, AddsType
    <3>2. u = s
      BY <1>7, <1>10, <2>2, <3>1
    <3> HIDE DEF u
    <3> QED BY <1>9, <3>2 DEF Ready
  <2> QED BY <2>1, <2>2
<1> HIDE DEF u
<1>11. Tells(u, b \o tools)
  BY <1>1, <1>6, <1>7, <1>8 DEF Tells
<1> QED BY <1>8, <1>9, <1>11 DEF u, th, outs, tools, x

CallItems(t) == RespItems("function_call", t.calls)
RestItems(t) ==
  IF request.mixed THEN CallItems(t) \o TextItems(t) ELSE TextItems(t) \o CallItems(t)

\* What remains of a state when calls are collected.
LEMMA CallsTold ==
  ASSUME request.system \in Seq(Items), NEW s \in RespState, NEW t, GoodTurn(t)
  PROVE  LET u == Adds(s, CallItems(t))
         IN /\ CallItems(t) \in Seq(RespItemOf) /\ u \in RespState
            /\ Mean(u) = Put(Mean(s), CallTurn(t.calls))
            /\ Following(s.msgs) => Answerable(u, t.calls)
<1> DEFINE u == Adds(s, CallItems(t))
           ids == t.calls
<1>1. ids \in Seq(CallIds) /\ s.calls \in Seq(CallIds)
  BY FlushIs DEF GoodTurn, Turns
<1>2. CallItems(t) \in Seq(RespItemOf) /\ u.msgs = s.msgs /\ u.calls = s.calls \o ids
  BY <1>1, CallsAdded DEF CallItems
<1>3. u \in RespState
  BY <1>2, AddsType
<1> HIDE DEF u, ids
<1>4. Mean(u) = Put(Mean(s), CallTurn(ids))
  BY <1>1, <1>2, <1>3, MeanCalls
<1>5. ASSUME Following(s.msgs) PROVE Answerable(u, ids)
  <2>1. ASSUME ids # <<>> PROVE Reach(u, ToSet(ids))
    <3> DEFINE c == s.calls
               d == c \o ids
    <3>1. c \in Seq(CallIds)
      BY <1>1
    <3> HIDE DEF c
    <3>2. /\ Len(c) \in Nat /\ Len(ids) \in Nat /\ Len(ids) # 0 /\ Len(d) = Len(c) + Len(ids)
          /\ DOMAIN d = 1 .. Len(c) + Len(ids)
      BY <1>1, <2>1, <3>1
    <3>5. DOMAIN ids = 1 .. Len(ids) /\ \A i \in 1 .. Len(ids) : d[Len(c) + i] = ids[i]
      BY <1>1, <3>1
    <3>6. ASSUME NEW i \in 1 .. Len(ids) PROVE Len(c) + i \in DOMAIN d
      BY <3>2
    <3> HIDE DEF d
    <3>3. ToSet(ids) \subseteq ToSet(d)
      BY <3>5, <3>6 DEF ToSet
    <3>4. d # <<>>
      BY <3>2
    <3> QED BY <1>2, <3>3, <3>4 DEF Reach, d, c
  <2> QED BY <1>2, <1>5, <2>1 DEF Answerable
<1> QED BY <1>2, <1>3, <1>4, <1>5 DEF u, ids

\* The text and the calls of a turn, in the order of the client.
LEMMA RestTold ==
  ASSUME request.system \in Seq(Items), NEW s, NEW b, Tells(s, b), NEW t, GoodTurn(t)
  PROVE  LET u == Adds(s, RestItems(t))
         IN /\ RestItems(t) \in Seq(RespItemOf) /\ Tells(u, Append(b, Wording(t)))
            /\ ~request.mixed /\ Following(s.msgs) => Answerable(u, t.calls)
<1> DEFINE text == TextItems(t)
           calls == CallItems(t)
           u == Adds(s, RestItems(t))
           w == Wording(t)
<1>1. s \in RespState /\ s.system = request.system /\ b \in Seq(SaidMessages) /\ Mean(s) = Grouped(b)
  BY DEF Tells
<1>2. w \in SaidMessages /\ TypedMessages(SaidMessages)
  BY SpokenType DEF GoodTurn
<1>3. Mean(s) \in Seq(TurnOf)
  BY <1>1, MeanFlush
<1>4. text \in Seq(RespItemOf) /\ calls \in Seq(RespItemOf)
  BY <1>1, TextAdded, CallsTold
<1>5. Append(b, w) \in Seq(SaidMessages) /\ Grouped(Append(b, w)) = Group(Mean(s), w)
  <2> DEFINE N == SaidMessages
  <2>1. TypedMessages(N) /\ b \in Seq(N) /\ w \in N
    BY <1>1, <1>2
  <2> HIDE DEF N, w
  <2>2. Grouped(Append(b, w)) = Group(Grouped(b), w) /\ Append(b, w) \in Seq(N)
    BY <2>1, GroupedLast
  <2> QED BY <1>1, <2>2 DEF N
<1>6. RestItems(t) \in Seq(RespItemOf) /\ u \in RespState /\ u.system = s.system
  <2>1. RestItems(t) \in Seq(RespItemOf)
    <3> HIDE DEF text, calls
    <3>1. text \o calls \in Seq(RespItemOf) /\ calls \o text \in Seq(RespItemOf)
      BY <1>4
    <3> QED BY <3>1 DEF RestItems, text, calls
  <2> QED BY <1>1, <2>1, AddsType, AddsSystem
<1>7. Mean(u) = Group(Mean(s), w) /\ (~request.mixed /\ Following(s.msgs) => Answerable(u, t.calls))
  <2>1. CASE request.mixed
    <3> DEFINE v == Adds(s, calls)
    <3>1. v \in RespState /\ Mean(v) = Put(Mean(s), CallTurn(t.calls))
      BY <1>1, CallsTold
    <3>2. u = Adds(v, text)
      <4>1. RestItems(t) = calls \o text
        BY <2>1 DEF RestItems
      <4> HIDE DEF calls, text
      <4>2. Adds(s, calls \o text) = Adds(Adds(s, calls), text)
        BY <1>1, <1>4, AddsConcat
      <4> QED BY <4>1, <4>2
    <3> HIDE DEF v
    <3>3. Mean(Adds(v, text)) = Put(Mean(v), TextTurn(t))
      BY <3>1, TextAdded
    <3>4. Put(Put(Mean(s), CallTurn(t.calls)), TextTurn(t)) = Group(Mean(s), w)
      BY <1>3, WordingPut
    <3> HIDE DEF u, w, text
    <3> QED BY <2>1, <3>1, <3>2, <3>3, <3>4
  <2>2. CASE ~request.mixed
    <3> DEFINE v == Adds(s, text)
    <3>1. /\ v \in RespState /\ Mean(v) = Put(Mean(s), TextTurn(t))
          /\ Following(s.msgs) => Following(v.msgs)
      BY <1>1, TextAdded
    <3>2. u = Adds(v, calls)
      <4>1. RestItems(t) = text \o calls
        BY <2>2 DEF RestItems
      <4> HIDE DEF calls, text
      <4>2. Adds(s, text \o calls) = Adds(Adds(s, text), calls)
        BY <1>1, <1>4, AddsConcat
      <4> QED BY <4>1, <4>2
    <3> HIDE DEF v
    <3>3. /\ Mean(Adds(v, calls)) = Put(Mean(v), CallTurn(t.calls))
          /\ Following(v.msgs) => Answerable(Adds(v, calls), t.calls)
      BY <3>1, CallsTold
    <3>4. Put(Put(Mean(s), TextTurn(t)), CallTurn(t.calls)) = Group(Mean(s), w)
      BY <1>3, WordingPut
    <3> HIDE DEF u, w, calls
    <3> QED BY <2>2, <3>1, <3>2, <3>3, <3>4
  <2> QED BY <2>1, <2>2
<1> HIDE DEF u, w
<1>8. Tells(u, Append(b, w))
  BY <1>1, <1>5, <1>6, <1>7 DEF Tells
<1> QED BY <1>6, <1>7, <1>8 DEF u, w

\* The items of a turn say what is spoken.
TurnTold(s, b, t) ==
  LET u == Adds(s, RespTurn(t))
  IN /\ RespTurn(t) \in Seq(RespItemOf)
     /\ Tells(u, b \o Spoken(t))
     /\ ~request.mixed /\ Ready(s, t.results) => Answerable(u, t.calls)

\* What holds of a turn holds of its items.
LEMMA ItemsTurn ==
  ASSUME request.system \in Seq(Items), NEW s, NEW b, Tells(s, b), NEW t, GoodTurn(t)
  PROVE  TurnTold(s, b, t)
<1> DEFINE th == Thoughts(t)
           outs == Outputs(t.results)
           first == th \o outs
           rest == RestItems(t)
           tools == Tools(t.results)
           v == Adds(s, first)
           c == b \o tools
           w == Wording(t)
<1>0. s \in RespState /\ b \in Seq(SaidMessages)
  BY DEF Tells
<1>1. /\ first \in Seq(RespItemOf) /\ Tells(v, c)
      /\ Ready(s, t.results) => Following(v.msgs)
  BY ResultsTold
<1>2. /\ rest \in Seq(RespItemOf) /\ Tells(Adds(v, rest), Append(c, w))
      /\ ~request.mixed /\ Following(v.msgs) => Answerable(Adds(v, rest), t.calls)
  <2> HIDE DEF v, c
  <2> QED BY <1>1, RestTold
<1>3. RespTurn(t) = first \o rest
  <2>1. rest = IF request.mixed
                 THEN RespItems("function_call", t.calls) \o TextItems(t)
                 ELSE TextItems(t) \o RespItems("function_call", t.calls)
    BY DEF RestItems, CallItems
  <2>2. TextItems(t) = IF t.items = <<>> THEN <<>>
              ELSE <<RespItem(IF request.mixed THEN "" ELSE "message", t.role, t.items, None)>>
    BY DEF TextItems, TextItem
  <2>3. RespTurn(t) = th \o outs \o rest
    <3> HIDE DEF rest
    <3> QED BY <2>1, <2>2 DEF RespTurn, Outputs, Thoughts, ThoughtItem
  <2>4. th \in Seq(RespItemOf) /\ outs \in Seq(RespItemOf)
    <3>1. outs \in Seq(RespItemOf)
      <4>1. \A r \in Results : OutputItem(r) \in RespItemOf
        BY ItemTypes
      <4>2. t.results \in Seq(Results)
        BY DEF GoodTurn, Turns
      <4>3. outs = [i \in DOMAIN t.results |-> OutputItem(t.results[i])]
        BY DEF Outputs, RespOutputs, OutputItem
      <4>4. DOMAIN t.results = 1 .. Len(t.results) /\ Len(t.results) \in Nat
            /\ \A i \in 1 .. Len(t.results) : OutputItem(t.results[i]) \in RespItemOf
        BY <4>1, <4>2
      <4> DEFINE o(i) == OutputItem(t.results[i])
                 E == RespItemOf
      <4>5. outs = [i \in 1 .. Len(t.results) |-> o(i)] /\ \A i \in 1 .. Len(t.results) : o(i) \in E
        BY <4>3, <4>4
      <4> HIDE DEF o, E, outs
      <4>6. outs \in Seq(E)
        BY <4>4, <4>5
      <4> QED BY <4>6 DEF E
    <3>2. th \in Seq(RespItemOf)
      BY ThoughtItems
    <3> QED BY <3>1, <3>2
  <2> DEFINE E == RespItemOf
  <2>5. th \in Seq(E) /\ outs \in Seq(E) /\ rest \in Seq(E)
    BY <1>2, <2>4
  <2> HIDE DEF E, th, outs, rest
  <2>6. th \o outs \o rest = (th \o outs) \o rest
    BY <2>5, ConcatAssociative
  <2> QED BY <2>3, <2>6
<1>4. b \o Spoken(t) = Append(c, w)
  <2>1. Spoken(t) = Append(tools, w) /\ tools \in Seq(SaidMessages) /\ w \in SaidMessages
    BY SpokenType DEF GoodTurn, Tools
  <2> HIDE DEF tools, w
  <2> QED BY <1>0, <2>1, ConcatAppend
<1> HIDE DEF first, rest, c, w
<1>5. Adds(s, RespTurn(t)) = Adds(v, rest)
  BY <1>0, <1>1, <1>2, <1>3, AddsConcat
<1>6. first \o rest \in Seq(RespItemOf)
  BY <1>1, <1>2
<1> HIDE DEF v
<1> QED BY <1>1, <1>2, <1>3, <1>4, <1>5, <1>6 DEF TurnTold

RespTurns == [i \in DOMAIN request.turns |-> RespTurn(request.turns[i])]
Before == [system |-> request.system, msgs |-> <<>>, calls |-> <<>>]
\* The state and what is said after some of the turns.
StateAt(k) == Adds(Before, FlattenSeq(Prefix(RespTurns, k)))
SaidAt(k) == SystemSaid \o FlattenSeq(Prefix(SpokenTurns(request.turns), k))
ToldUpTo(k) ==
  /\ FlattenSeq(Prefix(RespTurns, k)) \in Seq(RespItemOf)
  /\ Tells(StateAt(k), SaidAt(k))
  /\ ~request.mixed =>
       /\ Following(StateAt(k).msgs)
       /\ k > 0 => Answerable(StateAt(k), request.turns[k].calls)

\* Fewer calls are within reach as well.
LEMMA ReachFewer ==
  ASSUME NEW s, NEW ids, NEW few \in SUBSET ids, Reach(s, ids)
  PROVE  Reach(s, few)
<1>1. CASE s.calls = <<>>
  <2>1. PICK j \in 1 .. Len(s.msgs) :
          /\ ids \subseteq ToSet(s.msgs[j].calls)
          /\ \A k \in j + 1 .. Len(s.msgs) : s.msgs[k].role = "tool"
    BY <1>1 DEF Reach, Reaches
  <2>2. few \subseteq ToSet(s.msgs[j].calls)
    BY <2>1
  <2> QED BY <1>1, <2>1, <2>2 DEF Reach, Reaches
<1>2. CASE s.calls # <<>>
  BY <1>2 DEF Reach
<1> QED BY <1>1, <1>2

\* The items of the turns, and the state before the first.
LEMMA RespTurnsType ==
  ASSUME request.system \in Seq(Items), IsConversation(request.turns)
  PROVE  /\ RespTurns \in Seq(Seq(RespItemOf)) /\ Len(RespTurns) = Len(request.turns)
         /\ \A i \in 1 .. Len(request.turns) : RespTurns[i] = RespTurn(request.turns[i])
         /\ Tells(Before, SystemSaid) /\ Following(Before.msgs)
<1> DEFINE turns == request.turns
           n == Len(turns)
           x(i) == RespTurn(turns[i])
           T == Seq(RespItemOf)
<1>1. n \in Nat /\ DOMAIN turns = 1 .. n /\ \A i \in 1 .. n : GoodTurn(turns[i])
  BY GoodTurns
<1>2. Tells(Before, SystemSaid)
  <2>0. /\ SystemFirst \in Seq(UpMessages) /\ SystemSaid \in Seq(SaidMessages)
        /\ Grouped(SystemFirst) = Grouped(SystemSaid)
    BY SystemKept
  <2>1. /\ Before \in RespState /\ Before.system = request.system
        /\ Before.msgs = <<>> /\ Before.calls = <<>>
    BY DEF Before, RespState
  <2>2. Silent(CallTurn(<<>>))
    <3>1. <<>> \in Seq(CallIds)
      OBVIOUS
    <3> QED BY <3>1, CallTurns
  <2>3. SystemFirst \o <<>> = SystemFirst
    BY <2>0
  <2>4. Mean(Before) = Put(Grouped(SystemFirst), CallTurn(<<>>))
    BY <2>1, <2>3 DEF Mean
  <2>5. Mean(Before) = Grouped(SystemSaid)
    BY <2>0, <2>2, <2>4, PutSilent
  <2> QED BY <2>0, <2>1, <2>5 DEF Tells
<1>3. ASSUME NEW i \in 1 .. n PROVE x(i) \in T
  <2> DEFINE t == turns[i]
  <2>1. GoodTurn(t)
    BY <1>1
  <2> HIDE DEF t
  <2>2. TurnTold(Before, SystemSaid, t)
    BY <1>2, <2>1, ItemsTurn
  <2> QED BY <2>2 DEF TurnTold, t
<1>4. RespTurns = [i \in 1 .. n |-> x(i)]
  BY <1>1 DEF RespTurns
<1>6. Following(Before.msgs)
  <2>1. Before.msgs = <<>>
    BY DEF Before
  <2> QED BY <2>1 DEF Following
<1>5. RespTurns \in Seq(T) /\ Len(RespTurns) = n /\ \A i \in 1 .. n : RespTurns[i] = x(i)
  <2> HIDE DEF x, T
  <2>1. [i \in 1 .. n |-> x(i)] \in Seq(T)
    BY <1>1, <1>3
  <2>2. /\ Len([i \in 1 .. n |-> x(i)]) = n
        /\ \A i \in 1 .. n : [j \in 1 .. n |-> x(j)][i] = x(i)
    BY <1>1
  <2> QED BY <1>4, <2>1, <2>2
<1> QED BY <1>2, <1>5, <1>6

\* The step of the induction over the turns.
LEMMA ToldNext ==
  ASSUME request.system \in Seq(Items), IsConversation(request.turns),
         NEW k \in 0 .. Len(request.turns) - 1, ToldUpTo(k)
  PROVE  ToldUpTo(k + 1)
<1> DEFINE turns == request.turns
           sp == SpokenTurns(turns)
           q == FlattenSeq(Prefix(RespTurns, k))
           g == FlattenSeq(Prefix(sp, k))
           t == turns[k + 1]
           items == RespTurn(t)
           s == Adds(Before, q)
           b == SystemSaid \o g
           u == Adds(s, items)
<1>1. /\ Len(turns) \in Nat /\ DOMAIN turns = 1 .. Len(turns) /\ k \in Nat
      /\ k + 1 \in 1 .. Len(turns) /\ GoodTurn(t) /\ turns \in Seq(Turns)
  BY GoodTurns
<1>2. /\ q \in Seq(RespItemOf) /\ Tells(s, b)
      /\ ~request.mixed => Following(s.msgs)
      /\ ~request.mixed /\ k > 0 => Answerable(s, turns[k].calls)
  BY DEF ToldUpTo, StateAt, SaidAt
<1>3. /\ RespTurns \in Seq(Seq(RespItemOf)) /\ Len(RespTurns) = Len(turns)
      /\ RespTurns[k + 1] = items /\ Tells(Before, SystemSaid)
  BY <1>1, RespTurnsType
<1>4. sp \in Seq(Seq(SaidMessages)) /\ Len(sp) = Len(turns) /\ sp[k + 1] = Spoken(t)
  <2>1. sp \in Seq(Seq(SaidMessages)) /\ Len(sp) = Len(turns)
    BY <1>1, SpokenTurnsType
  <2>2. sp[k + 1] = Spoken(t)
    BY <1>1 DEF SpokenTurns
  <2> QED BY <2>1, <2>2
<1>5. ASSUME ~request.mixed PROVE Ready(s, t.results)
  <2> SUFFICES ASSUME t.results # <<>> PROVE Reach(s, CallsOf(t.results))
    BY <1>2, <1>5 DEF Ready
  <2> DEFINE l == k + 1
             calls == turns[k].calls
  <2>0. l \in DOMAIN turns /\ turns[l].results # <<>> /\ l - 1 = k
    BY <1>1
  <2>1. l > 1 /\ CallsOf(turns[l].results) \subseteq ToSet(turns[l - 1].calls)
    <3> HIDE DEF l
    <3> QED BY <2>0 DEF IsConversation
  <2>2. k > 0 /\ CallsOf(t.results) \subseteq ToSet(calls)
    BY <1>1, <2>0, <2>1
  <2>3. calls # <<>>
    <3>1. t.results \in Seq(Results)
      BY <1>1 DEF GoodTurn, Turns
    <3>2. 1 \in DOMAIN t.results
      BY <3>1
    <3>3. t.results[1].call \in ToSet(calls)
      BY <2>2, <3>2 DEF CallsOf, ToSet
    <3>4. calls = <<>> => ToSet(calls) = {}
      BY DEF ToSet
    <3> QED BY <3>3, <3>4
  <2>4. Reach(s, ToSet(calls))
    <3> HIDE DEF calls, s
    <3> QED BY <1>2, <1>5, <2>2, <2>3 DEF Answerable, calls
  <2> HIDE DEF calls, s
  <2> QED BY <2>2, <2>4, ReachFewer
<1> HIDE DEF sp, q, g, t, items
<1>6. /\ Prefix(RespTurns, k) \in Seq(Seq(RespItemOf)) /\ items \in Seq(RespItemOf)
      /\ Prefix(RespTurns, k + 1) = Append(Prefix(RespTurns, k), items)
  <2>1. k \in 0 .. Len(RespTurns) - 1
    BY <1>3
  <2>2. /\ Prefix(RespTurns, k) \in Seq(Seq(RespItemOf)) /\ RespTurns[k + 1] \in Seq(RespItemOf)
        /\ Prefix(RespTurns, k + 1) = Append(Prefix(RespTurns, k), RespTurns[k + 1])
    BY <1>3, <2>1, PrefixNext
  <2> QED BY <1>3, <2>2
<1>7. /\ Prefix(sp, k) \in Seq(Seq(SaidMessages)) /\ Spoken(t) \in Seq(SaidMessages)
      /\ Prefix(sp, k + 1) = Append(Prefix(sp, k), Spoken(t))
  <2>1. k \in 0 .. Len(sp) - 1
    BY <1>4
  <2>2. /\ Prefix(sp, k) \in Seq(Seq(SaidMessages)) /\ sp[k + 1] \in Seq(SaidMessages)
        /\ Prefix(sp, k + 1) = Append(Prefix(sp, k), sp[k + 1])
    BY <1>4, <2>1, PrefixNext
  <2> QED BY <1>4, <2>2
<1>8. FlattenSeq(Prefix(RespTurns, k + 1)) = q \o items
  BY <1>6, Flattened DEF q
<1>9. FlattenSeq(Prefix(sp, k + 1)) = g \o Spoken(t) /\ g \in Seq(SaidMessages)
  BY <1>7, Flattened DEF g
<1>10. StateAt(k + 1) = u /\ q \o items \in Seq(RespItemOf)
  <2>1. Before \in RespState
    BY <1>3 DEF Tells
  <2>2. Adds(Before, q \o items) = u
    BY <1>2, <1>6, <2>1, AddsConcat
  <2>3. q \o items \in Seq(RespItemOf)
    BY <1>2, <1>6
  <2> HIDE DEF u
  <2> QED BY <1>8, <2>2, <2>3 DEF StateAt
<1>11. SaidAt(k + 1) = b \o Spoken(t)
  <2> DEFINE a == SystemSaid
             c == Spoken(t)
             N == SaidMessages
  <2>1. a \in Seq(N) /\ g \in Seq(N) /\ c \in Seq(N)
    BY <1>3, <1>7, <1>9 DEF Tells
  <2> HIDE DEF a, c, N
  <2>2. a \o (g \o c) = (a \o g) \o c
    BY <2>1, ConcatAssociative
  <2> QED BY <1>9, <2>2 DEF SaidAt, a, c, sp
<1> HIDE DEF u
<1>12. /\ Tells(u, b \o Spoken(t))
       /\ ~request.mixed /\ Ready(s, t.results) => Answerable(u, t.calls)
  <2> HIDE DEF s, b
  <2>1. TurnTold(s, b, t)
    BY <1>1, <1>2, ItemsTurn DEF t
  <2> QED BY <2>1 DEF TurnTold, u, items
<1>13. ~request.mixed => Following(u.msgs) /\ Answerable(u, t.calls)
  BY <1>5, <1>12 DEF Answerable
<1> HIDE DEF s, b
<1> QED BY <1>8, <1>10, <1>11, <1>12, <1>13 DEF ToldUpTo, t

\* The items of the whole conversation tell all that is said.
LEMMA AllTold ==
  ASSUME request.system \in Seq(Items), IsConversation(request.turns)
  PROVE  /\ RespInput \in Seq(RespItemOf)
         /\ Tells(Adds(Before, RespInput), SystemSaid \o FlattenSeq(SpokenTurns(request.turns)))
         /\ ~request.mixed => Following(Adds(Before, RespInput).msgs)
<1> DEFINE n == Len(request.turns)
           sp == SpokenTurns(request.turns)
           K == {k \in 0 .. n : ToldUpTo(k)}
<1>1. /\ n \in Nat /\ RespTurns \in Seq(Seq(RespItemOf)) /\ Len(RespTurns) = n
      /\ Tells(Before, SystemSaid) /\ Following(Before.msgs)
  <2>1. n \in Nat
    BY GoodTurns
  <2> HIDE DEF n
  <2> QED BY <2>1, RespTurnsType DEF n
<1>2. sp \in Seq(Seq(SaidMessages)) /\ Len(sp) = n
  <2>1. request.turns \in Seq(Turns)
    BY DEF IsConversation
  <2> HIDE DEF n, sp
  <2> QED BY <2>1, SpokenTurnsType DEF n, sp
<1>3. /\ Prefix(RespTurns, 0) = <<>> /\ Prefix(RespTurns, n) = RespTurns
  BY <1>1, PrefixEnds
<1>4. Prefix(sp, 0) = <<>> /\ Prefix(sp, n) = sp
  <2> HIDE DEF sp, n
  <2> QED BY <1>2, PrefixEnds
<1> HIDE DEF sp, n
<1>5. ToldUpTo(0)
  <2> DEFINE q == FlattenSeq(Prefix(RespTurns, 0))
             g == FlattenSeq(Prefix(sp, 0))
             b == SystemSaid
  <2>1. q = <<>> /\ g = <<>>
    BY <1>3, <1>4 DEF FlattenSeq
  <2>2. b \in Seq(SaidMessages) /\ Before \in RespState
    BY <1>1 DEF Tells
  <2> HIDE DEF q, g, b
  <2>3. q \in Seq(RespItemOf) /\ b \o g = b
    BY <2>1, <2>2
  <2>4. Adds(Before, q) = Before
    <3>1. <<>> \in Seq(RespItemOf)
      OBVIOUS
    <3> QED BY <2>1, <2>2, <3>1, AddsType
  <2>5. StateAt(0) = Before /\ SaidAt(0) = SystemSaid
    BY <2>3, <2>4 DEF StateAt, SaidAt, q, g, b, sp
  <2>6. ~(0 > 0)
    OBVIOUS
  <2> QED BY <1>1, <2>3, <2>5, <2>6 DEF ToldUpTo, q
<1>6. ASSUME NEW k \in 0 .. n - 1, k \in K PROVE k + 1 \in K
  <2>1. k + 1 \in 0 .. n /\ ToldUpTo(k) /\ k \in 0 .. Len(request.turns) - 1
    BY <1>1, <1>6 DEF n
  <2>2. ToldUpTo(k + 1)
    BY <2>1, ToldNext
  <2> QED BY <2>1, <2>2
<1>7. n \in K
  <2>1. 0 \in K
    BY <1>1, <1>5
  <2> HIDE DEF K
  <2>2. 0 .. n \subseteq K
    BY <1>1, <1>6, <2>1, UpTo
  <2> QED BY <1>1, <2>2
<1>8. RespInput = FlattenSeq(RespTurns)
  BY DEF RespInput, RespTurns
<1>9. StateAt(n) = Adds(Before, RespInput) /\ SaidAt(n) = SystemSaid \o FlattenSeq(sp)
  BY <1>3, <1>4, <1>8 DEF StateAt, SaidAt, sp
<1>10. ToldUpTo(n)
  BY <1>7
<1>11. RespInput \in Seq(RespItemOf)
  BY <1>3, <1>8, <1>10 DEF ToldUpTo
<1> QED BY <1>9, <1>10, <1>11 DEF ToldUpTo, sp

\* The text that is the whole input is the one message of the one turn.
LEMMA OneTextSays ==
  ASSUME request.system \in Seq(Items), IsConversation(request.turns), OneText
  PROVE  LET items == request.turns[1].items
             msgs == <<Message("user", items, <<Part(items, FALSE)>>, <<>>, None)>>
         IN SaysAll(msgs, request.turns) /\ Following(msgs)
<1> DEFINE t == request.turns[1]
           items == t.items
           m == Message("user", items, <<Part(items, FALSE)>>, <<>>, None)
           M == UpMessages
           segs == <<<<m>>>>
<1>1. /\ Len(request.turns) = 1 /\ t.results = <<>> /\ request.turns # <<>>
      /\ GoodTurn(t) /\ t \in Turns
  <2>1. Len(request.turns) = 1 /\ t.results = <<>>
    BY DEF OneText
  <2>2. 1 \in 1 .. Len(request.turns)
    BY <2>1
  <2>3. GoodTurn(t)
    BY <2>2, GoodTurns
  <2> QED BY <2>1, <2>3 DEF GoodTurn
<1>2. t.role = "user" /\ t.calls = <<>>
  <2>1. t.role = "user"
    BY <1>1 DEF IsConversation
  <2> QED BY <1>1, <2>1 DEF GoodTurn
<1>3. items \in Seq(Items)
  BY <1>1 DEF Turns
<1>4. m \in M
  <2> DEFINE p == Part(items, FALSE)
             P == [of : Seq(Items), cache : BOOLEAN]
  <2>1. p \in P
    BY <1>3 DEF Part
  <2> HIDE DEF p, P
  <2>2. <<p>> \in Seq(P)
    BY <2>1
  <2>3. Message("user", items, <<p>>, <<>>, None) \in M
    BY <1>3, <2>2 DEF Message, UpMessages, Roles, P
  <2> QED BY <2>3 DEF p
<1>5. AsTurn(m) = AsTurn(Wording(t))
  BY <1>2 DEF Message, AsTurn, Wording
<1>6. ResultsOf(M, <<>>, t)
  BY <1>1 DEF ResultsOf
<1> HIDE DEF m, M
<1>7. <<>> \o <<m>> = <<m>> /\ <<m>> \in Seq(M)
  BY <1>4
<1>8. Shaped(<<m>>, t)
  <2>1. Shaped(<<>> \o <<m>>, t)
    BY <1>1, <1>4, <1>5, <1>6, ShapedWith
  <2> QED BY <1>7, <2>1
<1>9. Segments(M, segs, request.turns)
  <2> DEFINE x == <<m>>
             X == Seq(M)
  <2>1. x \in X /\ Shaped(x, t)
    BY <1>7, <1>8
  <2> HIDE DEF x, X, t
  <2>2. <<x>> \in Seq(X) /\ Len(<<x>>) = 1 /\ <<x>>[1] = x
    BY <2>1
  <2>3. \A i \in 1 .. Len(request.turns) : i = 1
    BY <1>1
  <2>4. \A i \in 1 .. Len(request.turns) : Shaped(<<x>>[i], request.turns[i])
    BY <2>1, <2>2, <2>3 DEF t
  <2> QED BY <1>1, <2>2, <2>4 DEF Segments, x, X
<1>10. FlattenSeq(segs) = <<m>>
  <2> DEFINE x == <<m>>
             X == Seq(M)
             none == <<>>
  <2>1. none \in Seq(X) /\ x \in Seq(M) /\ FlattenSeq(none) = <<>>
    BY <1>7 DEF FlattenSeq
  <2>2. Append(none, x) = <<x>>
    OBVIOUS
  <2> HIDE DEF x, none
  <2>3. FlattenSeq(Append(none, x)) = FlattenSeq(none) \o x
    <3>1. none \in Seq(Seq(M))
      BY <2>1
    <3> QED BY <2>1, <3>1, Flattened
  <2>4. FlattenSeq(<<x>>) = x
    BY <2>1, <2>2, <2>3
  <2> QED BY <2>4 DEF x
<1>11. SaysAll(FlattenSeq(segs), request.turns) /\ Following(FlattenSeq(segs))
  <2>1. Segments(UpMessages, segs, request.turns)
    BY <1>9 DEF M
  <2> QED BY <2>1, ShapedSays
<1> QED BY <1>10, <1>11 DEF m

\* The Responses protocol keeps the conversation; between calls and their results is
\* only what the client has put there.
LEMMA FromResponsesKeeps ==
  ASSUME IsConversation(request.turns), request.system \in Seq(Items)
  PROVE  LET r == FromResponses(RespRequest)
             msgs == WithSystem(r.system, r.messages)
         IN /\ Grouped(msgs) = Said(request.turns) /\ msgs \in Seq(UpMessages)
            /\ ~request.mixed => Following(msgs)
<1> DEFINE q == RespRequest
           r == FromResponses(q)
           items == request.turns[1].items
           text == <<Message("user", items, <<Part(items, FALSE)>>, <<>>, None)>>
           s == Adds(Before, RespInput)
           up == IF OneText THEN text ELSE Flush(s).msgs
<1>1. /\ q.instructions = request.system /\ q.string = OneText
      /\ q.input = IF OneText THEN items ELSE RespInput
  BY DEF RespRequest
<1>2. /\ Tells(s, SystemSaid \o FlattenSeq(SpokenTurns(request.turns)))
      /\ ~request.mixed => Following(s.msgs)
  BY AllTold
<1>3. s \in RespState /\ s.system = request.system /\ Mean(s) = Said(request.turns)
  BY <1>2, SaidIs DEF Tells
<1>4. RespToUpstream(request.system, RespInput) = Flush(s)
  BY DEF RespToUpstream, Adds, Before
<1> HIDE DEF q, s
<1>5. r.system = request.system /\ r.messages = EnsureCacheMarker(up)
  <2>1. CASE OneText
    BY <1>1, <2>1 DEF FromResponses
  <2>2. CASE ~OneText
    <3>1. Flush(s).system = request.system
      BY <1>3, FlushIs
    <3> QED BY <1>1, <1>4, <2>2, <3>1 DEF FromResponses
  <2> QED BY <2>1, <2>2
<1> HIDE DEF r
<1>6. SaysAll(up, request.turns) /\ (~request.mixed => Following(up))
  <2>1. CASE OneText
    <3>1. SaysAll(text, request.turns) /\ Following(text)
      BY <2>1, OneTextSays
    <3> HIDE DEF text
    <3> QED BY <2>1, <3>1
  <2>2. CASE ~OneText
    <3>1. Grouped(SystemFirst \o Flush(s).msgs) = Said(request.turns)
      BY <1>3, MeanFlush
    <3>2. Flush(s).msgs \in Seq(UpMessages)
      <4>1. Flush(s) \in RespState
        BY <1>3, FlushIs
      <4> QED BY <4>1 DEF RespState
    <3>3. ~request.mixed => Following(Flush(s).msgs)
      BY <1>2, <1>3, FlushReach
    <3> HIDE DEF text
    <3> QED BY <2>2, <3>1, <3>2, <3>3 DEF SaysAll
  <2> QED BY <2>1, <2>2
<1> HIDE DEF up
<1>7. up \in Seq(UpMessages)
  BY <1>6 DEF SaysAll
<1>8. /\ Grouped(WithSystem(request.system, EnsureCacheMarker(up))) = Said(request.turns)
      /\ WithSystem(request.system, EnsureCacheMarker(up)) \in Seq(UpMessages)
  BY <1>6, BodySays
<1>9. ~request.mixed => Following(WithSystem(request.system, EnsureCacheMarker(up)))
  BY <1>6, <1>7, BodyFollows
<1> QED BY <1>5, <1>8, <1>9 DEF r, q

----------------------------------------------------------------------------
(* The tools and the choice among them.                                    *)

ToolOf == [type : {"function"}, name : ToolNames]

\* The functions of a request.
LEMMA FunctionTools ==
  ASSUME request.tools \in Seq(ToolNames)
  PROVE  Functions \in Seq(ToolOf)
<1> DEFINE x(i) == [type |-> "function", name |-> request.tools[i]]
           n == Len(request.tools)
<1>1. n \in Nat /\ DOMAIN request.tools = 1 .. n
  OBVIOUS
<1>2. \A i \in 1 .. n : x(i) \in ToolOf
  BY DEF ToolOf
<1>3. Functions = [i \in 1 .. n |-> x(i)]
  BY <1>1 DEF Functions
<1> DEFINE T == ToolOf
<1> HIDE DEF x, n, T
<1>4. [i \in 1 .. n |-> x(i)] \in Seq(T)
  BY <1>1, <1>2 DEF T
<1> QED BY <1>3, <1>4 DEF T

\* Of the tools of a client of the Responses API the functions are kept.
LEMMA FunctionsKept ==
  ASSUME request.tools \in Seq(ToolNames)
  PROVE  Those(Append(Functions, Hosted), LAMBDA t : t.type = "function") = Functions
<1> DEFINE f == Functions
           E == ToolOf \cup {Hosted}
           all == Append(f, Hosted)
<1>1. f \in Seq(ToolOf)
  BY FunctionTools
<1>2. f \in Seq(E) /\ Hosted \in E /\ Hosted \notin ToolOf
  <2>1. Hosted \notin ToolOf /\ ToolOf \subseteq E
    BY DEF Hosted, ToolOf
  <2> HIDE DEF f
  <2>2. f \in Seq(E)
    BY <1>1, <2>1
  <2> QED BY <2>1, <2>2
<1>3. \A t \in E : t.type = "function" <=> t \in ToolOf
  BY DEF Hosted, ToolOf
<1> HIDE DEF f
<1>4. all \in Seq(E) /\ DOMAIN all = 1 .. Len(all)
  <2> HIDE DEF E
  <2> QED BY <1>2
<1>5. \A i \in DOMAIN all : all[i] \in E
  <2> HIDE DEF E, all
  <2> QED BY <1>4
<1>6. Those(all, LAMBDA t : t.type = "function") = Chosen(all, ToolOf)
  <2>1. [i \in DOMAIN all |-> IF all[i].type = "function" THEN <<all[i]>> ELSE <<>>]
         = [i \in DOMAIN all |-> IF all[i] \in ToolOf THEN <<all[i]>> ELSE <<>>]
    <3> HIDE DEF E, all
    <3> QED BY <1>3, <1>5
  <2> HIDE DEF all
  <2> QED BY <2>1 DEF Those, Chosen
<1>7. Chosen(all, ToolOf) = Chosen(f, ToolOf)
  <2> HIDE DEF E
  <2> QED BY <1>2, ChosenOut
<1>8. Chosen(f, ToolOf) = f
  BY <1>1, ChosenAll
<1> QED BY <1>6, <1>7, <1>8 DEF f

\* The choice of a client of the Anthropic protocol is the one of the OpenAI protocol.
LEMMA SameChoice ==
  ASSUME request.choice \in {None, "one", "some", "auto"}, request.tools \in Seq(ToolNames),
         request.choice = "one" => request.tools # <<>>
  PROVE  (IF AnthropicChoice = None THEN None ELSE ToolChoiceToUpstream(AnthropicChoice))
           = OaiChoice(TRUE)
<1> DEFINE h == Head(request.tools)
<1>1. \A t \in {"tool", "any", "auto"}, n \in ToolNames \cup {None} : Choice(t, n, FALSE) # None
  BY NoneAssumption
<1>2. CASE request.choice = "one"
  <2>1. h \in ToolNames
    BY <1>2
  <2>2. AnthropicChoice = Choice("tool", h, FALSE) /\ OaiChoice(TRUE) = Choice("function", h, TRUE)
    BY <1>2 DEF AnthropicChoice, OaiChoice
  <2>3. ToolChoiceToUpstream(Choice("tool", h, FALSE)) = Choice("function", h, TRUE)
    BY DEF ToolChoiceToUpstream, Choice
  <2> QED BY <1>1, <2>1, <2>2, <2>3
<1>3. CASE request.choice = "some"
  <2>1. /\ AnthropicChoice = Choice("any", None, FALSE)
        /\ OaiChoice(TRUE) = Choice("required", None, FALSE)
    BY <1>3 DEF AnthropicChoice, OaiChoice
  <2>2. ToolChoiceToUpstream(Choice("any", None, FALSE)) = Choice("required", None, FALSE)
    BY DEF ToolChoiceToUpstream, Choice
  <2> QED BY <1>1, <2>1, <2>2
<1>4. CASE request.choice = "auto"
  <2>1. /\ AnthropicChoice = Choice("auto", None, FALSE)
        /\ OaiChoice(TRUE) = Choice("auto", None, FALSE)
    BY <1>4 DEF AnthropicChoice, OaiChoice
  <2>2. ToolChoiceToUpstream(Choice("auto", None, FALSE)) = Choice("auto", None, FALSE)
    BY DEF ToolChoiceToUpstream, Choice
  <2> QED BY <1>1, <2>1, <2>2
<1>5. CASE request.choice \notin {"one", "some", "auto"}
  BY <1>5 DEF AnthropicChoice, OaiChoice
<1> QED BY <1>2, <1>3, <1>4, <1>5

----------------------------------------------------------------------------
(* What is sent.                                                           *)

\* A body says what the client said, whichever protocol it comes from.
Says(protocol, body) ==
  /\ Grouped(body.messages) = Said(IF protocol = "messages" THEN HeardTurns ELSE request.turns)
  /\ body.messages \in Seq(UpMessages)
  /\ ~(protocol = "responses" /\ request.mixed) => Following(body.messages)
  /\ body.tools = Functions
  /\ \/ protocol = "responses" /\ request.choice = "one"
     \/ body.choice = OaiChoice(TRUE)

\* The body of an Anthropic request,
LEMMA MessagesSay ==
  ASSUME IsRequest(request), NEW key, NEW window, NEW session
  PROVE  Says("messages", RemoteChatAskBody(FromMessages(AnthropicRequest), key, window, session))
<1> DEFINE r == FromMessages(AnthropicRequest)
           msgs == WithSystem(r.system, r.messages)
<1>1. /\ IsConversation(request.turns) /\ request.system \in Seq(Items)
      /\ request.choice \in {None, "one", "some", "auto"} /\ request.tools \in Seq(ToolNames)
      /\ request.choice = "one" => request.tools # <<>>
  BY DEF IsRequest
<1>2. Grouped(msgs) = Said(HeardTurns) /\ Following(msgs) /\ msgs \in Seq(UpMessages)
  BY <1>1, FromMessagesKeeps
<1>3. r.tools = Functions
  BY DEF FromMessages, AnthropicRequest
<1>4. r.choice = OaiChoice(TRUE)
  <2>1. r.choice = IF AnthropicChoice = None THEN None ELSE ToolChoiceToUpstream(AnthropicChoice)
    BY DEF FromMessages, AnthropicRequest
  <2> QED BY <1>1, <2>1, SameChoice
<1> HIDE DEF r
<1> QED BY <1>2, <1>3, <1>4 DEF Says, RemoteChatAskBody, r

\* of an OpenAI request
LEMMA ChatSays ==
  ASSUME IsRequest(request), NEW key, NEW window, NEW session
  PROVE  Says("chat", RemoteChatAskBody(FromChat(ChatRequest), key, window, session))
<1> DEFINE r == FromChat(ChatRequest)
           msgs == WithSystem(r.system, r.messages)
<1>1. IsConversation(request.turns) /\ request.system \in Seq(Items \ Images)
  BY DEF IsRequest
<1>2. Grouped(msgs) = Said(request.turns) /\ Following(msgs) /\ msgs \in Seq(UpMessages)
  BY <1>1, FromChatKeeps
<1>3. r.tools = Functions /\ r.choice = OaiChoice(TRUE)
  BY DEF FromChat, ChatRequest
<1> HIDE DEF r
<1> QED BY <1>2, <1>3 DEF Says, RemoteChatAskBody, r

\* and of a Responses request.
LEMMA ResponsesSay ==
  ASSUME IsRequest(request), NEW key, NEW window, NEW session
  PROVE  Says("responses", RemoteChatAskBody(FromResponses(RespRequest), key, window, session))
<1> DEFINE r == FromResponses(RespRequest)
           msgs == WithSystem(r.system, r.messages)
<1>1. /\ IsConversation(request.turns) /\ request.system \in Seq(Items)
      /\ request.tools \in Seq(ToolNames) /\ request.mixed \in BOOLEAN
  BY DEF IsRequest
<1>2. /\ Grouped(msgs) = Said(request.turns) /\ msgs \in Seq(UpMessages)
      /\ ~request.mixed => Following(msgs)
  BY <1>1, FromResponsesKeeps
<1>3. r.tools = Functions
  <2>1. r.tools = Those(Append(Functions, Hosted), LAMBDA t : t.type = "function")
    BY DEF FromResponses, RespRequest
  <2> QED BY <1>1, <2>1, FunctionsKept
<1>4. r.choice = OaiChoice(FALSE)
  BY DEF FromResponses, RespRequest
<1>5. request.choice = "one" \/ OaiChoice(FALSE) = OaiChoice(TRUE)
  BY DEF OaiChoice
<1> HIDE DEF r
<1> QED BY <1>1, <1>2, <1>3, <1>4, <1>5 DEF Says, RemoteChatAskBody, r

----------------------------------------------------------------------------
(* The invariant.                                                          *)

Talking == IsRequest(request) /\ (Sent => Says(reply.protocol, reply.body))

\* An answer to a request says what the request said.
LEMMA HandleSays ==
  ASSUME IsRequest(request), NEW protocol, NEW readable, NEW converted,
         \A key, window, session :
           Says(protocol, RemoteChatAskBody(converted, key, window, session)),
         Handle(protocol, readable, converted)
  PROVE  UNCHANGED request /\ (Sent' => Says(reply'.protocol, reply'.body))
<1>1. UNCHANGED request
  BY DEF Handle
<1>2. CASE Unauthorized(protocol) \/ Refused(protocol) \/ Unreadable(protocol)
  BY <1>1, <1>2 DEF Unauthorized, Refused, Unreadable, Reply, Sent
<1>3. CASE Accept(protocol, converted)
  <2>1. PICK key, window, session :
          reply' = Reply(protocol, 200, RemoteChatAskBody(converted, key, window, session))
    BY <1>3 DEF Accept
  <2> DEFINE body == RemoteChatAskBody(converted, key, window, session)
  <2>2. Says(protocol, body)
    OBVIOUS
  <2> HIDE DEF body
  <2>3. reply'.protocol = protocol /\ reply'.body = body
    BY <2>1 DEF Reply, body
  <2> QED BY <1>1, <2>2, <2>3
<1> QED BY <1>2, <1>3 DEF Handle

\* Every step keeps the invariant.
LEMMA TalkingSteps ==
  ASSUME Talking, [Next]_vars
  PROVE  Talking'
<1> USE DEF Talking
<1>1. ASSUME UNCHANGED request, Sent' => Says(reply'.protocol, reply'.body) PROVE Talking'
  <2>1. Says(reply.protocol, reply.body)' <=> Says(reply'.protocol, reply'.body)
    BY <1>1 DEF Says, Said, HeardTurns, Functions, OaiChoice
  <2> QED BY <1>1, <2>1
<1>2. CASE Start \/ StartFails
  BY <1>1, <1>2 DEF Start, StartFails, Sent
<1>3. CASE HandleMessages
  <2>1. \A key, window, session :
          Says("messages", RemoteChatAskBody(FromMessages(AnthropicRequest), key, window, session))
    BY MessagesSay
  <2> QED BY <1>1, <1>3, <2>1, HandleSays DEF HandleMessages
<1>4. CASE HandleChatCompletions
  <2>1. \A key, window, session :
          Says("chat", RemoteChatAskBody(FromChat(ChatRequest), key, window, session))
    BY ChatSays
  <2> QED BY <1>1, <1>4, <2>1, HandleSays DEF HandleChatCompletions
<1>5. CASE HandleResponses
  <2>1. \A key, window, session :
          Says("responses", RemoteChatAskBody(FromResponses(RespRequest), key, window, session))
    BY ResponsesSay
  <2> QED BY <1>1, <1>5, <2>1, HandleSays DEF HandleResponses
<1>6. CASE HandleModels
  <2>1. UNCHANGED request /\ ~Sent'
    BY <1>6 DEF HandleModels, Unauthorized, Reply, Sent
  <2> QED BY <1>1, <2>1
<1>7. CASE UNCHANGED vars
  BY <1>1, <1>7 DEF vars, Sent
<1> QED BY <1>2, <1>3, <1>4, <1>5, <1>6, <1>7 DEF Next

\* It holds always.
LEMMA AlwaysTalking == Spec => []Talking
<1>1. Init => Talking
  <2> SUFFICES ASSUME Init PROVE Talking
    OBVIOUS
  <2>1. IsRequest(request)
    BY ScenariosAssumption DEF Init
  <2>2. ~Sent
    BY DEF Init, NoReply, Sent
  <2> QED BY <2>1, <2>2 DEF Talking
<1>2. Talking /\ [Next]_vars => Talking'
  BY TalkingSteps
<1> QED BY <1>1, <1>2, PTL DEF Spec

----------------------------------------------------------------------------
(* What the gateway promises of conversations.                             *)

\* For every conversation in each protocol: system prompt, texts, images, calls and
\* results with their outputs reach the service in their order and under their roles,
\* tools and choice with them.  Excepted are the images in the results of an Anthropic
\* client, which are put into words or left out, what the assistant thought, and the
\* Responses API's choice of one function, whose form is not that of the service.
THEOREM ConversationsAreKept == Spec => []ConversationKept
<1>1. Talking => ConversationKept
  BY DEF Talking, Says, ConversationKept, Heard, HeardTurns
<1> QED BY <1>1, AlwaysTalking, PTL

\* Every result directly follows the message that calls for it.
THEOREM ResultsDirectlyFollow == Spec => []ResultsFollowCalls
<1>1. Talking => ResultsFollowCalls
  <2> SUFFICES ASSUME Talking, Sent, ~(reply.protocol = "responses" /\ request.mixed)
               PROVE  ResultsFollowCalls
    BY DEF ResultsFollowCalls
  <2> DEFINE msgs == reply.body.messages
  <2>1. msgs \in Seq(UpMessages) /\ Following(msgs)
    BY DEF Talking, Says
  <2> HIDE DEF msgs
  <2>2. DOMAIN msgs = 1 .. Len(msgs)
    BY <2>1
  <2> QED BY <2>1, <2>2 DEF ResultsFollowCalls, Following, msgs
<1> QED BY <1>1, AlwaysTalking, PTL

=============================================================================
