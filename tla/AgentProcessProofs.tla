------------------------- MODULE AgentProcessProofs -------------------------
(***************************************************************************)
(* Theorems about AgentProcess, for any number of processes, requests,     *)
(* tasks and retries, and any settings and edits of them.                  *)
(***************************************************************************)
EXTENDS AgentProcess, FiniteSetTheorems, TLAPS

(***************************************************************************)
(* The inductive invariant: its parts beside TypeOK.                       *)
(***************************************************************************)

\* Where slots are never changes.
Homes ==
    /\ \A w \in Workers : home[w] = w
    /\ \A r \in Requests : home[r] \in Apis

\* What an API process has by the time it serves.
ServingIsBooted ==
    \A p \in Apis :
      /\ phase[p] \in {"setup", "tools", "serving"} => saver[p]
      /\ phase[p] \in {"tools", "serving"} => tables
      /\ phase[p] = "serving" => ~Clash(Discovered(versions[booted[p]].servers))

\* Requests are in processes that serve, and find a saver there.
RequestsAreServed ==
    \A r \in Requests :
      /\ step[r] \notin {"open", "setup", "retry", "acknowledge"}
      /\ step[r] \notin {"idle", "done"} => phase[home[r]] = "serving"

\* The parts of an orchestrator were made one after the other.
Made(o) ==
    /\ made[o].signature > 0
    /\ made[o].signature <= made[o].tools
    /\ made[o].graph # 0 => made[o].tools <= made[o].graph

\* A request makes one orchestrator, and makes nothing once it has.
Settled(o) == o \in Requests => step[o] \in Served \cup {"done"}

BuildersAreRecent ==
    \A s \in Slots : step[s] = "register" =>
      made[s].signature = 0 /\ made[s].tools >= asked[s] /\ made[s].graph = 0

\* A worker that builds has its old orchestrator overwritten in made.
CachedIsMade ==
    \A p \in Processes : cached[p] # None =>
      /\ home[cached[p]] = p
      /\ Settled(cached[p])
      /\ step[cached[p]] # "register" => Made(cached[p])

ServedFits ==
    \A s \in Slots : step[s] \in Served =>
      /\ got[s] \in Slots
      /\ home[got[s]] = home[s]
      /\ Settled(got[s])
      /\ Made(got[s])
      /\ SignatureOf(made[got[s]].signature) = SignatureOf(asked[s])

Inv ==
    /\ TypeOK /\ Homes /\ ServingIsBooted /\ RequestsAreServed /\ NoRequestMeetsClash
    /\ BuildersAreRecent /\ CachedIsMade /\ ServedFits

-----------------------------------------------------------------------------
(***************************************************************************)
(* Names of tools.                                                         *)
(***************************************************************************)

\* An MCP tool's name has more segments than a built-in one.
LEMMA NamesAreLonger ==
  ASSUME NEW servers \in Seq(ServerNames), NEW tool \in Discovered(servers)
  PROVE  tool.name \notin BuiltInNames
<1>1. PICK server \in ToSet(servers) : \E i \in DOMAIN Offers[server] :
        tool = [from |-> server, nth |-> i, name |-> Namespaced(server, Offers[server][i])]
  BY DEF Discovered
<1>2. server \in ServerNames
  BY <1>1 DEF ToSet
<1> PICK i \in DOMAIN Offers[server] :
        tool = [from |-> server, nth |-> i, name |-> Namespaced(server, Offers[server][i])]
  BY <1>1
<1>3. server \in Seq(STRING) /\ server # <<>>
  BY <1>2, CatalogAssumption
<1>4. Offers[server][i] \in Seq(STRING) /\ Offers[server][i] # <<>>
  BY <1>2, CatalogAssumption
<1>5. tool.name = server \o Offers[server][i]
  BY DEF Namespaced
<1>6. Len(tool.name) > 1
  BY <1>3, <1>4, <1>5
<1>7. \A name \in BuiltInNames : Len(name) = 1
  BY DEF BuiltInNames
<1>8. ASSUME tool.name \in BuiltInNames PROVE FALSE
  <2>1. Len(tool.name) = 1
    BY <1>7, <1>8
  <2>2. tool.name = tool.name /\ 1 > 1
    BY <1>6, <2>1
  <2>3. QED
    BY <2>2
<1>9. QED
  BY <1>8

\* A clash of a registry is one of its MCP tools with each other.
LEMMA RegistriesClashAsServersDo ==
  ASSUME NEW servers \in Seq(ServerNames), NEW settings, NEW mcpTools,
         mcpTools = {} \/ mcpTools = Discovered(servers),
         ~Clash(mcpTools)
  PROVE  ~RegistryFails(settings, mcpTools)
<1> SUFFICES ASSUME NEW a \in Registry(settings, mcpTools), NEW b \in Registry(settings, mcpTools),
                    a # b, a.name = b.name
             PROVE  FALSE
  BY DEF RegistryFails, Clash
<1>1. \A tool \in BuiltInTools(settings) : tool.name \in BuiltInNames /\ tool = BuiltIn(tool.name)
  BY DEF BuiltInTools, BuiltIn
<1>2. \A tool \in mcpTools : tool.name \notin BuiltInNames
  BY NamesAreLonger
<1>3. QED
  BY <1>1, <1>2 DEF Registry, Clash

-----------------------------------------------------------------------------
(***************************************************************************)
(* The initial states.                                                     *)
(***************************************************************************)

\* Nothing is made, cached or served at first.
LEMMA InitInv == Init => Inv
<1> SUFFICES ASSUME Init PROVE Inv
  OBVIOUS
<1> USE ProcessAssumption
<1> PICK crew \in Crews :
      /\ edits = crew.edits
      /\ phase = [p \in Apis |-> IF p \in crew.apis THEN "down" ELSE "unused"]
      /\ \A r \in crew.requests : home[r] \in crew.apis
      /\ \A r \in Requests \ crew.requests : home[r] = CHOOSE p \in Apis : TRUE
      /\ step = [s \in Slots |-> IF s \in Requests \ crew.requests THEN "done" ELSE "idle"]
      /\ queue = [m \in Tasks \X Attempts |-> IF m[1] \in crew.tasks /\ m[2] = 0 THEN 1 ELSE 0]
  BY DEF Init
<1>1. crew \in [apis : SUBSET Apis, requests : SUBSET Requests, tasks : SUBSET Tasks, edits : Nat]
  OBVIOUS
<1>2. TypeOK
  <2>1. versions \in Seq(Settings) /\ versions # <<>> /\ Latest = 1
    BY DEF Init, Latest
  <2>2. step \in [Slots -> Steps] /\ phase \in [Apis -> Phases] /\ edits \in Nat
    BY <1>1 DEF Steps, Phases
  <2>3. queue \in [Tasks \X Attempts -> Nat]
    OBVIOUS
  <2>4. made \in [Slots -> [signature : 0..Latest, tools : 0..Latest, graph : 0..Latest]]
    BY <2>1 DEF Init, NotMade
  <2>4b. database \in BOOLEAN /\ tables \in BOOLEAN
    BY DEF Init
  <2>5. /\ deaths \in 0..MaxDeaths /\ saver \in [Processes -> BOOLEAN]
        /\ cached \in [Processes -> Slots \cup {None}] /\ got \in [Slots -> Slots \cup {None}]
        /\ home \in [Slots -> Processes]
    BY DEF Init
  <2>6. /\ booted \in [Apis -> Versions] /\ asked \in [Slots -> Versions]
    BY <2>1 DEF Init, Versions
  <2>7. /\ held \in [Workers -> (Tasks \X Attempts) \cup {None}]
        /\ runs \in [Tasks -> Nat] /\ redelivered \in [Tasks -> 0..MaxRedeliveries]
        /\ answer \in [Requests -> {"none", "ok", "clash", "error", "lost"}]
    BY DEF Init
  <2>8. QED
    BY <2>1, <2>2, <2>3, <2>4, <2>4b, <2>5, <2>6, <2>7 DEF TypeOK
<1>3. Homes
  BY <1>1 DEF Init, Homes
<1>4. ServingIsBooted
  BY DEF ServingIsBooted
<1>5. RequestsAreServed /\ BuildersAreRecent /\ ServedFits
  BY DEF RequestsAreServed, BuildersAreRecent, ServedFits, Served, Slots
<1>6. CachedIsMade /\ NoRequestMeetsClash
  BY DEF Init, CachedIsMade, NoRequestMeetsClash
<1>7. QED
  BY <1>2, <1>3, <1>4, <1>5, <1>6 DEF Inv

-----------------------------------------------------------------------------
(***************************************************************************)
(* Types and homes.                                                        *)
(***************************************************************************)

\* The steps of a slot, the boot of an API process and what Celery does.
SlotStep(s) == Work(s) \/ Raise(s)
ApiStep(p) == Start(p) \/ Boot(p) \/ Shutdown(p) \/ Die(p)
WorkerStep(w) == Deliver(w) \/ Redeliver(w)

\* The steps of a slot's work keep the types.
LEMMA TypeOfWork ==
  ASSUME TypeOK, Homes, NEW s \in Slots, SlotStep(s)
  PROVE  TypeOK'
<1> USE ProcessAssumption DEF TypeOK, Versions, Fails, GoesTo, broker
<1> Latest \in Nat \ {0} /\ home[s] \in Processes
  BY DEF Latest
<1> ASSUME UNCHANGED versions PROVE Latest' = Latest
  BY DEF Latest
<1> DEFINE SoFar == [signature : 0..Latest, tools : 0..Latest, graph : 0..Latest]
<1>1. CASE Resolve(s)
  BY <1>1, ZenonT(60) DEF Resolve, At, Steps
<1>2. CASE Build(s)
  <2>1. made' \in [Slots -> SoFar]
    <3>1. [NotMade EXCEPT !.tools = Latest] \in SoFar
      BY DEF NotMade
    <3>2. made \in [Slots -> SoFar]
      OBVIOUS
    <3> HIDE DEF SoFar
    <3>3. made' = made \/ made' = [made EXCEPT ![s] = [NotMade EXCEPT !.tools = Latest]]
      BY <1>2 DEF Build
    <3>4. QED
      BY <3>1, <3>2, <3>3
  <2>2. UNCHANGED versions /\ Latest' = Latest
    BY <1>2 DEF Build, At, Latest
  <2>3. step' \in [Slots -> Steps] /\ answer' \in [Requests -> {"none", "ok", "clash", "error", "lost"}]
    BY <1>2 DEF Build, Steps
  <2>4. QED
    BY <1>2, <2>1, <2>2, <2>3 DEF Build, At
<1>3. CASE Register(s)
  <2>1. made' \in [Slots -> SoFar]
    <3>1. [made[s] EXCEPT !.signature = asked[s]] \in SoFar
      <4>1. made[s] \in SoFar /\ asked[s] \in 0..Latest
        OBVIOUS
      <4>2. QED
        BY <4>1
    <3>2. made \in [Slots -> SoFar]
      OBVIOUS
    <3> HIDE DEF SoFar
    <3>3. made' = [made EXCEPT ![s] = [made[s] EXCEPT !.signature = asked[s]]]
      BY <1>3 DEF Register
    <3>4. QED
      BY <3>1, <3>2, <3>3
  <2>2. UNCHANGED versions /\ Latest' = Latest
    BY <1>3 DEF Register, At, Latest
  <2>3. QED
    BY <1>3, <2>1, <2>2 DEF Register, At, Steps
<1>4. CASE Ensure(s) \/ SetupOwnTables(s)
  BY <1>4 DEF Ensure, SetupOwnTables, At, Steps
<1>5. CASE OpenOwnPool(s)
  BY <1>5, ZenonT(60) DEF OpenOwnPool, At, Steps
<1>6. CASE Compile(s)
  <2>1. made' \in [Slots -> SoFar]
    <3>1. ASSUME NEW o \in Slots PROVE [made[o] EXCEPT !.graph = Latest] \in SoFar
      <4>1. made[o] \in SoFar /\ Latest \in 0..Latest
        OBVIOUS
      <4>2. QED
        BY <4>1
    <3>2. made \in [Slots -> SoFar]
      OBVIOUS
    <3> HIDE DEF SoFar
    <3>3. made' = made \/ made' = [made EXCEPT ![got[s]] = [made[got[s]] EXCEPT !.graph = Latest]]
      BY <1>6 DEF Compile
    <3>4. CASE got[s] \in Slots
      BY <3>1, <3>2, <3>3, <3>4, ZenonT(60)
    <3>5. CASE got[s] \notin Slots
      <4>1. made' = made
        BY <3>2, <3>3, <3>5
      <4>2. QED
        BY <3>2, <4>1
    <3>6. QED
      BY <3>4, <3>5
  <2>2. UNCHANGED versions /\ Latest' = Latest
    BY <1>6 DEF Compile, At, Latest
  <2>3. QED
    BY <1>6, <2>1, <2>2 DEF Compile, At, Steps
<1>7. CASE Run(s)
  <2>1. runs' \in [Tasks -> Nat]
    <3>1. CASE runs' = runs
      BY <3>1
    <3>2. CASE s \in Workers /\ runs' = [runs EXCEPT ![held[s][1]] = @ + 1]
      <4> DEFINE t == held[s][1]
      <4>1. runs' = [u \in Tasks |-> IF u = t THEN runs[t] + 1 ELSE runs[u]]
        BY <3>2
      <4> HIDE DEF t
      <4>2. QED
        BY <4>1
    <3>3. QED
      BY <1>7, <3>1, <3>2 DEF Run
  <2>2. step' \in [Slots -> Steps] /\ answer' \in [Requests -> {"none", "ok", "clash", "error", "lost"}]
    BY <1>7 DEF Run, Steps
  <2>3. UNCHANGED versions /\ Latest' = Latest
    BY <1>7 DEF Run, At, Latest
  <2>4. QED
    BY <1>7, <2>1, <2>2, <2>3 DEF Run, At
<1>8. CASE Result(s) \/ Raise(s)
  BY <1>8, ZenonT(60) DEF Result, Raise, At, Steps
<1>9. QED
  BY <1>1, <1>2, <1>3, <1>4, <1>5, <1>6, <1>7, <1>8 DEF SlotStep, Work

\* Boot, death and restart of an API process keep the types.
LEMMA TypeOfApi ==
  ASSUME TypeOK, Homes, NEW p \in Apis, ApiStep(p)
  PROVE  TypeOK'
<1> USE ProcessAssumption DEF TypeOK, Boots, durable, process, slot, broker
<1> Latest \in Nat \ {0} /\ p \in Processes
  BY DEF Latest, Processes
<1> ASSUME UNCHANGED versions PROVE Latest' = Latest /\ Versions' = Versions
  BY DEF Latest, Versions
<1>1. CASE Start(p)
  <2>1. booted' \in [Apis -> Versions] /\ phase' \in [Apis -> Phases]
    BY <1>1 DEF Start, Phases, Versions
  <2>2. QED
    BY <1>1, <2>1 DEF Start
<1>2. CASE FindDatabase(p) \/ CreateDatabase(p)
  BY <1>2 DEF FindDatabase, CreateDatabase, Phases
<1>3. CASE OpenPool(p) \/ SetupTables(p)
  BY <1>3 DEF OpenPool, SetupTables, Phases
<1>4. CASE LoadTools(p)
  BY <1>4 DEF LoadTools, Phases
<1>5. CASE Shutdown(p)
  BY <1>5 DEF Shutdown, Phases
<1>6. CASE Die(p)
  <2>1. step' \in [Slots -> Steps]
    BY <1>6 DEF Die, Steps
  <2>2. answer' \in [Requests -> {"none", "ok", "clash", "error", "lost"}]
    BY <1>6 DEF Die
  <2>3. deaths' \in 0..MaxDeaths
    BY <1>6 DEF Die
  <2>4. QED
    BY <1>6, <2>1, <2>2, <2>3 DEF Die, Phases
<1>7. QED
  BY <1>1, <1>2, <1>3, <1>4, <1>5, <1>6 DEF ApiStep, Boot

\* A worker's broker steps keep the types: it takes only what the broker has.
LEMMA TypeOfWorker ==
  ASSUME TypeOK, Homes, NEW w \in Workers, WorkerStep(w)
  PROVE  TypeOK'
<1> USE ProcessAssumption DEF TypeOK, GoesTo
<1> w \in Processes /\ w \in Slots
  BY DEF Processes, Slots
<1> ASSUME UNCHANGED versions PROVE Latest' = Latest /\ Versions' = Versions
  BY DEF Latest, Versions
<1>1. CASE Take(w)
  <2>1. /\ queue' \in [Tasks \X Attempts -> Nat]
        /\ held' \in [Workers -> (Tasks \X Attempts) \cup {None}]
    BY <1>1 DEF Take
  <2>2. Latest \in Versions
    BY DEF Versions, Latest
  <2>3. QED
    BY <1>1, <2>1, <2>2 DEF Take, At, Steps
<1>2. ASSUME NEW m PROVE [queue EXCEPT ![m] = @ + 1] \in [Tasks \X Attempts -> Nat]
  <2> DEFINE Messages == Tasks \X Attempts
  <2>1. queue \in [Messages -> Nat]
    OBVIOUS
  <2> HIDE DEF Messages
  <2>2. CASE m \in Messages
    BY <2>1, <2>2
  <2>3. CASE m \notin Messages
    <3>1. [queue EXCEPT ![m] = @ + 1] = queue
      BY <2>1, <2>3
    <3>2. QED
      BY <2>1, <3>1
  <2>4. QED
    BY <2>2, <2>3 DEF Messages
<1>3. CASE Retry(w)
  <2>1. queue' \in [Tasks \X Attempts -> Nat]
    BY <1>2, <1>3 DEF Retry
  <2>2. QED
    BY <1>3, <2>1 DEF Retry, At, Steps
<1>4. CASE Acknowledge(w)
  BY <1>4 DEF Acknowledge, At, Steps
<1>5. CASE Redeliver(w)
  <2>1. queue' \in [Tasks \X Attempts -> Nat]
    BY <1>2, <1>5 DEF Redeliver
  <2>2. redelivered' \in [Tasks -> 0..MaxRedeliveries]
    <3> DEFINE t == held[w][1]
    <3>1. /\ redelivered' = [u \in Tasks |-> IF u = t THEN redelivered[t] + 1 ELSE redelivered[u]]
          /\ redelivered[t] < MaxRedeliveries
      BY <1>5 DEF Redeliver
    <3> HIDE DEF t
    <3>2. QED
      BY <3>1
  <2>3. /\ step' \in [Slots -> Steps] /\ held' \in [Workers -> (Tasks \X Attempts) \cup {None}]
        /\ saver' \in [Processes -> BOOLEAN] /\ cached' \in [Processes -> Slots \cup {None}]
    BY <1>5 DEF Redeliver, process, slot, Steps
  <2>4. QED
    BY <1>5, <2>1, <2>2, <2>3 DEF Redeliver, durable, process, slot
<1>6. QED
  BY <1>1, <1>3, <1>4, <1>5 DEF WorkerStep, Deliver

\* Edits and arrivals keep the types.
LEMMA TypeOfOthers ==
  ASSUME TypeOK, Homes,
         Edit \/ (\E r \in Requests : Arrive(r)) \/ UNCHANGED vars
  PROVE  TypeOK'
<1> USE ProcessAssumption DEF TypeOK, process, slot, broker
<1>1. CASE Edit
  <2>1. PICK settings \in Settings : versions' = Append(versions, settings)
    BY <1>1 DEF Edit
  <2>2. Latest \in Nat /\ Latest' = Latest + 1 /\ versions' \in Seq(Settings) /\ versions' # <<>>
    <3>1. versions \in Seq(Settings)
      OBVIOUS
    <3>2. /\ Len(versions) \in Nat /\ Len(versions') = Len(versions) + 1
          /\ versions' \in Seq(Settings)
      BY <2>1, <3>1
    <3>3. versions' # <<>>
      BY <3>2
    <3>4. QED
      BY <3>2, <3>3 DEF Latest
  <2>3. Versions \subseteq Versions' /\ 0..Latest \subseteq 0..Latest'
    BY <2>2 DEF Versions
  <2>4. made' \in [Slots -> [signature : 0..Latest', tools : 0..Latest', graph : 0..Latest']]
    <3>1. [signature : 0..Latest, tools : 0..Latest, graph : 0..Latest]
            \subseteq [signature : 0..Latest', tools : 0..Latest', graph : 0..Latest']
      BY <2>3
    <3>2. QED
      BY <1>1, <3>1 DEF Edit
  <2>5. QED
    BY <1>1, <2>2, <2>3, <2>4 DEF Edit
<1>2. ASSUME NEW r \in Requests, Arrive(r) PROVE TypeOK'
  <2>1. Latest \in Versions /\ Latest' = Latest /\ Versions' = Versions
    BY <1>2 DEF Versions, Latest, Arrive, At
  <2>2. QED
    BY <1>2, <2>1 DEF Arrive, At, GoesTo, Steps
<1>3. CASE UNCHANGED vars
  BY <1>3 DEF vars, durable, Versions, Latest
<1>4. QED
  BY <1>1, <1>2, <1>3

\* No step moves a slot to another process.
LEMMA HomesStay ==
  ASSUME [Next]_vars
  PROVE  home' = home
BY DEF Next, Edit, Start, Boot, FindDatabase, CreateDatabase, OpenPool, SetupTables, LoadTools,
  Shutdown, Die, Arrive, Work, Raise, Resolve, Build, Register, Ensure, OpenOwnPool,
  SetupOwnTables, Compile, Run, Result, Deliver, Take, Retry, Acknowledge, Redeliver, At,
  vars, durable, process, slot, broker

\* Every step keeps types and homes.
LEMMA TypesAndHomes ==
  ASSUME TypeOK, Homes, [Next]_vars
  PROVE  TypeOK' /\ Homes'
<1>1. Homes'
  BY HomesStay DEF Homes
<1>2. TypeOK'
  <2>1. ASSUME NEW s \in Slots, Work(s) \/ Raise(s) PROVE TypeOK'
    BY <2>1, TypeOfWork DEF SlotStep
  <2>2. ASSUME NEW p \in Apis, Start(p) \/ Boot(p) \/ Shutdown(p) \/ Die(p) PROVE TypeOK'
    BY <2>2, TypeOfApi DEF ApiStep
  <2>3. ASSUME NEW w \in Workers, Deliver(w) \/ Redeliver(w) PROVE TypeOK'
    BY <2>3, TypeOfWorker DEF WorkerStep
  <2>4. QED
    BY <2>1, <2>2, <2>3, TypeOfOthers DEF Next
<1>3. QED
  BY <1>1, <1>2

\* Settings of the past stay what they were.
LEMMA VersionsGrow ==
  ASSUME TypeOK, [Next]_vars
  PROVE  /\ Latest \in Nat \ {0} /\ Latest' \in Nat /\ Latest <= Latest'
         /\ \A v \in Versions : versions'[v] = versions[v] /\ SignatureOf(v)' = SignatureOf(v)
<1>1. versions \in Seq(Settings) /\ Latest \in Nat \ {0}
  BY DEF TypeOK, Latest
<1>2. CASE Edit
  <2>1. PICK settings \in Settings : versions' = Append(versions, settings)
    BY <1>2 DEF Edit
  <2>2. Len(versions') = Len(versions) + 1 /\ \A v \in 1..Len(versions) : versions'[v] = versions[v]
    BY <1>1, <2>1
  <2>3. QED
    BY <1>1, <2>2 DEF Latest, Versions, SignatureOf
<1>3. CASE UNCHANGED versions
  BY <1>1, <1>3 DEF Latest, Versions, SignatureOf
<1>4. Edit \/ UNCHANGED versions
  BY DEF Next, Start, Boot, FindDatabase, CreateDatabase, OpenPool, SetupTables, LoadTools,
    Shutdown, Die, Arrive, Work, Raise, Resolve, Build, Register, Ensure, OpenOwnPool,
    SetupOwnTables, Compile, Run, Result, Deliver, Take, Retry, Acknowledge, Redeliver, At,
    vars, durable
<1>5. QED
  BY <1>2, <1>3, <1>4

-----------------------------------------------------------------------------
(***************************************************************************)
(* Booting and serving.                                                    *)
(***************************************************************************)

Booting == ServingIsBooted /\ RequestsAreServed /\ NoRequestMeetsClash

\* An API process loads its tools without a clash before it serves.
LEMMA BootingOfApi ==
  ASSUME Inv, NEW p \in Apis, ApiStep(p)
  PROVE  Booting'
<1> USE ProcessAssumption DEF Inv, TypeOK, Homes, Booting, ServingIsBooted, RequestsAreServed,
      NoRequestMeetsClash, Boots, durable, process, slot, broker
<1> p \in Processes /\ Requests \subseteq Slots
  BY DEF Processes, Slots
<1>1. CASE Start(p)
  BY <1>1 DEF Start
<1>2. CASE FindDatabase(p) \/ CreateDatabase(p)
  BY <1>2 DEF FindDatabase, CreateDatabase
<1>3. CASE OpenPool(p)
  BY <1>3 DEF OpenPool
<1>4. CASE SetupTables(p)
  BY <1>4 DEF SetupTables
<1>5. CASE LoadTools(p)
  BY <1>5 DEF LoadTools, BootFails
<1>6. CASE Shutdown(p)
  BY <1>6 DEF Shutdown, InApi
<1>7. CASE Die(p)
  BY <1>7 DEF Die, InApi
<1>8. QED
  BY <1>1, <1>2, <1>3, <1>4, <1>5, <1>6, <1>7 DEF ApiStep, Boot

\* The registry a request builds has no clash, and its saver is there.
LEMMA BootingOfSlot ==
  ASSUME Inv, NEW s \in Slots, SlotStep(s)
  PROVE  Booting'
<1> USE ProcessAssumption DEF Homes, Booting, ServingIsBooted, RequestsAreServed,
      NoRequestMeetsClash, Fails, GoesTo
<1>0. /\ Homes /\ Booting /\ home[s] \in Processes
      /\ step \in [Slots -> Steps] /\ answer \in [Requests -> {"none", "ok", "clash", "error", "lost"}]
      /\ saver \in [Processes -> BOOLEAN] /\ Apis \subseteq Processes /\ Requests \subseteq Slots
  BY DEF Inv, TypeOK, Processes, Slots
<1>1. CASE Resolve(s)
  BY <1>0, <1>1 DEF Resolve, At
<1>2. CASE Build(s)
  <2>1. ASSUME s \in Requests PROVE ~RegistryFails(versions[Latest], McpTools(home[s]))
    <3> DEFINE servers == versions[booted[home[s]]].servers
    <3>1. home[s] \in Apis /\ phase[home[s]] = "serving"
      BY <1>0, <1>2, <2>1 DEF Build, At
    <3>2. servers \in Seq(ServerNames)
      BY <3>1 DEF Inv, TypeOK, Versions, Latest
    <3>3. McpTools(home[s]) = Discovered(servers) /\ ~Clash(Discovered(servers))
      BY <1>0, <3>1 DEF McpTools
    <3> HIDE DEF servers
    <3>4. QED
      BY <3>2, <3>3, RegistriesClashAsServersDo
  <2>2. QED
    BY <1>0, <1>2, <2>1 DEF Build, At
<1>3. CASE Register(s)
  BY <1>0, <1>3 DEF Register, At
<1>4. CASE Ensure(s)
  BY <1>0, <1>4 DEF Ensure, At
<1>5. CASE OpenOwnPool(s)
  BY <1>0, <1>5 DEF OpenOwnPool, At, Slots
<1>6. CASE SetupOwnTables(s)
  BY <1>0, <1>6 DEF SetupOwnTables, At, Slots
<1>7. CASE Compile(s)
  BY <1>0, <1>7 DEF Compile, At
<1>8. CASE Run(s)
  BY <1>0, <1>8 DEF Run, At
<1>9. CASE Result(s) \/ Raise(s)
  BY <1>0, <1>9 DEF Result, Raise, At
<1>10. QED
  BY <1>1, <1>2, <1>3, <1>4, <1>5, <1>6, <1>7, <1>8, <1>9 DEF SlotStep, Work

\* A request arrives at a process that serves; what Celery does is apart.
LEMMA BootingOfOthers ==
  ASSUME Inv,
         \/ Edit \/ UNCHANGED vars
         \/ \E r \in Requests : Arrive(r)
         \/ \E w \in Workers : WorkerStep(w)
  PROVE  Booting'
<1> USE ProcessAssumption DEF Homes, Booting, ServingIsBooted, RequestsAreServed,
      NoRequestMeetsClash, GoesTo
<1>0. /\ Homes /\ Booting /\ booted \in [Apis -> Versions]
      /\ step \in [Slots -> Steps] /\ saver \in [Processes -> BOOLEAN]
      /\ Apis \subseteq Processes /\ Requests \subseteq Slots /\ Workers \subseteq Slots
      /\ \A w \in Workers : w \notin Apis /\ w \notin Requests
  BY DEF Inv, TypeOK, Processes, Slots
<1>1. CASE Edit
  <2>1. \A v \in Versions : versions'[v] = versions[v]
    BY <1>1, VersionsGrow DEF Inv, Next
  <2>2. QED
    BY <1>0, <1>1, <2>1 DEF Edit, process, slot
<1>2. CASE UNCHANGED vars
  BY <1>0, <1>2 DEF vars, durable, process, slot
<1>3. ASSUME NEW r \in Requests, Arrive(r) PROVE Booting'
  BY <1>0, <1>3 DEF Arrive, At
<1>4. ASSUME NEW w \in Workers, Take(w) \/ Retry(w) \/ Acknowledge(w) PROVE Booting'
  BY <1>0, <1>4 DEF Take, Retry, Acknowledge, At
<1>5. ASSUME NEW w \in Workers, Redeliver(w) PROVE Booting'
  BY <1>0, <1>5 DEF Redeliver, durable, process, slot
<1>6. QED
  BY <1>1, <1>2, <1>3, <1>4, <1>5 DEF WorkerStep, Deliver

-----------------------------------------------------------------------------
(***************************************************************************)
(* Orchestrators: a request makes one, a worker one at a time.             *)
(***************************************************************************)

Cache == BuildersAreRecent /\ CachedIsMade /\ ServedFits

\* A step that makes nothing, and takes no slot into service.
Quiet ==
    /\ UNCHANGED <<home, made>>
    /\ \A p \in Processes : cached'[p] \in {cached[p], None}
    /\ \A p \in Processes : cached'[p] # None /\ step[cached[p]] = "register"
                             => step'[cached[p]] = "register"
    /\ \A s \in Slots : step'[s] = "register" => step[s] = "register" /\ asked'[s] = asked[s]
    /\ \A s \in Slots : step'[s] \in Served =>
         step[s] \in Served /\ got'[s] = got[s] /\ asked'[s] = asked[s]
    /\ \A r \in Requests : step[r] \in Served \cup {"done"} => step'[r] \in Served \cup {"done"}

\* Such a step leaves every orchestrator as good as it was.
LEMMA CacheOfQuiet ==
  ASSUME Inv, [Next]_vars, Quiet
  PROVE  Cache'
<1>1. \A v \in Versions : SignatureOf(v)' = SignatureOf(v)
  BY VersionsGrow DEF Inv
<1>2. BuildersAreRecent'
  BY DEF Quiet, Inv, BuildersAreRecent
<1>3. ASSUME NEW o \in Slots
      PROVE  /\ Settled(o) => Settled(o)'
             /\ Made(o) => Made(o)'
  BY DEF Quiet, Settled, Made
<1>4. CachedIsMade'
  <2> SUFFICES ASSUME NEW p \in Processes, NEW o, o = cached'[p], o # None
               PROVE  home'[o] = p /\ Settled(o)' /\ (step'[o] # "register" => Made(o)')
    BY DEF CachedIsMade, Settled, Made
  <2>1. o = cached[p] /\ o \in Slots
    BY DEF Quiet, Inv, TypeOK
  <2>2. home[o] = p /\ Settled(o) /\ (step[o] # "register" => Made(o))
    BY <2>1 DEF Inv, CachedIsMade
  <2>3. step'[o] # "register" => step[o] # "register"
    <3>1. \A q \in Processes : cached'[q] # None /\ step[cached[q]] = "register"
                               => step'[cached[q]] = "register"
      BY DEF Quiet
    <3>2. QED
      BY <2>1, <3>1
  <2>4. home'[o] = p
    BY <2>2 DEF Quiet
  <2>5. Settled(o)' /\ (Made(o) => Made(o)')
    BY <1>3, <2>1, <2>2
  <2>6. QED
    BY <2>2, <2>3, <2>4, <2>5
<1>5. ServedFits'
  <2> SUFFICES ASSUME NEW s \in Slots, step'[s] \in Served, NEW o, o = got'[s]
               PROVE  /\ o \in Slots
                      /\ home'[o] = home'[s]
                      /\ Settled(o)'
                      /\ Made(o)'
                      /\ (SignatureOf(made[o].signature) = SignatureOf(asked[s]))'
    BY DEF ServedFits, Served, Settled, Made, SignatureOf
  <2>1. step[s] \in Served /\ o = got[s] /\ asked'[s] = asked[s] /\ made' = made /\ home' = home
    BY DEF Quiet
  <2>2. /\ o \in Slots /\ home[o] = home[s]
        /\ Settled(o) /\ Made(o)
        /\ SignatureOf(made[o].signature) = SignatureOf(asked[s])
    BY <2>1 DEF Inv, ServedFits
  <2>3. made[o].signature \in Versions /\ asked[s] \in Versions
    BY <2>2 DEF Inv, TypeOK, Made, Versions
  <2>4. QED
    BY <1>1, <1>3, <2>1, <2>2, <2>3 DEF SignatureOf
<1>6. QED
  BY <1>2, <1>4, <1>5 DEF Cache

\* Boot, shutdown and death of API processes are such steps.
LEMMA ApiIsQuiet ==
  ASSUME Inv, NEW p \in Apis, ApiStep(p)
  PROVE  Quiet
<1> USE ProcessAssumption DEF Quiet, Boots, durable, process, slot, broker
<1>0. /\ step \in [Slots -> Steps] /\ cached \in [Processes -> Slots \cup {None}]
      /\ Requests \subseteq Slots
      /\ \A q \in Processes : cached[q] # None => home[cached[q]] = q
  BY DEF Inv, TypeOK, CachedIsMade, Slots
<1>1. CASE Start(p) \/ Boot(p)
  BY <1>1 DEF Start, Boot, FindDatabase, CreateDatabase, OpenPool, SetupTables, LoadTools
<1>2. CASE Shutdown(p)
  BY <1>0, <1>2 DEF Shutdown
<1>3. CASE Die(p)
  BY <1>0, <1>3 DEF Die, InApi, Served
<1>4. QED
  BY <1>1, <1>2, <1>3 DEF ApiStep

\* So are an edit, an arrival and everything Celery does.
LEMMA OthersAreQuiet ==
  ASSUME Inv,
         \/ Edit \/ UNCHANGED vars
         \/ \E r \in Requests : Arrive(r)
         \/ \E w \in Workers : WorkerStep(w)
  PROVE  Quiet
<1> USE ProcessAssumption DEF Quiet, GoesTo, Served
<1>0. /\ step \in [Slots -> Steps] /\ cached \in [Processes -> Slots \cup {None}]
      /\ asked \in [Slots -> Versions]
      /\ Requests \subseteq Slots /\ Workers \subseteq Slots /\ Workers \subseteq Processes
      /\ \A w \in Workers : home[w] = w /\ w \notin Requests
      /\ \A q \in Processes : cached[q] # None => home[cached[q]] = q
  BY DEF Inv, TypeOK, Homes, CachedIsMade, Slots, Processes
<1>1. CASE Edit \/ UNCHANGED vars
  BY <1>1 DEF Edit, vars, process, slot
<1>2. ASSUME NEW r \in Requests, Arrive(r) PROVE Quiet
  BY <1>0, <1>2 DEF Arrive, At
<1>3. ASSUME NEW w \in Workers, Take(w) PROVE Quiet
  BY <1>0, <1>3 DEF Take, At
<1>4. ASSUME NEW w \in Workers, Retry(w) \/ Acknowledge(w) PROVE Quiet
  BY <1>0, <1>4 DEF Retry, Acknowledge, At
<1>5. ASSUME NEW w \in Workers, Redeliver(w) PROVE Quiet
  <2>1. CASE UNCHANGED <<held, process, slot>>
    BY <2>1 DEF process, slot
  <2>2. CASE /\ cached' = [cached EXCEPT ![w] = None]
             /\ step' = [step EXCEPT ![w] = "idle"]
             /\ UNCHANGED <<home, asked, made, got>>
    BY <1>0, <2>2
  <2>3. QED
    BY <1>5, <2>1, <2>2 DEF Redeliver
<1>6. QED
  BY <1>1, <1>2, <1>3, <1>4, <1>5 DEF WorkerStep, Deliver

\* And a slot that goes on, or fails, without making an orchestrator.
LEMMA GoingOnIsQuiet ==
  ASSUME Inv, NEW s \in Slots, NEW next, GoesTo(s, next),
         UNCHANGED <<home, made, cached, asked, got>>,
         step[s] # "register", next # "register",
         next \in Served => step[s] \in Served,
         s \in Requests /\ step[s] \in Served => next \in Served \cup {"done"},
         step[s] # "done"
  PROVE  Quiet
<1>1. /\ step \in [Slots -> Steps] /\ Requests \subseteq Slots
      /\ cached \in [Processes -> Slots \cup {None}]
  BY DEF Inv, TypeOK, Slots
<1>2. step'[s] = next /\ \A q \in Slots \ {s} : step'[q] = step[q]
  BY <1>1 DEF GoesTo
<1>3. QED
  BY <1>1, <1>2 DEF Quiet

\* A step of a slot that neither builds an orchestrator nor puts one in the cache leaves alone
\* all that the cache and the signatures rely on.
LEMMA WorkIsQuiet ==
  ASSUME Inv, NEW s \in Slots,
         \/ Resolve(s) /\ got' = got /\ step'[s] = "build"
         \/ Build(s) /\ step'[s] # "register"
         \/ Ensure(s) \/ OpenOwnPool(s) \/ SetupOwnTables(s) \/ Run(s) \/ Result(s) \/ Raise(s)
  PROVE  Quiet
<1>0. step \in [Slots -> Steps] /\ (s \in Requests => step[s] \notin {"open", "setup"})
  BY DEF Inv, TypeOK, RequestsAreServed
<1>1. CASE Resolve(s) /\ got' = got /\ step'[s] = "build"
  <2>1. GoesTo(s, "build") /\ step[s] = "resolve" /\ UNCHANGED <<home, made, cached, asked, got>>
    BY <1>0, <1>1 DEF Resolve, At, GoesTo
  <2>2. QED
    BY <2>1, GoingOnIsQuiet DEF Served
<1>2. ASSUME NEW outcome, Fails(s, outcome), UNCHANGED <<home, made, cached, asked, got>>,
             step[s] \in {"build"} \cup Served
      PROVE  Quiet
  <2>1. CASE s \in Requests
    BY <1>2, <2>1, GoingOnIsQuiet DEF Fails, Served
  <2>2. CASE s \notin Requests
    BY <1>2, <2>2, GoingOnIsQuiet DEF Fails, Served
  <2>3. QED
    BY <2>1, <2>2
<1>3. CASE Build(s) /\ step'[s] # "register"
  <2>1. Fails(s, "clash") /\ step[s] = "build" /\ UNCHANGED <<home, made, cached, asked, got>>
    BY <1>0, <1>3 DEF Build, At, GoesTo
  <2>2. QED
    BY <1>2, <2>1
<1>4. ASSUME NEW next \in Served, GoesTo(s, next), step[s] \in Served,
             UNCHANGED <<home, made, cached, asked, got>>
      PROVE  Quiet
  BY <1>4, GoingOnIsQuiet DEF Served
<1>5. CASE Ensure(s)
  BY <1>4, <1>5 DEF Ensure, At, Served
<1>6. CASE OpenOwnPool(s)
  BY <1>2, <1>4, <1>6 DEF OpenOwnPool, At, Served
<1>7. CASE SetupOwnTables(s)
  BY <1>4, <1>7 DEF SetupOwnTables, At, Served
<1>8. CASE Run(s)
  BY <1>2, <1>4, <1>8 DEF Run, At, Served
<1>9. CASE Result(s) \/ Raise(s)
  BY <1>2, <1>9 DEF Result, Raise, At, Served
<1>10. QED
  BY <1>1, <1>3, <1>5, <1>6, <1>7, <1>8, <1>9

\* A slot takes the cached orchestrator only under the signature it has read.
LEMMA CacheOfResolve ==
  ASSUME Inv, NEW s \in Slots, Resolve(s), step'[s] # "build"
  PROVE  Cache'
<1> DEFINE existing == cached[home[s]]
<1>1. /\ step \in [Slots -> Steps] /\ got \in [Slots -> Slots \cup {None}]
      /\ home[s] \in Processes /\ Requests \subseteq Slots /\ Requests \cap Workers = {}
      /\ cached \in [Processes -> Slots \cup {None}]
  BY ProcessAssumption DEF Inv, TypeOK, Slots
<1>2. /\ step[s] = "resolve" /\ existing # None
      /\ SignatureOf(made[existing].signature) = SignatureOf(asked[s])
      /\ step' = [step EXCEPT ![s] = "ensure"] /\ got' = [got EXCEPT ![s] = existing]
      /\ UNCHANGED <<versions, home, cached, asked, made>>
  BY <1>1 DEF Resolve, At, GoesTo
<1>3. existing \in Slots /\ home[existing] = home[s] /\ Settled(existing)
  BY <1>1, <1>2 DEF Inv, CachedIsMade
<1>4. Made(existing)
  <2>1. step[existing] # "register"
    <3>1. CASE existing \in Requests
      BY <1>3, <3>1 DEF Settled, Served
    <3>2. CASE existing \in Workers
      <4>1. existing = s
        BY <1>1, <1>3, <3>2, ProcessAssumption DEF Inv, Homes, Slots
      <4>2. QED
        BY <1>2, <4>1
    <3>3. QED
      BY <1>3, <3>1, <3>2 DEF Slots
  <2>2. QED
    BY <1>1, <1>2, <2>1 DEF Inv, CachedIsMade
<1>5. ASSUME NEW o \in Slots PROVE (Settled(o) => Settled(o)') /\ (Made(o) => Made(o)')
  BY <1>1, <1>2 DEF Settled, Made, Served
<1>6. BuildersAreRecent' /\ CachedIsMade'
  BY <1>1, <1>2, <1>5 DEF Inv, BuildersAreRecent, CachedIsMade
<1>7. ServedFits'
  <2> SUFFICES ASSUME NEW q \in Slots, step'[q] \in Served, NEW o, o = got'[q]
               PROVE  /\ o \in Slots /\ home'[o] = home'[q] /\ Settled(o)' /\ Made(o)'
                      /\ (SignatureOf(made[o].signature) = SignatureOf(asked[q]))'
    BY DEF ServedFits, Served, Settled, Made, SignatureOf
  <2>1. CASE q = s
    BY <1>1, <1>2, <1>3, <1>4, <1>5, <2>1 DEF SignatureOf
  <2>2. CASE q # s
    BY <1>1, <1>2, <1>5, <2>2 DEF Inv, ServedFits, SignatureOf
  <2>3. QED
    BY <2>1, <2>2
<1>8. QED
  BY <1>6, <1>7 DEF Cache

\* Nobody works with what a slot is about to overwrite.
LEMMA MakersAreNotUsed ==
  ASSUME Inv, NEW s \in Slots, step[s] \in {"build", "register"},
         NEW o \in Slots, Settled(o), o = s
  PROVE  s \in Workers
BY DEF Settled, Served, Slots

\* A builder that has made its tools under the signature it read first may fill the cache.
LEMMA CacheOfBuild ==
  ASSUME Inv, NEW s \in Slots, Build(s), step'[s] = "register"
  PROVE  Cache'
<1>1. /\ step \in [Slots -> Steps] /\ Requests \subseteq Slots /\ Latest \in Nat \ {0}
      /\ made \in [Slots -> [signature : 0..Latest, tools : 0..Latest, graph : 0..Latest]]
      /\ cached \in [Processes -> Slots \cup {None}] /\ asked \in [Slots -> Versions]
  BY DEF Inv, TypeOK, Slots, Latest
<1>2. /\ step[s] = "build" /\ step' = [step EXCEPT ![s] = "register"]
      /\ made' = [made EXCEPT ![s] = [NotMade EXCEPT !.tools = Latest]]
      /\ UNCHANGED <<versions, home, cached, asked, got>>
  BY <1>1 DEF Build, At, Fails, GoesTo
<1>3. ASSUME NEW o \in Slots \ {s} PROVE (Settled(o) => Settled(o)') /\ (Made(o) => Made(o)')
  BY <1>1, <1>2 DEF Settled, Made
<1>4. Settled(s) => Settled(s)'
  BY <1>2 DEF Settled, Served
<1>5. BuildersAreRecent'
  BY <1>1, <1>2 DEF Inv, BuildersAreRecent, NotMade, Versions
<1>6. CachedIsMade'
  <2> SUFFICES ASSUME NEW p \in Processes, NEW o, o = cached'[p], o # None
               PROVE  home'[o] = p /\ Settled(o)' /\ (step'[o] # "register" => Made(o)')
    BY DEF CachedIsMade, Settled, Made
  <2>1. o \in Slots /\ home[o] = p /\ Settled(o) /\ (step[o] # "register" => Made(o))
    BY <1>1, <1>2 DEF Inv, CachedIsMade
  <2>2. QED
    BY <1>1, <1>2, <1>3, <1>4, <2>1
<1>7. ServedFits'
  <2> SUFFICES ASSUME NEW q \in Slots, step'[q] \in Served, NEW o, o = got'[q]
               PROVE  /\ o \in Slots /\ home'[o] = home'[q] /\ Settled(o)' /\ Made(o)'
                      /\ (SignatureOf(made[o].signature) = SignatureOf(asked[q]))'
    BY DEF ServedFits, Served, Settled, Made, SignatureOf
  <2>1. q # s /\ step[q] \in Served /\ o = got[q]
    BY <1>1, <1>2 DEF Served
  <2>2. /\ o \in Slots /\ home[o] = home[q] /\ Settled(o) /\ Made(o)
        /\ SignatureOf(made[o].signature) = SignatureOf(asked[q])
    BY <2>1 DEF Inv, ServedFits
  <2>3. o # s
    <3>1. SUFFICES ASSUME o = s PROVE FALSE
      OBVIOUS
    <3>2. s \in Workers
      BY <1>2, <2>2, <3>1, MakersAreNotUsed
    <3>3. home[q] = s
      BY <2>2, <3>1, <3>2 DEF Inv, Homes
    <3>4. q = s
      BY <3>2, <3>3, ProcessAssumption DEF Inv, Homes, Slots
    <3>5. QED
      BY <2>1, <3>4
  <2>4. QED
    BY <1>1, <1>2, <1>3, <2>1, <2>2, <2>3 DEF SignatureOf
<1>8. QED
  BY <1>5, <1>6, <1>7 DEF Cache

\* The tools were made after the signature was read.
LEMMA CacheOfRegister ==
  ASSUME Inv, NEW s \in Slots, Register(s)
  PROVE  Cache'
<1>1. /\ step \in [Slots -> Steps] /\ Requests \subseteq Slots /\ Latest \in Nat \ {0}
      /\ made \in [Slots -> [signature : 0..Latest, tools : 0..Latest, graph : 0..Latest]]
      /\ cached \in [Processes -> Slots \cup {None}] /\ got \in [Slots -> Slots \cup {None}]
      /\ asked \in [Slots -> Versions] /\ home[s] \in Processes /\ None \notin Slots
  BY ProcessAssumption DEF Inv, TypeOK, Slots, Latest
<1>2. /\ step[s] = "register" /\ step' = [step EXCEPT ![s] = "ensure"]
      /\ made' = [made EXCEPT ![s] = [made[s] EXCEPT !.signature = asked[s]]]
      /\ cached' = [cached EXCEPT ![home[s]] = s] /\ got' = [got EXCEPT ![s] = s]
      /\ UNCHANGED <<versions, home, asked>>
  BY <1>1 DEF Register, At, GoesTo
<1>3. /\ made'[s].signature = asked[s] /\ made'[s].tools = made[s].tools
      /\ made'[s].graph = 0 /\ asked[s] \in Nat \ {0} /\ asked[s] <= made[s].tools
  BY <1>1, <1>2 DEF Inv, BuildersAreRecent, Versions
<1>4. Made(s)' /\ Settled(s)' /\ step'[s] = "ensure"
  BY <1>1, <1>2, <1>3 DEF Made, Settled, Served
<1>5. ASSUME NEW o \in Slots \ {s}
      PROVE  (Settled(o) => Settled(o)') /\ (Made(o) => Made(o)') /\ step'[o] = step[o]
  BY <1>1, <1>2 DEF Settled, Made
<1>6. BuildersAreRecent'
  BY <1>1, <1>2 DEF Inv, BuildersAreRecent
<1>7. CachedIsMade'
  <2> SUFFICES ASSUME NEW p \in Processes, NEW o, o = cached'[p], o # None
               PROVE  home'[o] = p /\ Settled(o)' /\ (step'[o] # "register" => Made(o)')
    BY DEF CachedIsMade, Settled, Made
  <2>1. CASE p = home[s]
    BY <1>1, <1>2, <1>4, <2>1
  <2>2. CASE p # home[s]
    <3>1. o = cached[p] /\ o \in Slots
      BY <1>1, <1>2, <2>2
    <3>2. home[o] = p /\ Settled(o) /\ (step[o] # "register" => Made(o))
      BY <3>1 DEF Inv, CachedIsMade
    <3>3. o # s
      BY <2>2, <3>2
    <3>4. QED
      BY <1>2, <1>5, <3>1, <3>2, <3>3
  <2>3. QED
    BY <2>1, <2>2
<1>8. ServedFits'
  <2> SUFFICES ASSUME NEW q \in Slots, step'[q] \in Served, NEW o, o = got'[q]
               PROVE  /\ o \in Slots /\ home'[o] = home'[q] /\ Settled(o)' /\ Made(o)'
                      /\ (SignatureOf(made[o].signature) = SignatureOf(asked[q]))'
    BY DEF ServedFits, Served, Settled, Made, SignatureOf
  <2>1. CASE q = s
    BY <1>1, <1>2, <1>3, <1>4, <2>1 DEF SignatureOf
  <2>2. CASE q # s
    <3>1. /\ step[q] \in Served /\ o = got[q]
      BY <1>1, <1>2, <2>2
    <3>2. /\ o \in Slots /\ home[o] = home[q] /\ Settled(o) /\ Made(o)
          /\ SignatureOf(made[o].signature) = SignatureOf(asked[q])
      BY <3>1 DEF Inv, ServedFits
    <3>3. o # s
      <4>1. SUFFICES ASSUME o = s PROVE FALSE
        OBVIOUS
      <4>2. s \in Workers
        BY <1>2, <3>2, <4>1, MakersAreNotUsed
      <4>3. q = s
        BY <3>2, <4>1, <4>2, ProcessAssumption DEF Inv, Homes, Slots
      <4>4. QED
        BY <2>2, <4>3
    <3>4. QED
      BY <1>1, <1>2, <1>5, <3>1, <3>2, <3>3 DEF SignatureOf
  <2>3. QED
    BY <2>1, <2>2
<1>9. QED
  BY <1>6, <1>7, <1>8 DEF Cache

\* The graph is made after the tools, and only once.
LEMMA CacheOfCompile ==
  ASSUME Inv, NEW s \in Slots, Compile(s)
  PROVE  Cache'
<1> DEFINE c == got[s]
<1>1. /\ step \in [Slots -> Steps] /\ Requests \subseteq Slots /\ Latest \in Nat \ {0}
      /\ made \in [Slots -> [signature : 0..Latest, tools : 0..Latest, graph : 0..Latest]]
      /\ cached \in [Processes -> Slots \cup {None}]
  BY DEF Inv, TypeOK, Slots, Latest
<1>2. /\ step[s] = "compile" /\ step' = [step EXCEPT ![s] = "run"]
      /\ made' = made \/ made' = [made EXCEPT ![c] = [made[c] EXCEPT !.graph = Latest]]
      /\ UNCHANGED <<versions, home, cached, asked, got>>
  BY <1>1 DEF Compile, At, GoesTo
<1>3. c \in Slots /\ Made(c) /\ Settled(c) /\ home[c] = home[s]
  BY <1>2 DEF Inv, ServedFits, Served
<1>4. step[c] # "register"
  <2>1. CASE c \in Requests
    BY <1>3, <2>1 DEF Settled, Served
  <2>2. CASE c \in Workers
    <3>1. c = s
      BY <1>3, <2>2, ProcessAssumption DEF Inv, Homes, Slots
    <3>2. QED
      BY <1>2, <3>1
  <2>3. QED
    BY <1>3, <2>1, <2>2 DEF Slots
<1>5. ASSUME NEW o \in Slots
      PROVE  made'[o].signature = made[o].signature /\ made'[o].tools = made[o].tools
  BY <1>1, <1>2
<1>6. ASSUME NEW o \in Slots PROVE (Settled(o) => Settled(o)') /\ (Made(o) => Made(o)')
  <2>1. Settled(o) => Settled(o)'
    BY <1>1, <1>2 DEF Settled, Served
  <2>2. made'[o].graph = made[o].graph \/ made'[o].graph = Latest
    BY <1>1, <1>2
  <2>3. Made(o) => Made(o)'
    BY <1>1, <1>5, <2>2 DEF Made
  <2>4. QED
    BY <2>1, <2>3
<1>7. BuildersAreRecent'
  <2> SUFFICES ASSUME NEW q \in Slots, step'[q] = "register"
               PROVE  made'[q] = made[q] /\ step[q] = "register" /\ asked'[q] = asked[q]
    BY DEF Inv, BuildersAreRecent
  <2>1. step[q] = "register"
    BY <1>1, <1>2
  <2>2. q # c
    BY <1>4, <2>1
  <2>3. QED
    BY <1>1, <1>2, <2>1, <2>2
<1>8. CachedIsMade'
  BY <1>1, <1>2, <1>6 DEF Inv, CachedIsMade
<1>9. ServedFits'
  <2> SUFFICES ASSUME NEW q \in Slots, step'[q] \in Served, NEW o, o = got'[q]
               PROVE  /\ o \in Slots /\ home'[o] = home'[q] /\ Settled(o)' /\ Made(o)'
                      /\ (SignatureOf(made[o].signature) = SignatureOf(asked[q]))'
    BY DEF ServedFits, Served, Settled, Made, SignatureOf
  <2>1. step[q] \in Served /\ o = got[q]
    BY <1>1, <1>2 DEF Served
  <2>2. QED
    BY <1>2, <1>5, <1>6, <2>1 DEF Inv, ServedFits, SignatureOf
<1>10. QED
  BY <1>7, <1>8, <1>9 DEF Cache

-----------------------------------------------------------------------------
\* Every step keeps the invariant.
LEMMA NextInv == Inv /\ [Next]_vars => Inv'
<1> SUFFICES ASSUME Inv, [Next]_vars PROVE Inv'
  OBVIOUS
<1>1. TypeOK' /\ Homes'
  BY TypesAndHomes DEF Inv
<1>2. ASSUME NEW s \in Slots, SlotStep(s) PROVE Booting' /\ Cache'
  <2>1. CASE Resolve(s)
    <3>1. CASE step'[s] = "build"
      <4>1. got' = got
        BY <2>1, <3>1 DEF Resolve, GoesTo, Inv, TypeOK
      <4>2. QED
        BY <1>2, <2>1, <3>1, <4>1, BootingOfSlot, WorkIsQuiet, CacheOfQuiet
    <3>2. QED
      BY <1>2, <2>1, <3>1, BootingOfSlot, CacheOfResolve
  <2>2. CASE Build(s)
    BY <1>2, <2>2, BootingOfSlot, CacheOfBuild, WorkIsQuiet, CacheOfQuiet
  <2>3. CASE Register(s) \/ Compile(s)
    BY <1>2, <2>3, BootingOfSlot, CacheOfRegister, CacheOfCompile
  <2>4. QED
    BY <1>2, <2>1, <2>2, <2>3, BootingOfSlot, WorkIsQuiet, CacheOfQuiet DEF SlotStep, Work
<1>3. ASSUME NEW p \in Apis, ApiStep(p) PROVE Booting' /\ Cache'
  BY <1>3, BootingOfApi, ApiIsQuiet, CacheOfQuiet
<1>4. CASE \/ Edit \/ UNCHANGED vars
           \/ \E r \in Requests : Arrive(r)
           \/ \E w \in Workers : WorkerStep(w)
  BY <1>1, <1>4, BootingOfOthers, OthersAreQuiet, CacheOfQuiet DEF Inv, Booting, Cache
<1>5. QED
  BY <1>1, <1>2, <1>3, <1>4 DEF Next, SlotStep, ApiStep, WorkerStep, Inv, Booting, Cache

\* The invariant holds of every reachable state.
LEMMA InvHolds == Spec => []Inv
BY InitInv, NextInv, PTL DEF Spec

\* The state of processes, slots and broker keeps its types whatever is edited,
\* killed or delivered again.
THEOREM ProcessTypes == Spec => []TypeOK
<1>1. Inv => TypeOK
  BY DEF Inv
<1>2. QED
  BY <1>1, InvHolds, PTL

\* However threads build and replace orchestrators while .env is edited, a run
\* works with tools and a graph that are not outdated for its request.
THEOREM NeverOutdated == Spec => []NothingOutdated
<1>1. ASSUME Inv, NEW s \in Slots, step[s] \in Served,
             NEW version \in {made[got[s]].tools, made[got[s]].graph} \ {0}, Outdated(version, s)
      PROVE  made[got[s]].signature < version
  <2> DEFINE o == made[got[s]]
  <2>1. Made(got[s]) /\ got[s] \in Slots /\ SignatureOf(o.signature) = SignatureOf(asked[s])
    BY <1>1 DEF Inv, ServedFits
  <2>2. o.signature \in Nat /\ o.tools \in Nat /\ o.graph \in Nat
    BY <1>1, <2>1 DEF Inv, TypeOK
  <2>3. o.signature <= version
    BY <1>1, <2>1, <2>2 DEF Made
  <2>4. o.signature # version
    BY <1>1, <2>1 DEF Outdated
  <2>5. QED
    BY <1>1, <2>2, <2>3, <2>4
<1>2. Inv => NothingOutdated
  BY <1>1 DEF NothingOutdated, Inv, ServedFits
<1>3. QED
  BY <1>2, InvHolds, PTL

\* Whatever the settings become, no request meets two tools of one name: the
\* clash has ended the boot of its process.
THEOREM ClashesEndTheBoot == Spec => []NoRequestMeetsClash
<1>1. Inv => NoRequestMeetsClash
  BY DEF Inv
<1>2. QED
  BY <1>1, InvHolds, PTL

\* However processes boot, die and come back, requests find the tables of the
\* checkpoints and a saver in their process.
THEOREM TablesAreThere == Spec => []RequestsFindTables
<1>1. Inv => RequestsFindTables
  BY ProcessAssumption DEF Inv, Homes, ServingIsBooted, RequestsAreServed, RequestsFindTables, Served
<1>2. QED
  BY <1>1, InvHolds, PTL

-----------------------------------------------------------------------------
(***************************************************************************)
(* How often a task runs.  Every message of an attempt is good for a run   *)
(* of that attempt and of each later one: these are counted where the      *)
(* message is, with the broker or with a worker, and a run uses one up.    *)
(***************************************************************************)

Unrun == {"resolve", "build", "register", "ensure", "open", "setup", "compile", "run"}

\* The first attempt that a worker, or the message it sends, may still run.
Left(w) ==
    IF step[w] \in Unrun THEN held[w][2]
    ELSE IF step[w] \in {"result", "retry"} THEN held[w][2] + 1 ELSE MaxRetries + 1

\* The runs of a task that its messages in the queue are good for: the i-th
\* message of an attempt, for an attempt that is no earlier.
QueuedRuns(t) ==
    {x \in (Attempts \X (Nat \ {0})) \X Attempts :
       x[1][2] <= queue[<<t, x[1][1]>>] /\ x[1][1] <= x[2]}

\* The runs that the messages of the task held by workers are good for.
TakenRuns(t) == {x \in Workers \X Attempts : Left(x[1]) <= x[2] /\ held[x[1]][1] = t}

WorkersHold == \A w \in Workers : step[w] # "idle" => held[w] # None

Chances(t) ==
    /\ IsFiniteSet(QueuedRuns(t)) /\ IsFiniteSet(TakenRuns(t))
    /\ runs[t] + Cardinality(QueuedRuns(t)) + Cardinality(TakenRuns(t))
         <= (MaxRetries + 1) * (redelivered[t] + 1)

\* The runs that one message, or one worker, is good for.
Row(x, a) == {x} \X (a..MaxRetries)

\* There is one for each attempt.
LEMMA RowSize ==
  ASSUME NEW x, NEW a \in 0..(MaxRetries + 1)
  PROVE  IsFiniteSet(Row(x, a)) /\ Cardinality(Row(x, a)) = MaxRetries + 1 - a
<1> USE ProcessAssumption
<1>1. IsFiniteSet(a..MaxRetries) /\ Cardinality(a..MaxRetries) = MaxRetries + 1 - a
  <2>1. a \in Int /\ MaxRetries \in Int
    OBVIOUS
  <2>2. IsFiniteSet(a..MaxRetries)
        /\ Cardinality(a..MaxRetries) = IF a > MaxRetries THEN 0 ELSE MaxRetries - a + 1
    BY <2>1, FS_Interval
  <2>3. QED
    BY <2>2
<1> DEFINE f == [b \in a..MaxRetries |-> <<x, b>>]
<1>2. f \in Bijection(a..MaxRetries, Row(x, a))
  <2>1. f \in [a..MaxRetries -> Row(x, a)]
    BY DEF Row
  <2>2. \A b, c \in a..MaxRetries : f[b] = f[c] => b = c
    OBVIOUS
  <2>3. \A y \in Row(x, a) : \E b \in a..MaxRetries : f[b] = y
    <3> SUFFICES ASSUME NEW b \in a..MaxRetries PROVE f[b] = <<x, b>>
      BY DEF Row
    <3> QED
      OBVIOUS
  <2> HIDE DEF f
  <2>4. QED
    BY <2>1, <2>2, <2>3 DEF Bijection, Injection, Surjection, IsInjective
<1>3. ExistsBijection(a..MaxRetries, Row(x, a))
  BY <1>2 DEF ExistsBijection
<1>4. QED
  BY <1>1, <1>3, FS_Bijection

\* Sets that have nothing in common are counted one after the other.
LEMMA Together ==
  ASSUME NEW S, NEW T, IsFiniteSet(S), IsFiniteSet(T), S \cap T = {}
  PROVE  IsFiniteSet(S \cup T) /\ Cardinality(S \cup T) = Cardinality(S) + Cardinality(T)
<1>1. Cardinality(S \cap T) = 0
  BY FS_EmptySet
<1>2. Cardinality(S) \in Nat /\ Cardinality(T) \in Nat
  BY FS_CardinalityType
<1>3. /\ IsFiniteSet(S \cup T)
      /\ Cardinality(S \cup T) = Cardinality(S) + Cardinality(T) - Cardinality(S \cap T)
  BY FS_Union
<1>4. QED
  BY <1>1, <1>2, <1>3

\* What is taken out of a set is counted off.
LEMMA Without ==
  ASSUME NEW S, NEW T, IsFiniteSet(S), T \subseteq S
  PROVE  /\ IsFiniteSet(S \ T) /\ IsFiniteSet(T)
         /\ Cardinality(S \ T) = Cardinality(S) - Cardinality(T)
<1>1. IsFiniteSet(S \ T) /\ IsFiniteSet(T)
  BY FS_Subset
<1>2. Cardinality((S \ T) \cup T) = Cardinality(S \ T) + Cardinality(T)
  <2>1. (S \ T) \cap T = {}
    OBVIOUS
  <2>2. QED
    BY <1>1, <2>1, Together
<1>3. (S \ T) \cup T = S
  OBVIOUS
<1>4. Cardinality(S) \in Nat /\ Cardinality(T) \in Nat /\ Cardinality(S \ T) \in Nat
  BY <1>1, FS_CardinalityType
<1>5. QED
  BY <1>1, <1>2, <1>3, <1>4

\* What is bounded, and the bound, are numbers.
LEMMA ChancesAreNumbers ==
  ASSUME TypeOK, NEW t \in Tasks, Chances(t)
  PROVE  /\ runs[t] \in Nat /\ redelivered[t] \in Nat
         /\ Cardinality(QueuedRuns(t)) \in Nat /\ Cardinality(TakenRuns(t)) \in Nat
         /\ (MaxRetries + 1) * (redelivered[t] + 1) \in Nat
<1>1. runs[t] \in Nat /\ redelivered[t] \in Nat
  BY ProcessAssumption DEF TypeOK
<1>2. QED
  BY <1>1, ProcessAssumption, FS_CardinalityType DEF Chances

\* A first message is good for one run of each attempt.
LEMMA InitChances == Init => WorkersHold /\ \A t \in Tasks : Chances(t)
<1> SUFFICES ASSUME Init PROVE WorkersHold /\ \A t \in Tasks : Chances(t)
  OBVIOUS
<1> USE ProcessAssumption
<1> PICK crew \in Crews :
      /\ step = [s \in Slots |-> IF s \in Requests \ crew.requests THEN "done" ELSE "idle"]
      /\ queue = [m \in Tasks \X Attempts |-> IF m[1] \in crew.tasks /\ m[2] = 0 THEN 1 ELSE 0]
  BY DEF Init
<1>1. \A w \in Workers : step[w] = "idle"
  BY DEF Slots
<1>2. ASSUME NEW t \in Tasks PROVE Chances(t)
  <2>1. runs[t] = 0 /\ redelivered[t] = 0
    BY DEF Init
  <2>2. TakenRuns(t) = {}
    BY <1>1 DEF TakenRuns, Left, Unrun, Attempts
  <2>3. QueuedRuns(t) \subseteq Row(<<0, 1>>, 0)
    <3> SUFFICES ASSUME NEW x \in QueuedRuns(t) PROVE x \in Row(<<0, 1>>, 0)
      OBVIOUS
    <3>1. PICK a \in Attempts, i \in Nat \ {0}, b \in Attempts :
            x = <<<<a, i>>, b>> /\ i <= queue[<<t, a>>] /\ a <= b
      BY DEF QueuedRuns
    <3>2. queue[<<t, a>>] = IF t \in crew.tasks /\ a = 0 THEN 1 ELSE 0
      BY <3>1
    <3>3. a = 0 /\ i = 1 /\ b \in 0..MaxRetries
      BY <3>1, <3>2 DEF Attempts
    <3>4. QED
      BY <3>1, <3>3 DEF Row
  <2>4. IsFiniteSet(Row(<<0, 1>>, 0)) /\ Cardinality(Row(<<0, 1>>, 0)) = MaxRetries + 1
    <3>1. 0 \in 0..(MaxRetries + 1) /\ MaxRetries + 1 - 0 = MaxRetries + 1
      OBVIOUS
    <3>2. QED
      BY <3>1, RowSize
  <2>5. IsFiniteSet(QueuedRuns(t)) /\ Cardinality(QueuedRuns(t)) <= MaxRetries + 1
    BY <2>3, <2>4, FS_Subset
  <2>6. IsFiniteSet(TakenRuns(t)) /\ Cardinality(TakenRuns(t)) = 0
    BY <2>2, FS_EmptySet
  <2>7. Cardinality(QueuedRuns(t)) \in Nat /\ (MaxRetries + 1) * (0 + 1) = MaxRetries + 1
    BY <2>5, FS_CardinalityType
  <2>8. QED
    BY <2>1, <2>5, <2>6, <2>7 DEF Chances
<1>3. QED
  BY <1>1, <1>2 DEF WorkersHold

\* A step that sends, takes and runs nothing may lose runs, and wins none.
LEMMA NothingGained ==
  ASSUME TypeOK, NEW t \in Tasks, Chances(t),
         \A c \in Attempts : queue'[<<t, c>>] = queue[<<t, c>>],
         runs'[t] = runs[t], redelivered'[t] = redelivered[t],
         TakenRuns(t)' \subseteq TakenRuns(t)
  PROVE  Chances(t)'
<1>1. QueuedRuns(t)' = QueuedRuns(t)
  BY DEF QueuedRuns
<1>2. IsFiniteSet(TakenRuns(t)') /\ Cardinality(TakenRuns(t)') <= Cardinality(TakenRuns(t))
  BY FS_Subset DEF Chances
<1>3. Cardinality(TakenRuns(t)') \in Nat
  BY <1>2, FS_CardinalityType
<1>4. /\ IsFiniteSet(QueuedRuns(t)')
      /\ runs'[t] + Cardinality(QueuedRuns(t)') + Cardinality(TakenRuns(t)')
           <= (MaxRetries + 1) * (redelivered'[t] + 1)
  BY <1>1, <1>2, <1>3, ChancesAreNumbers DEF Chances
<1>5. QED
  BY <1>2, <1>4 DEF Chances

\* A step of a worker that takes no message: it goes on with the message it has
\* or no longer has one to run.
GoesOn(w) ==
    \/ step'[w] \notin Unrun \cup {"result", "retry"}
    \/ /\ held'[w] = held[w]
       /\ \/ step'[w] = step[w]
          \/ step[w] \in Unrun
          \/ step[w] = "result" /\ step'[w] = "retry"

\* A worker that goes on with the message it has has no more attempts left.
LEMMA GoingOnGainsNothing ==
  ASSUME TypeOK, WorkersHold, NEW t, \A w \in Workers : GoesOn(w)
  PROVE  TakenRuns(t)' \subseteq TakenRuns(t)
<1> SUFFICES ASSUME NEW x \in TakenRuns(t)' PROVE x \in TakenRuns(t)
  OBVIOUS
<1>1. PICK w \in Workers, b \in Attempts : x = <<w, b>> /\ Left(w)' <= b /\ held'[w][1] = t
  BY DEF TakenRuns
<1>2. w \in Slots /\ GoesOn(w)
  BY DEF Slots
<1>3. MaxRetries \in Nat /\ b <= MaxRetries /\ b \in Nat
  BY ProcessAssumption DEF Attempts
<1>4. step'[w] \in Unrun \cup {"result", "retry"}
  BY <1>1, <1>3 DEF Left
<1>5. step[w] \in Unrun \cup {"result", "retry"} /\ held'[w] = held[w]
  BY <1>2, <1>4 DEF GoesOn
<1>6. held[w] \in Tasks \X Attempts
  BY <1>5 DEF WorkersHold, TypeOK, Unrun
<1>7. held[w][2] \in Nat
  BY <1>6 DEF Attempts
<1>8. Left(w) <= Left(w)' /\ Left(w) \in Nat /\ Left(w)' \in Nat
  BY <1>2, <1>4, <1>5, <1>7 DEF Left, Unrun, GoesOn
<1>9. QED
  BY <1>1, <1>3, <1>5, <1>8 DEF TakenRuns

\* Workers go on in every step of a slot, an API process or another.
LEMMA WorkersGoOn ==
  ASSUME TypeOK, Homes, WorkersHold,
         \/ Edit \/ UNCHANGED vars
         \/ \E r \in Requests : Arrive(r)
         \/ \E p \in Apis : ApiStep(p)
         \/ \E s \in Slots : SlotStep(s)
         \/ \E w \in Workers : Acknowledge(w)
  PROVE  (\A w \in Workers : GoesOn(w)) /\ WorkersHold'
<1> SUFFICES ASSUME NEW w \in Workers PROVE GoesOn(w) /\ (step'[w] # "idle" => held'[w] # None)
  BY DEF WorkersHold
<1> USE DEF WorkersHold
<1>1. w \in Slots /\ w \notin Requests /\ step[w] \in Steps
  BY ProcessAssumption DEF Slots, TypeOK
<1>2. CASE Edit \/ UNCHANGED vars
  BY <1>2 DEF Edit, GoesOn, vars, slot, broker
<1>3. CASE \E r \in Requests : Arrive(r)
  BY <1>1, <1>3 DEF Arrive, GoesTo, GoesOn, broker, TypeOK
<1>4. CASE \E p \in Apis : ApiStep(p)
  <2>1. PICK p \in Apis : ApiStep(p)
    BY <1>4
  <2>2. held' = held /\ step'[w] = step[w]
    <3>1. CASE Die(p)
      BY <1>1, <3>1 DEF Die, InApi, broker
    <3>2. CASE ~Die(p)
      BY <2>1, <3>2 DEF ApiStep, Boot, Start, FindDatabase, CreateDatabase, OpenPool, SetupTables,
                        LoadTools, Shutdown, slot, broker
    <3>3. QED
      BY <3>1, <3>2
  <2>3. QED
    BY <2>2 DEF GoesOn
<1>5. CASE \E s \in Slots : SlotStep(s)
  <2>1. PICK s \in Slots : SlotStep(s)
    BY <1>5
  <2>2. ASSUME NEW next, GoesTo(s, next) PROVE step'[w] = IF w = s THEN next ELSE step[w]
    BY <1>1, <2>2 DEF GoesTo, TypeOK
  <2>3. held' = held
    BY <2>1 DEF SlotStep, Work, Resolve, Build, Register, Ensure, OpenOwnPool, SetupOwnTables,
                Compile, Run, Result, Raise, broker
  <2>4. \/ step'[w] = step[w]
        \/ w = s /\ step[w] \in Unrun /\ step'[w] \in Unrun \cup {"result", "retry"}
        \/ w = s /\ step[w] = "result" /\ step'[w] = "retry"
    <3>1. ASSUME NEW outcome, Fails(s, outcome) PROVE step'[w] = IF w = s THEN "retry" ELSE step[w]
      BY <1>1, <2>2, <3>1 DEF Fails
    <3>2. CASE Resolve(s)
      BY <2>2, <3>2 DEF Resolve, At, Unrun
    <3>3. CASE Build(s)
      BY <2>2, <3>1, <3>3 DEF Build, At, Unrun
    <3>4. CASE Register(s) \/ Ensure(s) \/ SetupOwnTables(s) \/ Compile(s)
      BY <2>2, <3>4 DEF Register, Ensure, SetupOwnTables, Compile, At, Unrun
    <3>5. CASE OpenOwnPool(s)
      BY <2>2, <3>1, <3>5 DEF OpenOwnPool, At, Unrun
    <3>6. CASE Run(s)
      BY <2>2, <3>1, <3>6 DEF Run, At, Unrun
    <3>7. CASE Result(s) \/ Raise(s)
      BY <3>1, <3>7 DEF Result, Raise, At, Unrun
    <3>8. QED
      BY <2>1, <3>2, <3>3, <3>4, <3>5, <3>6, <3>7 DEF SlotStep, Work
  <2>5. QED
    BY <2>3, <2>4 DEF GoesOn, Unrun
<1>6. CASE \E v \in Workers : Acknowledge(v)
  <2>1. PICK v \in Workers : Acknowledge(v)
    BY <1>6
  <2>2. /\ step'[w] = IF w = v THEN "idle" ELSE step[w]
        /\ held'[w] = IF w = v THEN None ELSE held[w]
    BY <1>1, <2>1 DEF Acknowledge, GoesTo, TypeOK, Slots
  <2>3. QED
    BY <2>2 DEF GoesOn, Unrun
<1>7. QED
  BY <1>2, <1>3, <1>4, <1>5, <1>6

\* A run uses up the first run its worker had left.
LEMMA RunIsCounted ==
  ASSUME TypeOK, Homes, WorkersHold, NEW t \in Tasks, Chances(t), NEW s \in Slots, Run(s)
  PROVE  Chances(t)'
<1> USE ProcessAssumption
<1>1. TakenRuns(t)' \subseteq TakenRuns(t)
  BY WorkersGoOn, GoingOnGainsNothing DEF SlotStep, Work
<1>2. queue' = queue /\ redelivered' = redelivered /\ held' = held
  BY DEF Run
<1>3. CASE s \in Workers /\ runs' = [runs EXCEPT ![held[s][1]] = @ + 1] /\ held[s][1] = t
          /\ step' = [step EXCEPT ![s] = "result"]
  <2> DEFINE a == held[s][2]
             x == <<s, a>>
  <2>1. held[s] \in Tasks \X Attempts /\ step[s] = "run" /\ step'[s] = "result"
    BY <1>3 DEF Run, At, WorkersHold, TypeOK
  <2>2. a \in Attempts /\ a \in Nat
    BY <2>1 DEF Attempts
  <2>3. x \in TakenRuns(t)
    BY <1>3, <2>1, <2>2 DEF TakenRuns, Left, Unrun
  <2>4. x \notin TakenRuns(t)'
    <3>1. Left(s)' = a + 1
      BY <1>2, <2>1 DEF Left, Unrun
    <3>2. ~(a + 1 <= a)
      BY <2>2
    <3>3. QED
      BY <3>1, <3>2 DEF TakenRuns
  <2>5. TakenRuns(t)' \subseteq TakenRuns(t) \ {x}
    BY <1>1, <2>4
  <2>6. /\ IsFiniteSet(TakenRuns(t) \ {x})
        /\ Cardinality(TakenRuns(t) \ {x}) = Cardinality(TakenRuns(t)) - 1
    <3>1. IsFiniteSet(TakenRuns(t))
      BY DEF Chances
    <3> HIDE DEF x
    <3>2. QED
      BY <2>3, <3>1, FS_RemoveElement
  <2>7. IsFiniteSet(TakenRuns(t)') /\ Cardinality(TakenRuns(t)') <= Cardinality(TakenRuns(t)) - 1
    BY <2>5, <2>6, FS_Subset
  <2>8. Cardinality(TakenRuns(t)') \in Nat
    BY <2>7, FS_CardinalityType
  <2>9. runs'[t] = runs[t] + 1
    BY <1>3 DEF TypeOK
  <2>10. QueuedRuns(t)' = QueuedRuns(t)
    BY <1>2 DEF QueuedRuns
  <2>11. /\ IsFiniteSet(QueuedRuns(t)')
         /\ runs'[t] + Cardinality(QueuedRuns(t)') + Cardinality(TakenRuns(t)')
              <= (MaxRetries + 1) * (redelivered'[t] + 1)
    BY <1>2, <2>7, <2>8, <2>9, <2>10, ChancesAreNumbers DEF Chances
  <2>12. QED
    BY <2>7, <2>11 DEF Chances
<1>4. CASE runs'[t] = runs[t]
  BY <1>1, <1>2, <1>4, NothingGained
<1>5. runs' = runs \/ /\ s \in Workers /\ runs' = [runs EXCEPT ![held[s][1]] = @ + 1]
                      /\ step' = [step EXCEPT ![s] = "result"]
  BY DEF Run, GoesTo
<1>6. ASSUME s \in Workers, held[s][1] # t, runs' = [runs EXCEPT ![held[s][1]] = @ + 1]
      PROVE  runs'[t] = runs[t]
  <2> DEFINE u == held[s][1]
  <2>1. runs' = [runs EXCEPT ![u] = @ + 1] /\ u # t
    BY <1>6
  <2> HIDE DEF u
  <2>2. QED
    BY <2>1 DEF TypeOK
<1>7. QED
  BY <1>3, <1>4, <1>5, <1>6

\* A message taken from the queue is good for as many runs with its worker.
LEMMA TakeMoves ==
  ASSUME TypeOK, Homes, WorkersHold, NEW t \in Tasks, Chances(t), NEW w \in Workers, Take(w)
  PROVE  Chances(t)'
<1> USE ProcessAssumption
<1>1. w \in Slots /\ step[w] = "idle" /\ runs' = runs /\ redelivered' = redelivered
  BY DEF Take, At, Slots
<1> PICK m \in Tasks \X Attempts :
      /\ queue[m] > 0
      /\ queue' = [queue EXCEPT ![m] = @ - 1]
      /\ held' = [held EXCEPT ![w] = m]
  BY DEF Take
<1>2. step' = [step EXCEPT ![w] = "resolve"]
  BY DEF Take, GoesTo
<1>3. PICK u \in Tasks, a \in Attempts : m = <<u, a>>
  OBVIOUS
<1> DEFINE k == queue[m]
<1>4. k \in Nat \ {0} /\ a \in Nat /\ a <= MaxRetries /\ a \in 0..(MaxRetries + 1)
  BY <1>3 DEF TypeOK, Attempts
<1>5. ASSUME NEW v \in Workers, v # w PROVE Left(v)' = Left(v) /\ held'[v] = held[v]
  <2>1. step'[v] = step[v] /\ held'[v] = held[v]
    BY <1>1, <1>2, <1>5 DEF TypeOK, Slots
  <2>2. QED
    BY <2>1 DEF Left
<1>6. /\ Left(w) = MaxRetries + 1
      /\ Left(w)' = a /\ held'[w] = m
  BY <1>1, <1>2, <1>3 DEF Left, Unrun, TypeOK
<1>7. CASE u # t
  <2>1. TakenRuns(t)' \subseteq TakenRuns(t)
    <3> SUFFICES ASSUME NEW v \in Workers, NEW b \in Attempts, Left(v)' <= b, held'[v][1] = t
                 PROVE  Left(v) <= b /\ held[v][1] = t
      BY DEF TakenRuns
    <3>1. v # w
      BY <1>3, <1>6, <1>7
    <3>2. QED
      BY <1>5, <3>1
  <2>2. \A c \in Attempts : queue'[<<t, c>>] = queue[<<t, c>>]
    BY <1>3, <1>7 DEF TypeOK
  <2>3. QED
    BY <1>1, <2>1, <2>2, NothingGained
<1>8. CASE u = t
  <2>1. QueuedRuns(t)' \subseteq QueuedRuns(t) \ Row(<<a, k>>, a)
    <3> SUFFICES ASSUME NEW c \in Attempts, NEW i \in Nat \ {0}, NEW b \in Attempts,
                        i <= queue'[<<t, c>>], c <= b
                 PROVE  i <= queue[<<t, c>>] /\ ~(c = a /\ i = k)
      BY DEF QueuedRuns, Row
    <3>1. queue'[<<t, c>>] = IF c = a THEN k - 1 ELSE queue[<<t, c>>]
      BY <1>3, <1>8 DEF TypeOK
    <3>2. CASE c = a
      <4>1. i <= k - 1 /\ queue[<<t, c>>] = k
        BY <1>3, <1>8, <3>1, <3>2
      <4>2. QED
        BY <1>4, <4>1
    <3>3. QED
      BY <3>1, <3>2
  <2>2. Row(<<a, k>>, a) \subseteq QueuedRuns(t)
    <3> SUFFICES ASSUME NEW b \in a..MaxRetries PROVE <<<<a, k>>, b>> \in QueuedRuns(t)
      BY DEF Row
    <3>1. b \in Attempts /\ a <= b /\ k <= queue[<<t, a>>] /\ k \in Nat \ {0}
      BY <1>3, <1>4, <1>8 DEF Attempts
    <3>2. QED
      BY <3>1 DEF QueuedRuns
  <2>3. TakenRuns(t)' \subseteq TakenRuns(t) \cup Row(w, a)
    <3> SUFFICES ASSUME NEW v \in Workers, NEW b \in Attempts, Left(v)' <= b, held'[v][1] = t
                 PROVE  (Left(v) <= b /\ held[v][1] = t) \/ (v = w /\ b \in a..MaxRetries)
      BY DEF TakenRuns, Row
    <3>1. CASE v = w
      BY <1>4, <1>6, <3>1 DEF Attempts
    <3>2. CASE v # w
      <4>1. Left(v)' = Left(v) /\ held'[v] = held[v]
        BY <1>5, <3>2
      <4>2. QED
        BY <4>1
    <3>3. QED
      BY <3>1, <3>2
  <2>4. TakenRuns(t) \cap Row(w, a) = {}
    <3> SUFFICES ASSUME NEW b \in a..MaxRetries PROVE ~(Left(w) <= b)
      BY DEF TakenRuns, Row
    <3>1. QED
      BY <1>4, <1>6
  <2> DEFINE n == MaxRetries + 1 - a
  <2>5. /\ IsFiniteSet(Row(<<a, k>>, a)) /\ Cardinality(Row(<<a, k>>, a)) = n
        /\ IsFiniteSet(Row(w, a)) /\ Cardinality(Row(w, a)) = n
        /\ n \in Nat
    BY <1>4, RowSize
  <2>6. /\ IsFiniteSet(QueuedRuns(t) \ Row(<<a, k>>, a))
        /\ Cardinality(QueuedRuns(t) \ Row(<<a, k>>, a)) = Cardinality(QueuedRuns(t)) - n
    BY <2>2, <2>5, Without DEF Chances
  <2>7. /\ IsFiniteSet(QueuedRuns(t)')
        /\ Cardinality(QueuedRuns(t)') <= Cardinality(QueuedRuns(t)) - n
    BY <2>1, <2>6, FS_Subset
  <2>8. /\ IsFiniteSet(TakenRuns(t) \cup Row(w, a))
        /\ Cardinality(TakenRuns(t) \cup Row(w, a)) = Cardinality(TakenRuns(t)) + n
    BY <2>4, <2>5, Together DEF Chances
  <2>9. /\ IsFiniteSet(TakenRuns(t)')
        /\ Cardinality(TakenRuns(t)') <= Cardinality(TakenRuns(t)) + n
    BY <2>3, <2>8, FS_Subset
  <2>10. Cardinality(TakenRuns(t)') \in Nat /\ Cardinality(QueuedRuns(t)') \in Nat
    BY <2>7, <2>9, FS_CardinalityType
  <2>11. runs'[t] + Cardinality(QueuedRuns(t)') + Cardinality(TakenRuns(t)')
           <= (MaxRetries + 1) * (redelivered'[t] + 1)
    <3> HIDE DEF n
    <3>1. QED
      BY <1>1, <2>5, <2>7, <2>9, <2>10, ChancesAreNumbers, SMTT(60) DEF Chances
  <2>12. QED
    BY <2>7, <2>9, <2>11 DEF Chances
<1>9. QED
  BY <1>7, <1>8

\* A message sent makes the queue good for a run of its attempt and of each
\* later one.
LEMMA SendingAdds ==
  ASSUME TypeOK, NEW t \in Tasks, NEW a \in Attempts, Chances(t),
         queue' = [queue EXCEPT ![<<t, a>>] = @ + 1]
  PROVE  /\ IsFiniteSet(QueuedRuns(t)')
         /\ Cardinality(QueuedRuns(t)') <= Cardinality(QueuedRuns(t)) + (MaxRetries + 1 - a)
<1> USE ProcessAssumption
<1> DEFINE k == queue[<<t, a>>] + 1
<1>1. k \in Nat \ {0} /\ a \in 0..(MaxRetries + 1)
  BY DEF TypeOK, Attempts
<1>2. QueuedRuns(t)' \subseteq QueuedRuns(t) \cup Row(<<a, k>>, a)
  <2> SUFFICES ASSUME NEW c \in Attempts, NEW i \in Nat \ {0}, NEW b \in Attempts,
                      i <= queue'[<<t, c>>], c <= b
               PROVE  i <= queue[<<t, c>>] \/ (c = a /\ i = k /\ b \in a..MaxRetries)
    BY DEF QueuedRuns, Row
  <2>1. queue'[<<t, c>>] = IF c = a THEN k ELSE queue[<<t, c>>]
    BY DEF TypeOK
  <2>2. CASE c = a
    <3>1. queue[<<t, a>>] \in Nat /\ b \in a..MaxRetries
      BY <2>2 DEF TypeOK, Attempts
    <3>2. i <= queue[<<t, a>>] + 1
      BY <2>1, <2>2
    <3>3. i <= queue[<<t, a>>] \/ i = queue[<<t, a>>] + 1
      BY <3>1, <3>2
    <3>4. QED
      BY <2>2, <3>1, <3>3
  <2>3. CASE c # a
    BY <2>1, <2>3
  <2>4. QED
    BY <2>2, <2>3
<1>3. IsFiniteSet(Row(<<a, k>>, a)) /\ Cardinality(Row(<<a, k>>, a)) = MaxRetries + 1 - a
  BY <1>1, RowSize
<1>4. /\ IsFiniteSet(QueuedRuns(t) \cup Row(<<a, k>>, a))
      /\ Cardinality(QueuedRuns(t) \cup Row(<<a, k>>, a))
           <= Cardinality(QueuedRuns(t)) + Cardinality(Row(<<a, k>>, a))
  <2>1. IsFiniteSet(QueuedRuns(t))
    BY DEF Chances
  <2> HIDE DEF k
  <2>2. IsFiniteSet(QueuedRuns(t) \cap Row(<<a, k>>, a))
    BY <1>3, FS_Subset
  <2>3. Cardinality(QueuedRuns(t) \cap Row(<<a, k>>, a)) \in Nat
    BY <2>2, FS_CardinalityType
  <2>4. Cardinality(QueuedRuns(t)) \in Nat /\ Cardinality(Row(<<a, k>>, a)) \in Nat
    BY <1>3, <2>1, FS_CardinalityType
  <2>5. /\ IsFiniteSet(QueuedRuns(t) \cup Row(<<a, k>>, a))
        /\ Cardinality(QueuedRuns(t) \cup Row(<<a, k>>, a))
             = Cardinality(QueuedRuns(t)) + Cardinality(Row(<<a, k>>, a))
                 - Cardinality(QueuedRuns(t) \cap Row(<<a, k>>, a))
    BY <1>3, <2>1, FS_Union
  <2>6. QED
    BY <2>3, <2>4, <2>5
<1> HIDE DEF k
<1>5. /\ IsFiniteSet(QueuedRuns(t)')
      /\ Cardinality(QueuedRuns(t)') <= Cardinality(QueuedRuns(t) \cup Row(<<a, k>>, a))
  BY <1>2, <1>4, FS_Subset
<1>6. /\ Cardinality(QueuedRuns(t)') \in Nat /\ Cardinality(QueuedRuns(t)) \in Nat
      /\ Cardinality(QueuedRuns(t) \cup Row(<<a, k>>, a)) \in Nat
  BY <1>4, <1>5, FS_CardinalityType DEF Chances
<1>7. QED
  BY <1>1, <1>3, <1>4, <1>5, <1>6

\* A retry sends the message of the next attempt, and ends its worker's.
LEMMA RetryMoves ==
  ASSUME TypeOK, Homes, WorkersHold, NEW t \in Tasks, Chances(t), NEW w \in Workers, Retry(w)
  PROVE  Chances(t)'
<1> USE ProcessAssumption
<1>1. /\ w \in Slots /\ step[w] = "retry" /\ step' = [step EXCEPT ![w] = "acknowledge"]
      /\ runs' = runs /\ redelivered' = redelivered /\ held' = held
  BY DEF Retry, At, GoesTo, Slots
<1>2. PICK u \in Tasks, c \in Attempts : held[w] = <<u, c>>
  BY <1>1 DEF WorkersHold, TypeOK
<1> DEFINE a == c + 1
<1>3. c \in Nat /\ a \in 0..(MaxRetries + 1)
  BY DEF Attempts
<1>4. queue' = IF a \in Attempts THEN [queue EXCEPT ![<<u, a>>] = @ + 1] ELSE queue
  BY <1>2 DEF Retry
<1>5. \A v \in Workers : step'[v] = IF v = w THEN "acknowledge" ELSE step[v]
  BY <1>1 DEF TypeOK, Slots
<1>6. TakenRuns(t)' \subseteq TakenRuns(t)
  <2>1. \A v \in Workers : GoesOn(v)
    BY <1>1, <1>5 DEF GoesOn, Unrun
  <2>2. QED
    BY <2>1, GoingOnGainsNothing
<1>7. CASE u # t \/ a \notin Attempts
  <2>1. \A d \in Attempts : queue'[<<t, d>>] = queue[<<t, d>>]
    <3>1. CASE a \in Attempts /\ u # t
      BY <1>4, <3>1 DEF TypeOK
    <3>2. QED
      BY <1>4, <1>7, <3>1
  <2>2. QED
    BY <1>1, <1>6, <2>1, NothingGained
<1>8. CASE u = t /\ a \in Attempts
  <2>1. Row(w, a) \subseteq TakenRuns(t)
    <3> SUFFICES ASSUME NEW b \in a..MaxRetries PROVE <<w, b>> \in TakenRuns(t)
      BY DEF Row
    <3>1. Left(w) = a /\ b \in Attempts /\ a <= b
      BY <1>1, <1>2, <1>3 DEF Left, Unrun, Attempts
    <3>2. QED
      BY <1>2, <1>8, <3>1 DEF TakenRuns
  <2>2. TakenRuns(t)' \cap Row(w, a) = {}
    <3> SUFFICES ASSUME NEW b \in a..MaxRetries PROVE ~(Left(w)' <= b)
      BY DEF TakenRuns, Row
    <3>1. Left(w)' = MaxRetries + 1
      BY <1>5 DEF Left, Unrun
    <3>2. QED
      BY <1>3, <3>1
  <2>3. TakenRuns(t)' \subseteq TakenRuns(t) \ Row(w, a)
    BY <1>6, <2>2
  <2> DEFINE n == MaxRetries + 1 - a
  <2>4. IsFiniteSet(Row(w, a)) /\ Cardinality(Row(w, a)) = n /\ n \in Nat
    BY <1>3, RowSize
  <2>5. /\ IsFiniteSet(TakenRuns(t) \ Row(w, a))
        /\ Cardinality(TakenRuns(t) \ Row(w, a)) = Cardinality(TakenRuns(t)) - n
    BY <2>1, <2>4, Without DEF Chances
  <2>6. /\ IsFiniteSet(TakenRuns(t)')
        /\ Cardinality(TakenRuns(t)') <= Cardinality(TakenRuns(t)) - n
    BY <2>3, <2>5, FS_Subset
  <2>7. /\ IsFiniteSet(QueuedRuns(t)')
        /\ Cardinality(QueuedRuns(t)') <= Cardinality(QueuedRuns(t)) + n
    BY <1>4, <1>8, SendingAdds
  <2>8. Cardinality(TakenRuns(t)') \in Nat /\ Cardinality(QueuedRuns(t)') \in Nat
    BY <2>6, <2>7, FS_CardinalityType
  <2>9. runs'[t] + Cardinality(QueuedRuns(t)') + Cardinality(TakenRuns(t)')
           <= (MaxRetries + 1) * (redelivered'[t] + 1)
    <3> HIDE DEF n
    <3>1. QED
      BY <1>1, <2>4, <2>6, <2>7, <2>8, ChancesAreNumbers, SMTT(60) DEF Chances
  <2>10. QED
    BY <2>6, <2>7, <2>9 DEF Chances
<1>9. QED
  BY <1>7, <1>8

\* A message delivered again is good for at most one run of every attempt.
LEMMA RedeliveryIsCounted ==
  ASSUME TypeOK, Homes, WorkersHold, NEW t \in Tasks, Chances(t), NEW w \in Workers, Redeliver(w)
  PROVE  Chances(t)' /\ WorkersHold'
<1> USE ProcessAssumption
<1>1. w \in Slots /\ runs' = runs
  BY DEF Redeliver, Slots
<1>2. PICK u \in Tasks, a \in Attempts : held[w] = <<u, a>>
  BY DEF Redeliver, TypeOK
<1>3. /\ queue' = [queue EXCEPT ![<<u, a>>] = @ + 1]
      /\ redelivered' = [redelivered EXCEPT ![u] = @ + 1]
  BY <1>2 DEF Redeliver
<1>4. \A v \in Workers : (step'[v] = step[v] /\ held'[v] = held[v]) \/ (v = w /\ step'[v] = "idle")
  <2> SUFFICES ASSUME NEW v \in Workers
               PROVE  (step'[v] = step[v] /\ held'[v] = held[v]) \/ (v = w /\ step'[v] = "idle")
    OBVIOUS
  <2>1. CASE UNCHANGED <<held, process, slot>>
    BY <2>1 DEF slot
  <2>2. CASE held' = [held EXCEPT ![w] = None] /\ step' = [step EXCEPT ![w] = "idle"]
    BY <1>1, <2>2 DEF TypeOK, Slots
  <2>3. QED
    BY <2>1, <2>2 DEF Redeliver
<1>5. TakenRuns(t)' \subseteq TakenRuns(t)
  <2>1. \A v \in Workers : GoesOn(v)
    BY <1>4 DEF GoesOn, Unrun
  <2>2. QED
    BY <2>1, GoingOnGainsNothing
<1>6. WorkersHold'
  BY <1>4 DEF WorkersHold
<1>7. CASE u # t
  <2>1. /\ \A c \in Attempts : queue'[<<t, c>>] = queue[<<t, c>>]
        /\ redelivered'[t] = redelivered[t]
    BY <1>3, <1>7 DEF TypeOK
  <2>2. QED
    BY <1>1, <1>5, <1>6, <2>1, NothingGained
<1>8. CASE u = t
  <2>1. redelivered'[t] = redelivered[t] + 1
    BY <1>3, <1>8 DEF TypeOK
  <2>2. /\ IsFiniteSet(QueuedRuns(t)')
        /\ Cardinality(QueuedRuns(t)') <= Cardinality(QueuedRuns(t)) + (MaxRetries + 1 - a)
    BY <1>3, <1>8, SendingAdds
  <2>3. IsFiniteSet(TakenRuns(t)') /\ Cardinality(TakenRuns(t)') <= Cardinality(TakenRuns(t))
    BY <1>5, FS_Subset DEF Chances
  <2>4. Cardinality(TakenRuns(t)') \in Nat /\ Cardinality(QueuedRuns(t)') \in Nat /\ a \in Nat
    BY <2>2, <2>3, FS_CardinalityType DEF Attempts
  <2>5. (MaxRetries + 1) * (redelivered'[t] + 1)
          = (MaxRetries + 1) * (redelivered[t] + 1) + (MaxRetries + 1)
    <3>1. \A i, j \in Nat : i * (j + 1 + 1) = i * (j + 1) + i
      OBVIOUS
    <3>2. MaxRetries + 1 \in Nat /\ redelivered[t] \in Nat
      BY ChancesAreNumbers
    <3>3. QED
      BY <2>1, <3>1, <3>2
  <2>6. runs'[t] + Cardinality(QueuedRuns(t)') + Cardinality(TakenRuns(t)')
          <= (MaxRetries + 1) * (redelivered'[t] + 1)
    <3> DEFINE bound == (MaxRetries + 1) * (redelivered[t] + 1)
    <3>1. bound \in Nat
      BY ChancesAreNumbers
    <3>2. runs[t] + Cardinality(QueuedRuns(t)) + Cardinality(TakenRuns(t)) <= bound
      BY DEF Chances
    <3>3. (MaxRetries + 1) * (redelivered'[t] + 1) = bound + (MaxRetries + 1)
      BY <2>5
    <3> HIDE DEF bound
    <3>4. QED
      BY <1>1, <2>2, <2>3, <2>4, <3>1, <3>2, <3>3, ChancesAreNumbers, SMTT(60)
  <2>7. QED
    BY <1>6, <2>2, <2>3, <2>6 DEF Chances
<1>9. QED
  BY <1>7, <1>8

\* Every step keeps what a task may still run within the bound.
LEMMA NextChances ==
  Inv /\ WorkersHold /\ (\A t \in Tasks : Chances(t)) /\ [Next]_vars
    => (WorkersHold /\ \A t \in Tasks : Chances(t))'
<1> SUFFICES ASSUME Inv, WorkersHold, \A t \in Tasks : Chances(t), [Next]_vars
             PROVE  WorkersHold' /\ \A t \in Tasks : Chances(t)'
  OBVIOUS
<1>1. TypeOK /\ Homes
  BY DEF Inv
<1>2. ASSUME NEW s \in Slots, Run(s) PROVE WorkersHold' /\ \A t \in Tasks : Chances(t)'
  BY <1>1, <1>2, RunIsCounted, WorkersGoOn DEF SlotStep, Work
<1>3. ASSUME NEW w \in Workers, Take(w) PROVE WorkersHold' /\ \A t \in Tasks : Chances(t)'
  <2>1. WorkersHold'
    <3>1. PICK m \in Tasks \X Attempts : held' = [held EXCEPT ![w] = m]
      BY <1>3 DEF Take
    <3>2. m # None
      BY <3>1, ProcessAssumption
    <3>3. step' = [step EXCEPT ![w] = "resolve"]
      BY <1>3 DEF Take, GoesTo
    <3>4. QED
      BY <1>1, <3>1, <3>2, <3>3 DEF WorkersHold, TypeOK, Slots
  <2>2. QED
    BY <1>1, <1>3, <2>1, TakeMoves
<1>4. ASSUME NEW w \in Workers, Retry(w) PROVE WorkersHold' /\ \A t \in Tasks : Chances(t)'
  <2>1. WorkersHold'
    <3>1. step[w] = "retry" /\ held' = held /\ step' = [step EXCEPT ![w] = "acknowledge"]
      BY <1>4 DEF Retry, At, GoesTo
    <3>2. QED
      BY <1>1, <3>1 DEF WorkersHold, TypeOK, Slots
  <2>2. QED
    BY <1>1, <1>4, <2>1, RetryMoves
<1>5. ASSUME NEW w \in Workers, Redeliver(w) PROVE WorkersHold' /\ \A t \in Tasks : Chances(t)'
  <2>1. \A t \in Tasks : Chances(t)' /\ WorkersHold'
    BY <1>1, <1>5, RedeliveryIsCounted
  <2>2. WorkersHold'
    <3>1. CASE UNCHANGED <<held, process, slot>>
      BY <3>1 DEF WorkersHold, slot
    <3>2. CASE held' = [held EXCEPT ![w] = None] /\ step' = [step EXCEPT ![w] = "idle"]
      BY <1>1, <3>2 DEF WorkersHold, TypeOK, Slots
    <3>3. QED
      BY <1>5, <3>1, <3>2 DEF Redeliver
  <2>3. QED
    BY <2>1, <2>2
<1>6. CASE \/ Edit \/ UNCHANGED vars
           \/ \E r \in Requests : Arrive(r)
           \/ \E p \in Apis : ApiStep(p)
           \/ \E s \in Slots : SlotStep(s) /\ ~Run(s)
           \/ \E w \in Workers : Acknowledge(w)
  <2>1. (\A w \in Workers : GoesOn(w)) /\ WorkersHold'
    BY <1>1, <1>6, WorkersGoOn
  <2>2. queue' = queue /\ runs' = runs /\ redelivered' = redelivered
    <3>1. CASE Edit \/ UNCHANGED vars \/ \E r \in Requests : Arrive(r)
      BY <3>1 DEF Edit, Arrive, vars, broker
    <3>2. CASE \E p \in Apis : ApiStep(p)
      BY <3>2 DEF ApiStep, Boot, Start, FindDatabase, CreateDatabase, OpenPool, SetupTables,
                  LoadTools, Shutdown, Die, broker
    <3>3. CASE \E s \in Slots : SlotStep(s) /\ ~Run(s)
      BY <3>3 DEF SlotStep, Work, Resolve, Build, Register, Ensure, OpenOwnPool, SetupOwnTables,
                  Compile, Result, Raise, broker
    <3>4. CASE \E w \in Workers : Acknowledge(w)
      BY <3>4 DEF Acknowledge
    <3>5. QED
      BY <1>6, <3>1, <3>2, <3>3, <3>4
  <2>3. QED
    BY <1>1, <2>1, <2>2, NothingGained, GoingOnGainsNothing
<1>7. QED
  BY <1>2, <1>3, <1>4, <1>5, <1>6 DEF Next, SlotStep, ApiStep, WorkerStep, Deliver

\* However workers die, keep their messages too long and retry, a task puts its
\* message on the thread at most once for each attempt of each delivery.
THEOREM RunsBounded == Spec => []RunsAreBounded
<1> DEFINE RunsInv == WorkersHold /\ \A t \in Tasks : Chances(t)
<1>1. Init => RunsInv
  BY InitChances
<1>2. Inv /\ RunsInv /\ [Next]_vars => RunsInv'
  BY NextChances
<1>3. Inv /\ RunsInv => RunsAreBounded
  <2> SUFFICES ASSUME Inv, RunsInv, NEW t \in Tasks
               PROVE  runs[t] <= (MaxRetries + 1) * (redelivered[t] + 1)
    BY DEF RunsAreBounded
  <2>1. TypeOK /\ Chances(t)
    BY DEF Inv
  <2>2. QED
    BY <2>1, ChancesAreNumbers DEF Chances
<1> HIDE DEF RunsInv
<1>4. QED
  BY <1>1, <1>2, <1>3, InvHolds, PTL DEF Spec
=============================================================================
