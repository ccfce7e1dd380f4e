------------------------ MODULE ControllerSyncProofs ------------------------
(***************************************************************************)
(* What no step of a sync does, whatever the users, the caches and the     *)
(* failures are: NothingUnasked for every set of setups, files and bounds. *)
(***************************************************************************)
EXTENDS ControllerSync, TLAPS

\* A sync in progress, and a workload, have their fields.
IsWork(w) ==
  w = [step |-> w.step, p |-> w.p, rules |-> w.rules, names |-> w.names,
       assets |-> w.assets, todo |-> w.todo, i |-> w.i]

IsSet(r) ==
  r = [there |-> r.there, spec |-> r.spec, hash |-> r.hash, deleting |-> r.deleting]

AreSets(s) ==
  /\ s = [n \in Workloads |-> s[n]]
  /\ \A n \in Workloads : IsSet(s[n])

\* The clean-up has only shards in hand that the spec of its object does not ask for.
OnlyExcess(w) ==
  w.step = "excess" =>
    \A n \in w.todo : n \in Workloads \ Expected(w.p) /\ ~ShouldRetain(w.p)

\* The sync of a paused object has made no call that writes.
PausedWaits ==
  work.p.paused => Kind = "prometheus" /\ work.step \in {"finalizer", "storage"}

AskedInv ==
  setup \in Setups /\ AreSets(sets) /\ IsWork(work) /\ OnlyExcess(work) /\ PausedWaits

\* What NothingUnasked says of a step.
Asked ==
  work' # work =>
    /\ \A n \in Workloads :
         ~sets[n].deleting /\ sets'[n].deleting =>
           \/ n \notin Expected(work.p) /\ ~(setup.retention /\ work.p.retain)
           \/ sets[n].spec.imm # work.p.imm
    /\ ~setup.managed /\ "config" \in DOMAIN named => named'["config"] = named["config"]
    /\ work.p.paused => UNCHANGED <<maps, secrets, named, sets>>

\* The sync goes on with the object it has.
Onward(w) == w = Idle \/ (IsWork(w) /\ w.p = work.p /\ OnlyExcess(w))

LEMMA IdleAsked == IsWork(Idle) /\ OnlyExcess(Idle) /\ ~Idle.p.paused
BY DEF IsWork, OnlyExcess, Idle, NoObject

LEMMA AbsentAsked == AreSets([n \in Workloads |-> Absent])
<1>1. IsSet(Absent)
  BY DEF Absent, IsSet
<1> HIDE DEF Absent
<1> QED
  BY <1>1 DEF AreSets

LEMMA InitAsked == Init => AskedInv
BY IdleAsked, AbsentAsked, ZenonT(60) DEF Init, AskedInv, PausedWaits

\* Going on with a sync changes its place only.
LEMMA GotoFacts ==
  ASSUME NEW w, NEW step, IsWork(w)
  PROVE  Goto(w, step) = Idle \/ /\ IsWork(Goto(w, step)) /\ OnlyExcess(Goto(w, step))
                                 /\ Goto(w, step).p = w.p /\ Goto(w, step).step = step
                                 /\ step # "idle"
BY ZenonT(60) DEF Goto, IsWork, OnlyExcess

\* The sync in progress with another place, other names or other things to do.
LEMMA EditFacts ==
  ASSUME NEW w, IsWork(w), NEW names, NEW step, NEW todo, NEW i
  PROVE  /\ IsWork([w EXCEPT !.names = names]) /\ [w EXCEPT !.names = names].p = w.p
         /\ IsWork([w EXCEPT !.todo = todo]) /\ [w EXCEPT !.todo = todo].p = w.p
         /\ [w EXCEPT !.todo = todo].step = w.step /\ [w EXCEPT !.todo = todo].todo = todo
         /\ IsWork([w EXCEPT !.i = i]) /\ [w EXCEPT !.i = i].p = w.p
         /\ [w EXCEPT !.i = i].step = w.step /\ [w EXCEPT !.i = i].todo = w.todo
         /\ IsWork([w EXCEPT !.step = step]) /\ [w EXCEPT !.step = step].p = w.p
         /\ [w EXCEPT !.step = step].step = step
<1>1. IsWork([w EXCEPT !.names = names]) /\ [w EXCEPT !.names = names].p = w.p
  BY DEF IsWork
<1>2. /\ IsWork([w EXCEPT !.todo = todo]) /\ [w EXCEPT !.todo = todo].p = w.p
      /\ [w EXCEPT !.todo = todo].step = w.step /\ [w EXCEPT !.todo = todo].todo = todo
  BY DEF IsWork
<1>3. /\ IsWork([w EXCEPT !.i = i]) /\ [w EXCEPT !.i = i].p = w.p
      /\ [w EXCEPT !.i = i].step = w.step /\ [w EXCEPT !.i = i].todo = w.todo
  BY DEF IsWork
<1>4. /\ IsWork([w EXCEPT !.step = step]) /\ [w EXCEPT !.step = step].p = w.p
      /\ [w EXCEPT !.step = step].step = step
  BY DEF IsWork
<1> QED
  BY <1>1, <1>2, <1>3, <1>4, ZenonT(60)

\* The sync turns to something else than the clean-up.
LEMMA TurnFacts ==
  ASSUME NEW w, IsWork(w), w.p = work.p, NEW names, NEW step, step # "excess", NEW todo
  PROVE  /\ Onward([w EXCEPT !.step = step, !.todo = todo])
         /\ Onward([w EXCEPT !.names = names, !.step = step, !.todo = todo])
<1>1. ASSUME NEW v, IsWork(v), v.p = w.p
      PROVE  Onward([[v EXCEPT !.step = step] EXCEPT !.todo = todo])
  <2> DEFINE a == [v EXCEPT !.step = step]
  <2>1. IsWork(a) /\ a.p = w.p /\ a.step = step
    BY <1>1, SMTT(60) DEF IsWork
  <2> HIDE DEF a
  <2>2. IsWork([a EXCEPT !.todo = todo]) /\ [a EXCEPT !.todo = todo].p = w.p
        /\ [a EXCEPT !.todo = todo].step = step
    BY <2>1 DEF IsWork
  <2>3. Onward([a EXCEPT !.todo = todo])
    BY <2>2, ZenonT(60) DEF Onward, OnlyExcess
  <2> QED
    BY <2>3, ZenonT(60) DEF a
<1>2. [w EXCEPT !.step = step, !.todo = todo] = [[w EXCEPT !.step = step] EXCEPT !.todo = todo]
  BY ZenonT(60)
<1> DEFINE n == [w EXCEPT !.names = names]
<1>3. [w EXCEPT !.names = names, !.step = step, !.todo = todo]
        = [[n EXCEPT !.step = step] EXCEPT !.todo = todo]
  BY ZenonT(60)
<1>4. IsWork(n) /\ n.p = w.p
  BY EditFacts, ZenonT(60)
<1> HIDE DEF n
<1> QED
  BY <1>1, <1>2, <1>3, <1>4, Zenon

LEMMA StaysAsked ==
  ASSUME AskedInv, ~work.p.paused, setup' = setup, AreSets(sets'), Onward(work')
  PROVE  AskedInv'
<1>1. IsWork(work') /\ ~work'.p.paused
  BY IdleAsked, ZenonT(60) DEF Onward
<1>2. OnlyExcess(work)'
  BY IdleAsked, ZenonT(60) DEF Onward, OnlyExcess, Expected, ShouldRetain, Kind, Workloads
<1> QED
  BY <1>1, <1>2, ZenonT(60) DEF AskedInv, AreSets, IsWork, PausedWaits, Workloads

\* The steps before the first write.
LEMMA EarlyAsked ==
  ASSUME AskedInv, Start \/ SyncFinalizer \/ CheckStorageClass
  PROVE  AskedInv' /\ Asked
<1>1. setup' = setup /\ UNCHANGED <<maps, secrets, named, sets>>
  BY DEF Start, SyncFinalizer, CheckStorageClass
<1>2. Asked
  BY <1>1, ZenonT(60) DEF Asked
<1>3. AreSets(sets')
  BY <1>1, ZenonT(60) DEF AskedInv
<1>4. CASE Start
  <2> DEFINE w == [Idle EXCEPT !.p = seen]
  <2>1. IsWork(w) /\ w.p = seen /\ work' = Goto(w, FirstStep(seen))
    BY <1>4 DEF Start, IsWork, Idle
  <2>2. FirstStep(seen) # "idle" /\ seen.paused => Kind = "prometheus" /\ FirstStep(seen) = "finalizer"
    BY SetupsAssumption, ZenonT(60)
    DEF AskedInv, FirstStep, Kind, SyncPrometheus, SyncAgent, SyncAlertmanager, SyncThanosRuler
  <2> HIDE DEF w
  <2>3. work' = Idle \/ /\ IsWork(work') /\ OnlyExcess(work') /\ work'.p = seen
                        /\ work'.step = FirstStep(seen) /\ FirstStep(seen) # "idle"
    BY <2>1, GotoFacts, ZenonT(60)
  <2>4. IsWork(work') /\ PausedWaits'
    BY <1>1, <2>2, <2>3, IdleAsked, ZenonT(60) DEF PausedWaits, Kind
  <2>5. OnlyExcess(work)'
    BY <1>1, <2>3, IdleAsked, ZenonT(60) DEF OnlyExcess, Expected, ShouldRetain, Kind, Workloads
  <2> QED
    BY <1>1, <1>2, <1>3, <2>4, <2>5, ZenonT(60) DEF AskedInv, AreSets, IsWork, Workloads
<1>5. CASE SyncFinalizer
  <2>1. /\ work.step = "finalizer"
        /\ work' = Idle \/ work' = Goto(work, "idle") \/ work' = Goto(work, "storage")
    BY <1>5, ZenonT(60) DEF SyncFinalizer, Return
  <2>2. work' = Idle \/ /\ IsWork(work') /\ OnlyExcess(work') /\ work'.p = work.p
                        /\ work'.step = "storage"
    BY <2>1, GotoFacts, SMTT(60) DEF AskedInv
  <2>3. IsWork(work') /\ PausedWaits'
    BY <1>1, <2>2, IdleAsked, ZenonT(60) DEF AskedInv, PausedWaits, Kind
  <2>4. OnlyExcess(work)'
    BY <1>1, <2>2, IdleAsked, ZenonT(60) DEF OnlyExcess, Expected, ShouldRetain, Kind, Workloads
  <2> QED
    BY <1>1, <1>2, <1>3, <2>3, <2>4 DEF AskedInv, AreSets, IsWork, Workloads
<1>6. CASE CheckStorageClass
  <2>1. CASE work.p.paused
    <3>1. work' = Idle
      BY <1>6, <2>1, ZenonT(60) DEF CheckStorageClass, AskedInv, PausedWaits
    <3>2. IsWork(work') /\ PausedWaits'
      BY <3>1, IdleAsked, ZenonT(60) DEF PausedWaits
    <3>3. OnlyExcess(work)'
      BY <3>1, ZenonT(60) DEF OnlyExcess, Idle
    <3> QED
      BY <1>1, <1>2, <1>3, <3>2, <3>3 DEF AskedInv, AreSets, IsWork, Workloads
  <2>2. CASE ~work.p.paused
    <3>1. Onward(work')
      BY <1>6, <2>2, GotoFacts, ZenonT(60) DEF CheckStorageClass, Continue, Onward, AskedInv
    <3> QED
      BY <1>1, <1>2, <1>3, <2>2, <3>1, StaysAsked, ZenonT(60)
  <2> QED
    BY <2>1, <2>2, ZenonT(60)
<1> QED
  BY <1>4, <1>5, <1>6, ZenonT(60)

\* The steps that write ConfigMaps, Secrets and the Service.
LEMMA WritesAsked ==
  ASSUME AskedInv,
         \/ ListRules \/ ListThanosRules \/ DeleteRuleMap \/ CreateRuleMap
         \/ WriteConfiguration \/ WriteAgentConfiguration
         \/ ProvisionAlertmanagerConfiguration \/ WriteRulerConfiguration
         \/ WriteTLSSecret \/ CleanTLSSecret \/ WriteWebConfig \/ WriteExtraSecret
         \/ WriteService
  PROVE  AskedInv' /\ Asked
<1> USE DEF Return, Continue
<1>1. setup' = setup /\ UNCHANGED sets /\ ~work.p.paused /\ IsWork(work)
  BY DEF AskedInv, PausedWaits, ListRules, ListThanosRules, DeleteRuleMap, CreateRuleMap,
         WriteConfiguration, WriteAgentConfiguration, ProvisionAlertmanagerConfiguration,
         WriteRulerConfiguration, WriteTLSSecret, CleanTLSSecret, WriteWebConfig,
         WriteExtraSecret, WriteService
<1>2. \A w, step : IsWork(w) /\ w.p = work.p => Onward(Goto(w, step))
  BY GotoFacts, ZenonT(60) DEF Onward
<1>3. CASE ListRules \/ ListThanosRules
  <2> DEFINE w == [work EXCEPT !.rules = inputs.rules]
             new == 0..(Len(RuleMaps(inputs.rules)) - 1)
  <2>1. work' = CompareRules(w, new) /\ UNCHANGED named
    BY <1>3, ZenonT(60) DEF ListRules, ListThanosRules
  <2>2. IsWork(w) /\ w.p = work.p
    BY <1>1 DEF IsWork
  <2> HIDE DEF w, new
  <2>3. IsWork([w EXCEPT !.names = DOMAIN maps]) /\ [w EXCEPT !.names = DOMAIN maps].p = work.p
    BY <2>2, EditFacts, ZenonT(60)
  <2>4. Onward(Goto([w EXCEPT !.names = DOMAIN maps],
                    After([w EXCEPT !.names = DOMAIN maps].p, [w EXCEPT !.names = DOMAIN maps].step)))
    BY <1>2, <2>3, Zenon
  <2>5. Onward([w EXCEPT !.names = new, !.step = "create", !.todo = new])
    BY <2>2, TurnFacts, ZenonT(60)
  <2>6. Onward([w EXCEPT !.names = new, !.step = "delete", !.todo = DOMAIN maps])
    BY <2>2, TurnFacts, ZenonT(60)
  <2>7. Onward(work')
    BY <2>1, <2>4, <2>5, <2>6, ZenonT(60) DEF CompareRules
  <2> QED
    BY <1>1, <2>1, <2>7, StaysAsked, ZenonT(60) DEF Asked, AskedInv
<1>4. CASE DeleteRuleMap \/ CreateRuleMap
  <2>1. UNCHANGED named
    BY <1>4, ZenonT(60) DEF DeleteRuleMap, CreateRuleMap
  <2> DEFINE left == [work EXCEPT !.todo = work.todo \ {Min(work.todo)}]
             create == [work EXCEPT !.step = "create", !.todo = work.names]
             goto == Goto(work, After(work.p, "list"))
  <2>2. /\ work.step # "excess"
        /\ work' = Idle \/ work' = left \/ work' = create \/ work' = goto
    BY <1>4, ZenonT(60) DEF DeleteRuleMap, CreateRuleMap
  <2>3. Onward(left)
    <3>1. ASSUME NEW todo PROVE Onward([work EXCEPT !.todo = todo])
      BY <1>1, <2>2, SMTT(60) DEF IsWork, Onward, OnlyExcess
    <3> QED
      BY <3>1, ZenonT(60)
  <2>4. Onward(create)
    BY <1>1, TurnFacts, ZenonT(60)
  <2>5. Onward(goto)
    BY <1>1, <1>2, ZenonT(60)
  <2> HIDE DEF left, create, goto
  <2>6. Onward(work')
    BY <2>2, <2>3, <2>4, <2>5, SMTT(60) DEF Onward
  <2> QED
    BY <1>1, <2>1, <2>6, StaysAsked, ZenonT(60) DEF Asked, AskedInv
<1>5. CASE \/ WriteConfiguration \/ WriteAgentConfiguration
           \/ ProvisionAlertmanagerConfiguration \/ WriteRulerConfiguration
  <2>1. ~setup.managed => Kind = "prometheus"
    BY SetupsAssumption, ZenonT(60) DEF AskedInv, Kind
  <2>2. ~setup.managed /\ "config" \in DOMAIN named => UNCHANGED named
    BY <1>5, <2>1, ZenonT(60) DEF WriteConfiguration, WriteAgentConfiguration, Kind,
                      ProvisionAlertmanagerConfiguration, WriteRulerConfiguration
  <2>3. LET w == [work EXCEPT !.assets = inputs.assets]
        IN  IsWork(w) /\ w.p = work.p
    BY <1>1, SMTT(60) DEF IsWork
  <2>4. Onward(work')
    BY <1>1, <1>2, <1>5, <2>3, ZenonT(60)
    DEF WriteConfiguration, WriteAgentConfiguration, ProvisionAlertmanagerConfiguration,
        WriteRulerConfiguration, WriteGenerated
  <2> QED
    BY <1>1, <2>2, <2>4, StaysAsked, ZenonT(60) DEF Asked, AskedInv
<1>6. CASE WriteTLSSecret \/ CleanTLSSecret
  <2>1. UNCHANGED named
    BY <1>6, ZenonT(60) DEF WriteTLSSecret, CleanTLSSecret
  <2>2. ASSUME WriteTLSSecret PROVE Onward(work')
    <3>1. PICK step \in {"clean", "tls"} : work' = [work EXCEPT !.i = work.i + 1, !.step = step]
      BY <2>2, ZenonT(60) DEF WriteTLSSecret
    <3> QED
      BY <1>1, <3>1, Zenon DEF IsWork, Onward, OnlyExcess
  <2>3. ASSUME CleanTLSSecret PROVE Onward(work')
    <3>1. /\ work.step # "excess"
          /\ work' = [work EXCEPT !.i = work.i + 1] \/ work' = Goto(work, After(work.p, "tls"))
      BY <2>3, ZenonT(60) DEF CleanTLSSecret
    <3>2. Onward([work EXCEPT !.i = work.i + 1])
      BY <1>1, <3>1, EditFacts, ZenonT(60) DEF Onward, OnlyExcess
    <3> QED
      BY <1>1, <1>2, <3>1, <3>2, ZenonT(60)
  <2>4. Onward(work')
    BY <1>6, <2>2, <2>3
  <2> QED
    BY <1>1, <2>1, <2>4, StaysAsked DEF Asked, AskedInv
<1>7. CASE WriteWebConfig \/ WriteExtraSecret \/ WriteService
  <2>1. "config" \in DOMAIN named => named'["config"] = named["config"]
    BY <1>7, ZenonT(60) DEF WriteWebConfig, WriteExtraSecret, WriteService, CreateOrUpdateSecret, Put
  <2>2. Onward(work')
    BY <1>1, <1>2, <1>7, ZenonT(60) DEF WriteWebConfig, WriteExtraSecret, WriteService
  <2> QED
    BY <1>1, <2>1, <2>2, StaysAsked, ZenonT(60) DEF Asked, AskedInv
<1> QED
  BY <1>3, <1>4, <1>5, <1>6, <1>7, ZenonT(60)

\* What the API does to the workload n: the others stay as they are.
LEMMA DeleteFacts ==
  ASSUME AreSets(sets), NEW n, sets' = [sets EXCEPT ![n].deleting = TRUE]
  PROVE  /\ AreSets(sets')
         /\ \A m \in Workloads : m # n => sets'[m] = sets[m]
<1>1. sets = [m \in Workloads |-> sets[m]]
  BY DEF AreSets
<1>2. ASSUME NEW old, IsSet(old), NEW v
      PROVE  IsSet([old EXCEPT !.deleting = v])
  BY <1>2 DEF IsSet
<1>3. \A m \in Workloads :
        sets'[m] = IF m = n THEN [sets[m] EXCEPT !.deleting = TRUE] ELSE sets[m]
  BY <1>1, ZenonT(60)
<1>4. ASSUME NEW m \in Workloads PROVE IsSet(sets'[m])
  <2>1. IsSet(sets[m]) /\ IsSet([sets[m] EXCEPT !.deleting = TRUE])
    BY <1>2 DEF AreSets
  <2> QED
    BY <1>3, <2>1, Zenon
<1>5. sets' = [m \in Workloads |-> sets'[m]]
  BY <1>1, ZenonT(60)
<1> QED
  BY <1>3, <1>4, <1>5, ZenonT(60) DEF AreSets

LEMMA MadeFacts ==
  ASSUME AreSets(sets), NEW n, NEW new, n \in Workloads => IsSet(new),
         new.deleting = FALSE, sets' = [sets EXCEPT ![n] = new]
  PROVE  /\ AreSets(sets')
         /\ \A m \in Workloads : sets'[m].deleting => sets[m].deleting
<1>1. sets = [m \in Workloads |-> sets[m]]
  BY DEF AreSets
<1>2. \A m \in Workloads : sets'[m] = IF m = n THEN new ELSE sets[m]
  BY <1>1
<1>3. sets' = [m \in Workloads |-> sets'[m]]
  BY <1>1
<1> QED
  BY <1>2, <1>3 DEF AreSets

LEMMA ChangedFacts ==
  ASSUME AreSets(sets), NEW n, NEW spec, NEW hash,
         sets' = [sets EXCEPT ![n].spec = spec, ![n].hash = hash]
  PROVE  /\ AreSets(sets')
         /\ \A m \in Workloads : sets'[m].deleting => sets[m].deleting
<1>1. sets = [m \in Workloads |-> sets[m]]
  BY DEF AreSets
<1>2. ASSUME NEW o, IsSet(o)
      PROVE  IsSet([o EXCEPT !.spec = spec]) /\ [o EXCEPT !.spec = spec].deleting = o.deleting
  BY <1>2 DEF IsSet
<1>3. ASSUME NEW o, IsSet(o)
      PROVE  IsSet([o EXCEPT !.hash = hash]) /\ [o EXCEPT !.hash = hash].deleting = o.deleting
  BY <1>3 DEF IsSet
<1>4. sets' = [m \in Workloads |-> sets'[m]]
  BY <1>1, ZenonT(60)
<1>5. ASSUME NEW m \in Workloads
      PROVE  IsSet(sets'[m]) /\ sets'[m].deleting = sets[m].deleting
  <2>1. IsSet(sets[m])
    BY DEF AreSets
  <2>2. \/ sets'[m] = sets[m]
        \/ sets'[m] = [[sets[m] EXCEPT !.spec = spec] EXCEPT !.hash = hash]
    BY <1>1, ZenonT(60)
  <2>3. \A o : IsSet(o) => /\ IsSet([[o EXCEPT !.spec = spec] EXCEPT !.hash = hash])
                           /\ [[o EXCEPT !.spec = spec] EXCEPT !.hash = hash].deleting = o.deleting
    BY <1>2, <1>3, Zenon
  <2> QED
    BY <2>1, <2>2, <2>3, Zenon
<1> QED
  BY <1>4, <1>5, ZenonT(60) DEF AreSets

\* A step that makes, updates or recreates one workload of a sync that is not paused.
LEMMA SetAsked ==
  ASSUME AskedInv, ~work.p.paused, setup' = setup, UNCHANGED named, NEW n, NEW hash,
         NEW next, Onward(next),
         \/ work' = next /\ UNCHANGED sets
         \/ CreateWorkload(n, Built(work, hash), next)
         \/ UpdateWorkload(n, Built(work, hash), next)
  PROVE  AskedInv' /\ Asked
<1>0. PICK new : new = Built(work, hash)
  OBVIOUS
<1>1. IsSet(new) /\ new.deleting = FALSE /\ new.spec.imm = work.p.imm
  BY <1>0, ZenonT(60) DEF Built, MakeWorkload, IsSet
<1>2. Onward(work')
  BY DEF CreateWorkload, UpdateWorkload, Return, Onward
<1>3. \/ UNCHANGED sets
      \/ sets' = [sets EXCEPT ![n] = new]
      \/ sets[n].spec.imm # new.spec.imm /\ sets' = [sets EXCEPT ![n].deleting = TRUE]
      \/ sets' = [sets EXCEPT ![n].spec = new.spec, ![n].hash = new.hash]
  BY <1>0, ZenonT(60) DEF CreateWorkload, UpdateWorkload
<1>4. AreSets(sets)
  BY ZenonT(60) DEF AskedInv
<1>5. /\ AreSets(sets')
      /\ \A m \in Workloads : ~sets[m].deleting /\ sets'[m].deleting => sets[m].spec.imm # work.p.imm
  <2>1. CASE UNCHANGED sets
    BY <1>4, <2>1, ZenonT(60)
  <2>2. CASE sets' = [sets EXCEPT ![n] = new]
    BY <1>1, <1>4, <2>2, MadeFacts, Zenon
  <2>3. CASE sets[n].spec.imm # new.spec.imm /\ sets' = [sets EXCEPT ![n].deleting = TRUE]
    BY <1>1, <1>4, <2>3, DeleteFacts, Zenon
  <2>4. CASE sets' = [sets EXCEPT ![n].spec = new.spec, ![n].hash = new.hash]
    BY <1>4, <2>4, ChangedFacts, Zenon
  <2> QED
    BY <1>3, <2>1, <2>2, <2>3, <2>4, ZenonT(60)
<1> QED
  BY <1>2, <1>5, StaysAsked, ZenonT(60) DEF Asked

\* The loop over the shards ends with the clean-up of the others.
LEMMA NextShardFacts ==
  ASSUME AskedInv, work.step = "sets"
  PROVE  Onward(NextShard(work))
<1>1. IsWork(work)
  BY DEF AskedInv
<1>2. Onward([work EXCEPT !.i = work.i + 1])
  BY <1>1, EditFacts, ZenonT(60) DEF Onward, OnlyExcess
<1> DEFINE n == Goto(work, After(work.p, "sets"))
           excess == {k \in Workloads \ {DaemonSet} :
                        /\ cached[k].there /\ ~cached[k].deleting
                        /\ k \notin Expected(work.p) /\ ~ShouldRetain(work.p)}
<1>3. n = Idle \/ (IsWork(n) /\ OnlyExcess(n) /\ n.p = work.p)
  BY <1>1, GotoFacts, ZenonT(60)
<1>4. \A k \in excess : k \in Workloads \ Expected(work.p) /\ ~ShouldRetain(work.p)
  OBVIOUS
<1>5. NextShard(work) \in {[work EXCEPT !.i = work.i + 1], Idle}
      \/ (NextShard(work) = n /\ n.step # "excess")
      \/ (NextShard(work) = [n EXCEPT !.todo = excess] /\ n.step = "excess")
  BY Zenon DEF NextShard
<1> HIDE DEF n, excess
<1>6. n.step = "excess" => Onward([n EXCEPT !.todo = excess])
  <2>1. n.step = "excess" => n # Idle
    BY DEF Idle
  <2>2. SUFFICES ASSUME n.step = "excess", IsWork(n), n.p = work.p
                 PROVE  Onward([n EXCEPT !.todo = excess])
    BY <1>3, <2>1, ZenonT(60)
  <2>3. /\ IsWork([n EXCEPT !.todo = excess]) /\ [n EXCEPT !.todo = excess].p = work.p
        /\ [n EXCEPT !.todo = excess].todo = excess
    BY <2>2 DEF IsWork
  <2> QED
    BY <1>4, <2>3, ZenonT(60) DEF Onward, OnlyExcess
<1>7. Onward(Idle) /\ Onward(n)
  BY <1>3, ZenonT(60) DEF Onward
<1> QED
  BY <1>2, <1>5, <1>6, <1>7, Zenon

\* The steps that write workloads.
LEMMA WorkloadsAsked ==
  ASSUME AskedInv,
         \/ SyncShard \/ SyncAgentShard \/ SyncAlertmanagerSet \/ SyncThanosSet \/ SyncDaemonSet
  PROVE  AskedInv' /\ Asked
<1>1. ~work.p.paused /\ setup' = setup /\ UNCHANGED named /\ Onward(Idle)
  BY ZenonT(60) DEF AskedInv, PausedWaits, SyncShard, SyncAgentShard, SyncStatefulSet,
         SyncAlertmanagerSet, SyncThanosSet, SyncDaemonSet, Onward
<1>2. CASE SyncShard \/ SyncAgentShard
  <2>1. PICK hash : SyncStatefulSet(hash)
    BY <1>2, ZenonT(60) DEF SyncShard, SyncAgentShard
  <2>2. Onward(NextShard(work))
    BY <1>2, NextShardFacts, ZenonT(60) DEF SyncShard, SyncAgentShard
  <2>3. \/ work' = NextShard(work) /\ UNCHANGED sets
        \/ CreateWorkload(work.i, Built(work, hash), NextShard(work))
        \/ UpdateWorkload(work.i, Built(work, hash), NextShard(work))
    BY <2>1, ZenonT(60) DEF SyncStatefulSet
  <2> QED
    BY <1>1, <2>2, <2>3, SetAsked, ZenonT(60)
<1>3. CASE SyncAlertmanagerSet \/ SyncThanosSet \/ SyncDaemonSet
  <2>1. PICK n, hash : \/ work' = Idle /\ UNCHANGED sets
                       \/ CreateWorkload(n, Built(work, hash), Idle)
                       \/ UpdateWorkload(n, Built(work, hash), Idle)
    BY <1>3, ZenonT(60) DEF SyncAlertmanagerSet, SyncThanosSet, SyncDaemonSet
  <2> QED
    BY <1>1, <2>1, SetAsked, ZenonT(60)
<1> QED
  BY <1>2, <1>3, ZenonT(60)

\* The clean-up, failures and restarts.
LEMMA FaultsAsked ==
  ASSUME AskedInv, DeleteExcess \/ CallFails \/ Restart
  PROVE  AskedInv' /\ Asked
<1>1. IsWork(work) /\ OnlyExcess(work) /\ AreSets(sets) /\ setup' = setup
      /\ (work.step = "excess" => ~work.p.paused)
  BY DEF AskedInv, PausedWaits, DeleteExcess, CallFails, Restart
<1>2. ASSUME NEW n, work.step = "excess",
             work' = IF work.todo = {n} THEN Idle ELSE [work EXCEPT !.todo = work.todo \ {n}]
      PROVE  Onward(work')
  <2>1. Onward([work EXCEPT !.todo = work.todo \ {n}])
    <3> DEFINE todo == work.todo \ {n}
    <3>1. todo \subseteq work.todo
      OBVIOUS
    <3> HIDE DEF todo
    <3>2. /\ IsWork([work EXCEPT !.todo = todo]) /\ [work EXCEPT !.todo = todo].p = work.p
          /\ [work EXCEPT !.todo = todo].todo = todo
      BY <1>1 DEF IsWork
    <3>3. OnlyExcess([work EXCEPT !.todo = todo])
      BY <1>1, <1>2, <3>1, <3>2, ZenonT(60) DEF OnlyExcess
    <3>4. Onward([work EXCEPT !.todo = todo])
      BY <3>2, <3>3, ZenonT(60) DEF Onward
    <3> QED
      BY <3>4, ZenonT(60) DEF todo
  <2> QED
    BY <1>2, <2>1, ZenonT(60) DEF Onward
<1>3. CASE DeleteExcess
  <2>1. PICK n \in work.todo :
          /\ sets' = IF sets[n].there THEN [sets EXCEPT ![n].deleting = TRUE] ELSE sets
          /\ work' = IF work.todo = {n} THEN Idle ELSE [work EXCEPT !.todo = work.todo \ {n}]
    BY <1>3, ZenonT(60) DEF DeleteExcess
  <2>2. work.step = "excess" /\ UNCHANGED named
    BY <1>3, ZenonT(60) DEF DeleteExcess
  <2>3. n \in Workloads \ Expected(work.p) /\ ~ShouldRetain(work.p)
    BY <1>1, <2>1, <2>2, ZenonT(60) DEF OnlyExcess
  <2>4. ~(setup.retention /\ work.p.retain)
    BY <2>3, SetupsAssumption, ZenonT(60) DEF AskedInv, ShouldRetain, Kind
  <2>5. AreSets(sets') /\ \A m \in Workloads : m # n => sets'[m] = sets[m]
    <3>1. CASE sets' = [sets EXCEPT ![n].deleting = TRUE]
      BY <1>1, <3>1, DeleteFacts, Zenon
    <3>2. CASE sets' = sets
      BY <1>1, <3>2, ZenonT(60)
    <3> QED
      BY <2>1, <3>1, <3>2, Zenon
  <2>6. Onward(work')
    BY <1>2, <2>1, <2>2, ZenonT(60)
  <2> QED
    BY <1>1, <2>2, <2>3, <2>4, <2>5, <2>6, StaysAsked, ZenonT(60) DEF Asked
<1>4. CASE CallFails \/ Restart
  <2>1. UNCHANGED <<maps, secrets, named, sets>>
    BY <1>4, ZenonT(60) DEF CallFails, Restart
  <2>2. work' = Idle \/ (work.step = "excess" /\ Onward(work'))
    <3>1. CASE CallFails /\ work.step = "excess"
      <4>1. PICK n : work' = IF work.todo = {n} THEN Idle
                             ELSE [work EXCEPT !.todo = work.todo \ {n}]
        BY <3>1, ZenonT(60) DEF CallFails
      <4> QED
        BY <1>2, <3>1, <4>1, ZenonT(60)
    <3> QED
      BY <1>4, <3>1, ZenonT(60) DEF CallFails, Restart, Return
  <2>3. ASSUME work' = Idle PROVE AskedInv'
    BY <1>1, <2>1, <2>3, IdleAsked, ZenonT(60)
    DEF AskedInv, AreSets, IsWork, OnlyExcess, PausedWaits, Workloads, Idle
  <2>4. ASSUME work.step = "excess", Onward(work') PROVE AskedInv'
    BY <1>1, <2>1, <2>4, StaysAsked, ZenonT(60)
  <2> QED
    BY <2>1, <2>2, <2>3, <2>4, ZenonT(60) DEF Asked
<1> QED
  BY <1>3, <1>4, ZenonT(60)

\* Users, informers and the garbage collector leave the sync alone.
LEMMA OthersAsked ==
  ASSUME AskedInv,
         \/ Edit \/ ObserveObject \/ CollectDependents
         \/ \E n \in Workloads : ObserveWorkload(n) \/ FinishDeletion(n)
  PROVE  AskedInv' /\ Asked
<1>1. UNCHANGED <<setup, work>>
  BY ZenonT(60) DEF Edit, EditSpec, ChangeSpec, EditInputs, Meddle, DeleteObject, EditFinalizers,
         ObserveObject, CollectDependents, ObserveWorkload, FinishDeletion
<1>2. AreSets(sets)
  BY DEF AskedInv
<1>3. \/ UNCHANGED sets
      \/ \E n \in Workloads : \/ sets' = [sets EXCEPT ![n] = Absent]
                              \/ sets' = [sets EXCEPT ![n].spec.body = Foreign]
      \/ sets' = [n \in Workloads |-> Absent]
  BY ZenonT(60) DEF Edit, EditSpec, ChangeSpec, EditInputs, Meddle, DeleteObject, EditFinalizers,
         ObserveObject, CollectDependents, ObserveWorkload, FinishDeletion
<1>4. AreSets(sets')
  <2>1. CASE UNCHANGED sets
    BY <1>2, <2>1, ZenonT(60)
  <2>2. ASSUME NEW n \in Workloads, sets' = [sets EXCEPT ![n] = Absent] PROVE AreSets(sets')
    <3>1. IsSet(Absent) /\ Absent.deleting = FALSE
      BY DEF IsSet, Absent
    <3> QED
      BY <1>2, <2>2, <3>1, MadeFacts, Zenon
  <2>3. ASSUME NEW n \in Workloads, sets' = [sets EXCEPT ![n].spec.body = Foreign]
        PROVE  AreSets(sets')
    <3>1. sets = [m \in Workloads |-> sets[m]] /\ IsSet(sets[n])
      BY <1>2, ZenonT(60) DEF AreSets
    <3>2. \A spec : IsSet([sets[n] EXCEPT !.spec = spec])
      BY <3>1 DEF IsSet
    <3>3. PICK spec : sets' = [sets EXCEPT ![n].spec = spec]
      BY <2>3, ZenonT(60)
    <3>4. \A m \in Workloads : sets'[m] = IF m = n THEN [sets[n] EXCEPT !.spec = spec] ELSE sets[m]
      BY <3>1, <3>3, ZenonT(60)
    <3>5. sets' = [m \in Workloads |-> sets'[m]]
      BY <3>1, <3>3, ZenonT(60)
    <3> QED
      BY <1>2, <3>2, <3>4, <3>5, ZenonT(60) DEF AreSets
  <2>4. CASE sets' = [n \in Workloads |-> Absent]
    BY <2>4, AbsentAsked, ZenonT(60)
  <2> QED
    BY <1>3, <2>1, <2>2, <2>3, <2>4, ZenonT(60)
<1> QED
  BY <1>1, <1>4, ZenonT(60)
    DEF Asked, AskedInv, AreSets, IsWork, OnlyExcess, Expected, ShouldRetain,
                    ShardsNumber, Kind, PausedWaits, Workloads

LEMMA StepAsked == AskedInv /\ Next => AskedInv' /\ Asked
<1> SUFFICES ASSUME AskedInv, Next PROVE AskedInv' /\ Asked
  OBVIOUS
<1>1. CASE Start \/ SyncFinalizer \/ CheckStorageClass
  BY <1>1, EarlyAsked, ZenonT(60)
<1>2. CASE \/ ListRules \/ ListThanosRules \/ DeleteRuleMap \/ CreateRuleMap
           \/ WriteConfiguration \/ WriteAgentConfiguration
           \/ ProvisionAlertmanagerConfiguration \/ WriteRulerConfiguration
           \/ WriteTLSSecret \/ CleanTLSSecret \/ WriteWebConfig \/ WriteExtraSecret
           \/ WriteService
  BY <1>2, WritesAsked, ZenonT(60)
<1>3. CASE \/ SyncShard \/ SyncAgentShard \/ SyncAlertmanagerSet \/ SyncThanosSet
           \/ SyncDaemonSet
  BY <1>3, WorkloadsAsked, ZenonT(60)
<1>4. CASE DeleteExcess \/ CallFails \/ Restart
  BY <1>4, FaultsAsked
<1>5. CASE \/ Edit \/ ObserveObject \/ CollectDependents
           \/ \E n \in Workloads : ObserveWorkload(n) \/ FinishDeletion(n)
  BY <1>5, OthersAsked, ZenonT(60)
<1> QED
  BY <1>1, <1>2, <1>3, <1>4, <1>5, ZenonT(60) DEF Next, Noted, SyncStep

(* No step of a sync deletes a workload that the spec it started from asks *)
(* for and that can be updated, nor a shard that is to be retained, nor    *)
(* overwrites the configuration of a user who manages it, nor writes       *)
(* anything for a paused object: whatever the number of shards, the files, *)
(* the edits, the staleness of the caches, the failing calls and the       *)
(* restarts.                                                               *)
THEOREM SyncDoesNothingUnasked == Spec => NothingUnasked
<1>1. AskedInv /\ [Next]_vars => AskedInv'
  <2>1. ASSUME AskedInv, UNCHANGED vars PROVE AskedInv'
    BY <2>1, ZenonT(60) DEF vars, AskedInv, AreSets, IsWork, OnlyExcess, Expected, ShouldRetain,
                ShardsNumber, Kind, PausedWaits, Workloads
  <2> QED
    BY <2>1, StepAsked, ZenonT(60)
<1>2. AskedInv /\ [Next]_vars => [Asked]_vars
  BY StepAsked, ZenonT(60)
<1>3. AskedInv /\ [Next]_vars =>
        [work' # work =>
           /\ \A n \in Workloads :
                ~sets[n].deleting /\ sets'[n].deleting =>
                  \/ /\ n \notin Expected(work.p)
                     /\ ~(setup.retention /\ work.p.retain)
                  \/ sets[n].spec.imm # work.p.imm
           /\ ~setup.managed /\ "config" \in DOMAIN named =>
                named'["config"] = named["config"]
           /\ work.p.paused =>
                UNCHANGED <<maps, secrets, named, sets>>]_vars
  BY <1>2 DEF Asked
<1> QED
  BY <1>1, <1>3, InitAsked, PTL DEF Spec, NothingUnasked
=============================================================================
