------------------------- MODULE ModelDeploymentProofs -------------------------
(****************************************************************************)
(* Proofs, for any hosts, contents and number of versions, that the scripts *)
(* may race and die as they like: there is one version in Production from   *)
(* the first promotion on, no script promotes a leftover, a promotion from  *)
(* the file in the bucket makes bucket and registry agree, and an API names *)
(* what it loaded.                                                          *)
(****************************************************************************)
EXTENDS ModelDeployment, SequenceTheorems, TLAPS

Version == [content : Files \ {None}, stage : Stages]

(* What the script on h relies on before its next call; what it registered  *)
(* is still its file.                                                       *)
Ready(h) ==
  /\ at[h] = "registering" => file[h] # None
  /\ at[h] \in {"finding", "promoting"} =>
       own[h] \in DOMAIN versions /\ versions[own[h]].content = file[h]
  /\ at[h] = "promoting" => found[h] \in DOMAIN versions
  /\ at[h] = "promoting" => done[h] = None

(* What the script on h, or its operator, does next.                        *)
Step(h) ==
  \/ Replace(h) \/ Stop(h)
  \/ StartUpload(h) \/ Upload(h)
  \/ StartRegister(h) \/ Validate(h) \/ Register(h) \/ Find(h) \/ Promote(h)
  \/ StartDownload(h) \/ Download(h)
  \/ Load(h) \/ Resolve(h)

(* The steps that leave bucket and registry alone.                          *)
LocalStep(h) ==
  \/ Replace(h) \/ Stop(h) \/ StartUpload(h) \/ StartRegister(h) \/ Validate(h)
  \/ Find(h) \/ StartDownload(h) \/ Download(h) \/ Load(h) \/ Resolve(h)

AtMostOne == \A m, n \in Production : m = n

Inv ==
  /\ TypeOK
  /\ \A h \in Hosts : Ready(h)
  /\ AtMostOne
  /\ PromotesNoLeftover

-----------------------------------------------------------------------------
LEMMA InitInv == Init => Inv
  <1> SUFFICES ASSUME Init PROVE Inv
    OBVIOUS
  <1>1. TypeOK
    <2>1. versions \in Seq(Version)
      BY DEF Init
    <2>2. QED
      BY <2>1 DEF Init, TypeOK, Version, Models, Files, Scripts
  <1>2. Production = {}
    BY DEF Init, Production, InStage
  <1>3. \A h \in Hosts : at[h] = "idle"
    BY DEF Init
  <1>4. (\A h \in Hosts : Ready(h)) /\ PromotesNoLeftover
    BY <1>3 DEF Ready, PromotesNoLeftover
  <1>5. AtMostOne
    BY <1>2 DEF AtMostOne
  <1>6. QED
    BY <1>1, <1>4, <1>5 DEF Inv

(* What the end of a script does to its own variables.                      *)
LEMMA EndsKeepsTypes ==
  ASSUME TypeOK, NEW h \in Hosts, NEW result \in Scripts \cup {None}, Ends(h, result)
  PROVE  /\ at' \in [Hosts -> Calls \cup {"idle"}]
         /\ own' \in [Hosts -> Nat]
         /\ found' \in [Hosts -> Nat]
         /\ source' \in [Hosts -> Files]
         /\ done' \in [Hosts -> Scripts \cup {None}]
  BY DEF Ends, TypeOK, Files

LEMMA GotoKeepsTypes ==
  ASSUME TypeOK, NEW h \in Hosts, NEW call \in Calls, Goto(h, call)
  PROVE  /\ at' \in [Hosts -> Calls \cup {"idle"}]
         /\ done' \in [Hosts -> Scripts \cup {None}]
  BY DEF Goto, TypeOK

LEMMA VersionRecord ==
  ASSUME NEW content \in Files \ {None}, NEW stage \in Stages
  PROVE  /\ [content |-> content, stage |-> stage] \in Version
         /\ [content |-> content, stage |-> stage].stage = stage
         /\ [content |-> content, stage |-> stage].content = content
  BY DEF Version

(* The registry after a promotion: version n is the one in Production.      *)
LEMMA PromoteEffect ==
  ASSUME TypeOK, NEW h \in Hosts, Promote(h), found[h] \in DOMAIN versions
  PROVE  /\ versions' \in Seq(Version)
         /\ DOMAIN versions' = DOMAIN versions
         /\ Production' = {found[h]}
         /\ \A n \in DOMAIN versions :
              /\ versions'[n].stage = "None" => versions[n].stage = "None"
              /\ versions'[n].content = versions[n].content
  <1> DEFINE S == Files \ {None}
  <1>1. versions \in Seq(Version)
    BY DEF TypeOK, Version
  <1>2. Len(versions) \in Nat /\ DOMAIN versions = 1 .. Len(versions)
    BY <1>1
  <1>3. \A n \in DOMAIN versions : versions[n].content \in S /\ versions[n].stage \in Stages
    <2>1. \A n \in 1 .. Len(versions) : versions[n] \in Version
      BY <1>1, ElementOfSeq
    <2>2. QED
      BY <1>2, <2>1 DEF Version
  <1>4. DOMAIN versions' = DOMAIN versions
    BY DEF Promote
  <1> DEFINE after(n) == IF n = found[h] THEN "Production"
                         ELSE IF n \in Production THEN "Archived"
                         ELSE versions[n].stage
  <1>5. \A n \in DOMAIN versions :
          versions'[n] = [content |-> versions[n].content, stage |-> after(n)]
    BY DEF Promote
  <1>6. \A n \in DOMAIN versions :
          /\ versions'[n] \in Version
          /\ versions'[n].stage = after(n)
          /\ versions'[n].content = versions[n].content
    <2> TAKE n \in DOMAIN versions
    <2>1. after(n) \in Stages /\ versions[n].content \in S
      BY <1>3 DEF Stages
    <2> DEFINE record == [content |-> versions[n].content, stage |-> after(n)]
    <2>2. versions'[n] = record
      BY <1>5
    <2> HIDE DEF after
    <2>3. /\ record \in Version /\ record.stage = after(n)
          /\ record.content = versions[n].content
      BY <2>1, VersionRecord DEF S
    <2> HIDE DEF record
    <2>4. QED
      BY <2>2, <2>3
  <1>7. versions' \in [1 .. Len(versions) -> Version]
    BY <1>2, <1>4, <1>6 DEF Promote
  <1>8. versions' \in Seq(Version)
    BY <1>2, <1>7, SeqDef
  <1>9. Production' = {found[h]}
    BY <1>4, <1>6 DEF Production, InStage
  <1>10. QED
    BY <1>4, <1>6, <1>8, <1>9

(* ... and after a registration: a version more, without a stage.           *)
LEMMA RegisterEffect ==
  ASSUME TypeOK, NEW h \in Hosts, Register(h), file[h] # None
  PROVE  /\ versions' \in Seq(Version)
         /\ DOMAIN versions \subseteq DOMAIN versions'
         /\ own'[h] \in DOMAIN versions' /\ versions'[own'[h]].content = file[h]
         /\ Production' = Production
         /\ \A n \in DOMAIN versions : versions'[n] = versions[n]
  <1> DEFINE new == [content |-> file[h], stage |-> "None"]
  <1>1. versions \in Seq(Version) /\ Len(versions) \in Nat
    BY DEF TypeOK, Version
  <1>2. new \in Version
    BY DEF TypeOK, Version, Stages
  <1>3. versions' = Append(versions, new)
    BY DEF Register
  <1>4. /\ versions' \in Seq(Version)
        /\ DOMAIN versions = 1 .. Len(versions)
        /\ DOMAIN versions' = 1 .. Len(versions) + 1
    BY <1>1, <1>2, <1>3
  <1>5. /\ \A n \in DOMAIN versions : versions'[n] = versions[n]
        /\ versions'[Len(versions) + 1] = new
    BY <1>1, <1>2, <1>3, <1>4
  <1>6. own'[h] = Len(versions) + 1
    BY DEF Register, TypeOK
  <1>7. Production' = Production
    BY <1>1, <1>4, <1>5 DEF Production, InStage
  <1>8. QED
    BY <1>1, <1>4, <1>5, <1>6, <1>7

-----------------------------------------------------------------------------
(* Every action preserves the types.                                        *)
LEMMA TypesKept ==
  ASSUME Inv, NEW h \in Hosts, Step(h)
  PROVE  TypeOK'
  <1> USE DEF Inv
  <1>a. \A n \in DOMAIN versions : n \in Nat
    BY DEF TypeOK
  <1>1. CASE Replace(h)
    BY <1>1 DEF Replace, TypeOK, registry, script, service, Files
  <1>2. CASE Stop(h)
    BY <1>2, EndsKeepsTypes DEF Stop, TypeOK, registry, Files
  <1>3. CASE StartUpload(h)
    BY <1>3, EndsKeepsTypes, GotoKeepsTypes
    DEF StartUpload, TypeOK, registry, service, Keeps, Scripts, Calls
  <1>4. CASE Upload(h)
    BY <1>4, EndsKeepsTypes DEF Upload, TypeOK, service, Scripts
  <1>5. CASE StartRegister(h)
    BY <1>5, EndsKeepsTypes, GotoKeepsTypes
    DEF StartRegister, TypeOK, registry, service, Keeps, Scripts, Calls
  <1>6. CASE Validate(h)
    BY <1>6, GotoKeepsTypes DEF Validate, TypeOK, registry, service, Keeps, Calls
  <1>7. CASE Register(h)
    <2>1. versions' \in Seq(Version)
      BY <1>7, RegisterEffect DEF Register, Ready
    <2>2. own' \in [Hosts -> Nat]
      BY <1>7 DEF Register, TypeOK
    <2>3. QED
      BY <1>7, <2>1, <2>2, GotoKeepsTypes DEF Register, TypeOK, service, Calls, Version
  <1>8. CASE Find(h)
    BY <1>8, <1>a, GotoKeepsTypes DEF Find, TypeOK, registry, service, Calls
  <1>9. CASE Promote(h)
    <2>1. versions' \in Seq(Version)
      BY <1>9, PromoteEffect DEF Promote, Ready
    <2>2. QED
      BY <1>9, <2>1, EndsKeepsTypes DEF Promote, TypeOK, service, Scripts, Version
  <1>10. CASE StartDownload(h)
    BY <1>10, EndsKeepsTypes, GotoKeepsTypes
    DEF StartDownload, TypeOK, registry, service, Files, Scripts, Calls
  <1>11. CASE Download(h)
    BY <1>11, EndsKeepsTypes DEF Download, TypeOK, registry, service, Scripts
  <1>12. CASE Load(h)
    BY <1>12, <1>a, GotoKeepsTypes DEF Load, TypeOK, registry, Keeps, Calls
  <1>13. CASE Resolve(h)
    BY <1>13, <1>a, EndsKeepsTypes DEF Resolve, TypeOK, registry
  <1>14. QED
    BY <1>1, <1>2, <1>3, <1>4, <1>5, <1>6, <1>7, <1>8, <1>9, <1>10, <1>11, <1>12, <1>13
    DEF Step

-----------------------------------------------------------------------------
LEMMA LocalStepKeepsRegistry ==
  ASSUME NEW h \in Hosts, LocalStep(h)
  PROVE  UNCHANGED registry
  BY DEF LocalStep, Replace, Stop, StartUpload, StartRegister, Validate, Find,
         StartDownload, Download, Load, Resolve, registry

(* What any step leaves of what the scripts of other hosts rely on: no      *)
(* version goes, or changes its content, or comes out of a stage.           *)
LEMMA StepKeepsShared ==
  ASSUME Inv, NEW h \in Hosts, Step(h)
  PROVE  /\ DOMAIN versions \subseteq DOMAIN versions'
         /\ \A n \in DOMAIN versions :
              /\ versions'[n].stage = "None" => versions[n].stage = "None"
              /\ versions'[n].content = versions[n].content
  <1>1. CASE LocalStep(h)
    BY <1>1, LocalStepKeepsRegistry DEF registry
  <1>2. CASE Upload(h)
    BY <1>2 DEF Upload
  <1>3. CASE Register(h)
    BY <1>3, RegisterEffect DEF Inv, Ready, Register
  <1>4. CASE Promote(h)
    BY <1>4, PromoteEffect DEF Inv, Ready, Promote
  <1>5. QED
    BY <1>1, <1>2, <1>3, <1>4 DEF Step, LocalStep

LEMMA StepKeepsOthers ==
  ASSUME TypeOK, NEW h \in Hosts, Step(h), NEW g \in Hosts, g # h
  PROVE  /\ at'[g] = at[g] /\ own'[g] = own[g] /\ found'[g] = found[g]
         /\ source'[g] = source[g] /\ done'[g] = done[g] /\ file'[g] = file[g]
  <1> USE DEF TypeOK
  <1>1. CASE Replace(h) \/ Stop(h)
    BY <1>1 DEF Replace, Stop, Ends, script
  <1>2. CASE StartUpload(h) \/ Upload(h)
    BY <1>2 DEF StartUpload, Upload, Ends, Goto, Keeps
  <1>3. CASE StartRegister(h) \/ Validate(h) \/ Register(h)
    BY <1>3 DEF StartRegister, Validate, Register, Ends, Goto, Keeps
  <1>4. CASE Find(h) \/ Promote(h)
    BY <1>4 DEF Find, Promote, Ends, Goto
  <1>5. CASE StartDownload(h) \/ Download(h)
    BY <1>5 DEF StartDownload, Download, Ends, Goto
  <1>6. CASE Load(h) \/ Resolve(h)
    BY <1>6 DEF Load, Resolve, Ends, Goto, Keeps
  <1>7. QED
    BY <1>1, <1>2, <1>3, <1>4, <1>5, <1>6 DEF Step

(* What the script relies on before its next call, it has seen to itself;   *)
(* the version it found is the newest of those without a stage.             *)
LEMMA ReadyKept ==
  ASSUME Inv, NEW h \in Hosts, Step(h)
  PROVE  /\ Ready(h)'
         /\ at'[h] = "promoting" /\ found'[h] < own'[h] =>
              versions'[own'[h]].stage # "None"
  <1> DEFINE Goal == /\ Ready(h)'
                     /\ at'[h] = "promoting" /\ found'[h] < own'[h] =>
                          versions'[own'[h]].stage # "None"
  <1>0. TypeOK /\ Ready(h)
    BY DEF Inv
  <1>1. ASSUME at'[h] = "idle" PROVE Goal
    BY <1>1 DEF Ready
  <1>2. CASE Replace(h)
    BY <1>2, <1>1 DEF Replace, script
  <1>3. ASSUME NEW result, Ends(h, result) PROVE Goal
    BY <1>0, <1>1, <1>3 DEF Ends, TypeOK
  <1>4. CASE StartUpload(h)
    <2>1. CASE Goto(h, "uploading")
      BY <1>0, <1>4, <2>1 DEF StartUpload, Goto, Ready, TypeOK
    <2>2. QED
      BY <1>3, <1>4, <2>1 DEF StartUpload
  <1>5. CASE StartRegister(h)
    <2>1. CASE Goto(h, "validating")
      BY <1>0, <1>5, <2>1 DEF Goto, Ready, TypeOK
    <2>2. QED
      BY <1>3, <1>5, <2>1 DEF StartRegister
  <1>6. CASE Validate(h)
    BY <1>0, <1>6 DEF Validate, Goto, Ready, TypeOK, registry
  <1>7. CASE Register(h)
    <2>1. /\ at'[h] = "finding" /\ file'[h] = file[h]
          /\ own'[h] \in DOMAIN versions' /\ versions'[own'[h]].content = file[h]
      BY <1>0, <1>7, RegisterEffect DEF Register, Goto, Ready, TypeOK
    <2>2. QED
      BY <1>0, <1>7, <2>1 DEF Register, Ready
  <1>8. CASE Find(h)
    <2>1. PICK n \in DOMAIN versions : Latest(n, "None") /\ found' = [found EXCEPT ![h] = n]
      BY <1>8 DEF Find
    <2>2. /\ at[h] = "finding" /\ at'[h] = "promoting" /\ found'[h] = n
          /\ own'[h] = own[h] /\ done'[h] = None /\ UNCHANGED <<versions, file>>
      BY <1>0, <1>8, <2>1 DEF Find, Goto, TypeOK, registry
    <2>3. own[h] \in Nat /\ n \in Nat
      BY <1>0 DEF TypeOK
    <2>4. versions[own[h]].stage = "None" => own[h] <= n
      BY <1>0, <2>1, <2>2 DEF Ready, Latest, InStage
    <2>5. QED
      BY <1>0, <2>2, <2>3, <2>4 DEF Ready
  <1>9. CASE StartDownload(h)
    <2>1. CASE Goto(h, "downloading") /\ source' = [source EXCEPT ![h] = bucket]
      BY <1>0, <1>9, <2>1 DEF StartDownload, Goto, Ready, TypeOK
    <2>2. QED
      BY <1>3, <1>9, <2>1 DEF StartDownload
  <1>10. CASE Load(h)
    BY <1>0, <1>10 DEF Load, Goto, Ready, TypeOK
  <1>11. CASE Stop(h) \/ Upload(h) \/ Promote(h) \/ Download(h) \/ Resolve(h)
    BY <1>3, <1>11 DEF Stop, Upload, Promote, Download, Resolve
  <1>12. QED
    BY <1>2, <1>4, <1>5, <1>6, <1>7, <1>8, <1>9, <1>10, <1>11 DEF Step

-----------------------------------------------------------------------------
(* Only a promotion changes what is in Production.                          *)
LEMMA ProductionEffect ==
  ASSUME Inv, NEW h \in Hosts, Step(h)
  PROVE  \/ Production' = Production
         \/ Production' = {found[h]} /\ found[h] \in DOMAIN versions'
  <1>1. CASE LocalStep(h)
    BY <1>1, LocalStepKeepsRegistry DEF registry, Production, InStage
  <1>2. CASE Upload(h)
    BY <1>2 DEF Upload, Production, InStage
  <1>3. CASE Register(h)
    BY <1>3, RegisterEffect DEF Inv, Ready, Register
  <1>4. CASE Promote(h)
    BY <1>4, PromoteEffect DEF Inv, Ready, Promote
  <1>5. QED
    BY <1>1, <1>2, <1>3, <1>4 DEF Step, LocalStep

LEMMA StepKeepsProduction ==
  ASSUME Inv, NEW h \in Hosts, Step(h)
  PROVE  KeepsProduction /\ AtMostOne'
  <1>1. Production = {} \/ \E n \in DOMAIN versions : Production = {n}
    BY DEF Inv, AtMostOne, Production, InStage
  <1>2. DOMAIN versions \subseteq DOMAIN versions'
    BY StepKeepsShared
  <1>3. KeepsProduction
    BY <1>1, <1>2, ProductionEffect DEF KeepsProduction
  <1>4. QED
    BY <1>3 DEF KeepsProduction, AtMostOne

LEMMA StepInv ==
  ASSUME Inv, NEW h \in Hosts, Step(h)
  PROVE  Inv'
  <1>1. TypeOK'
    BY TypesKept
  <1>2. \A g \in Hosts : Ready(g)'
    <2> TAKE g \in Hosts
    <2>1. CASE g = h
      BY <2>1, ReadyKept
    <2>2. CASE g # h
      BY <2>2, StepKeepsShared, StepKeepsOthers DEF Inv, Ready
    <2>3. QED
      BY <2>1, <2>2
  <1>3. AtMostOne'
    BY StepKeepsProduction
  <1>4. PromotesNoLeftover'
    <2> SUFFICES ASSUME NEW g \in Hosts, at'[g] = "promoting", found'[g] < own'[g]
                 PROVE  versions'[own'[g]].stage # "None"
      BY DEF PromotesNoLeftover
    <2>1. CASE g = h
      BY <2>1, ReadyKept
    <2>2. CASE g # h
      BY <2>2, StepKeepsShared, StepKeepsOthers DEF Inv, Ready, PromotesNoLeftover
    <2>3. QED
      BY <2>1, <2>2
  <1>5. QED
    BY <1>1, <1>2, <1>3, <1>4 DEF Inv

LEMMA NextIsStep == Next => \E h \in Hosts : Step(h)
  BY DEF Next, Step

LEMMA StutterKeeps ==
  ASSUME UNCHANGED vars
  PROVE  /\ Inv => Inv'
         /\ Production' = Production /\ versions' = versions
         /\ UNCHANGED <<loaded, traced>>
  BY DEF vars, registry, script, service, Inv, TypeOK, Ready, AtMostOne,
         PromotesNoLeftover, Production, InStage

LEMMA NextInv == Inv /\ [Next]_vars => Inv'
  BY StepInv, NextIsStep, StutterKeeps

LEMMA InvAlways == Spec => []Inv
  BY InitInv, NextInv, PTL DEF Spec

-----------------------------------------------------------------------------
(* A registration that is promoting ends normally by its promotion only.    *)
LEMMA OnlyPromotionEnds ==
  ASSUME Inv, NEW h \in Hosts, Step(h), NEW g \in Hosts,
         at[g] = "promoting", done'[g] = "register"
  PROVE  g = h /\ Promote(h)
  <1>0. TypeOK /\ done[g] # "register"
    BY NoneAssumption DEF Inv, Ready, Scripts
  <1>1. g = h
    BY <1>0, StepKeepsOthers
  <1>2. ~Stop(h)
    BY <1>0, <1>1, NoneAssumption DEF Stop, Ends, TypeOK, Scripts
  <1>3. QED
    BY <1>1, <1>2
    DEF Step, Replace, StartUpload, Upload, StartRegister, Validate, Register, Find,
        StartDownload, Download, Load, Resolve

(* All that the scripts and the API keep has its type.                      *)
THEOREM DeploymentTypes == Spec => []TypeOK
  <1>1. Inv => TypeOK
    BY DEF Inv
  <1>2. QED
    BY <1>1, InvAlways, PTL

(* However many hosts run scripts that die anywhere, there is never more    *)
(* than one version in Production, and never none once there was one.       *)
THEOREM OneInProduction == Spec => AlwaysOneProduction
  <1>1. Inv /\ [Next]_vars => [KeepsProduction]_vars
    BY StepKeepsProduction, NextIsStep
  <1>2. QED
    BY <1>1, InvAlways, PTL DEF Spec, AlwaysOneProduction

(* No script promotes the version of one that died, or of a slower one,     *)
(* while its own is waiting.                                                *)
THEOREM LeftoversStay == Spec => []PromotesNoLeftover
  <1>1. Inv => PromotesNoLeftover
    BY DEF Inv
  <1>2. QED
    BY <1>1, InvAlways, PTL

(* Whatever other hosts do between its calls, a registration that promotes  *)
(* its own version, of the file that is in the bucket by then, leaves the   *)
(* same binary in the bucket and in Production.                             *)
THEOREM PromotionsAreBackedUp == Spec => BackedUp
  <1>1. ASSUME Inv, NEW h \in Hosts, Step(h), NEW g \in Hosts
        PROVE  PromotesWhatIsBackedUp(g)
    <2>0. TypeOK /\ Ready(g)
      BY <1>1 DEF Inv
    <2> SUFFICES ASSUME at[g] = "promoting", done'[g] = "register",
                        file[g] = bucket, found[g] = own[g], NEW n \in Production'
                 PROVE  versions'[n].content = bucket'
      BY DEF PromotesWhatIsBackedUp
    <2>1. CASE g = h /\ Promote(h)
      <3>1. n = own[h] /\ own[h] \in DOMAIN versions /\ bucket' = bucket
        BY <2>0, <2>1, PromoteEffect DEF Promote, Ready
      <3>2. versions'[n].content = versions[n].content
        BY <2>0, <2>1, <3>1, PromoteEffect DEF Ready
      <3>3. QED
        BY <2>0, <2>1, <3>1, <3>2 DEF Ready
    <2>2. QED
      BY <1>1, <2>1, OnlyPromotionEnds
  <1>2. Inv /\ [Next]_vars => [\A h \in Hosts : PromotesWhatIsBackedUp(h)]_vars
    BY <1>1, NextIsStep
  <1>3. QED
    BY <1>2, InvAlways, PTL DEF Spec, BackedUp

(* An API traces the version it loaded, unless a promotion came between.    *)
THEOREM TracesAreExact == Spec => TraceIsExact
  <1>1. ASSUME Inv, NEW h \in Hosts, Step(h), NEW g \in Hosts
        PROVE  TracesWhatItLoaded(g)
    <2>0. TypeOK /\ AtMostOne
      BY <1>1 DEF Inv
    <2>1. CASE Load(h)
      BY <2>0, <2>1 DEF Load, TypeOK, TracesWhatItLoaded
    <2>2. CASE Resolve(h)
      BY <2>0, <2>2 DEF Resolve, TypeOK, TracesWhatItLoaded, AtMostOne, Latest, Production
    <2>3. CASE ~Load(h) /\ ~Resolve(h)
      <3>1. UNCHANGED traced
        BY <1>1, <2>3
        DEF Step, Replace, Stop, StartUpload, Upload, StartRegister, Validate, Register,
            Find, Promote, StartDownload, Download, service
      <3>2. QED
        BY <3>1 DEF TracesWhatItLoaded
    <2>4. QED
      BY <2>1, <2>2, <2>3
  <1>2. Inv /\ [Next]_vars => [\A h \in Hosts : TracesWhatItLoaded(h)]_vars
    BY <1>1, NextIsStep
  <1>3. QED
    BY <1>2, InvAlways, PTL DEF Spec, TraceIsExact
=============================================================================
