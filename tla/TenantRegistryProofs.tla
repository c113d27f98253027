------------------------ MODULE TenantRegistryProofs ------------------------
(***************************************************************************)
(* What module TenantRegistry guarantees for every number of tenant files, *)
(* whatever they say and whoever edits them meanwhile.                     *)
(***************************************************************************)
EXTENDS TenantRegistry, TLAPS

(* The two maps of a registry say the same. *)
Agree(ids, hosts) ==
    \A n \in Hostnames, f \in Files : hosts[Lower[n]] = f <=> ids[f] = Lower[n]

(* The map holds the files seen, each under its own name. *)
Holds(ids, seen) ==
    \A f \in Files :
        /\ seen[f] = NoFile => ids[f] = NoHost
        /\ seen[f] # NoFile =>
               /\ seen[f].hostname \in Hostnames /\ Str[seen[f].id] = f
               /\ ids[f] = Lower[seen[f].hostname]

Cached  == Agree(byId, byHostname) /\ Holds(byId, served)

Drafted ==
    /\ Agree(draftId, draftHostname)
    /\ todo \subseteq listed
    /\ reading => /\ Holds(draftId, saw)
                  /\ \A f \in Files : saw[f] # NoFile <=> f \in listed \ todo

(* A kit file under another file's name makes the kit's map worthless;     *)
(* otherwise the map has an entry for every file seen, and no other.       *)
KitHolds(ids) ==
    (\A f \in Files : kitSaw[f] # NoFile => Str[kitSaw[f].id] = f) =>
        /\ \A f \in Files : kitSaw[f] # NoFile =>
               kitSaw[f].hostname \in Hostnames /\ ids[kitSaw[f].id] = Lower[kitSaw[f].hostname]
        /\ \A x \in RawIds : ids[x] # NoHost =>
               \E f \in Files : kitSaw[f] # NoFile /\ kitSaw[f].id = x

KitDrafted ==
    /\ ~ kitReading => KitHolds(kit)
    /\ kitReading => KitHolds(kitDraft) /\ kit = KitEmpty
    /\ \A f \in kitTodo : kitSaw[f] = NoFile

IInv == TypeOK /\ Cached /\ Drafted /\ KitDrafted

-----------------------------------------------------------------------------

(* Two empty maps agree with each other, and with no file read. *)
LEMMA EmptyMaps ==
    /\ Agree(Nobody, Nowhere) /\ Holds(Nobody, NoneSeen)
    /\ Nobody \in [Files -> Hostnames \cup {NoHost}]
    /\ Nowhere \in [Hostnames -> Files \cup {NoTenant}]
    /\ NoneSeen \in [Files -> Docs \cup {NoFile}]
    /\ KitEmpty \in [RawIds -> Hostnames \cup {NoHost}]
    /\ \A f \in Files : NoneSeen[f] = NoFile
    /\ \A x \in RawIds : KitEmpty[x] = NoHost
BY RegistryAssumption DEF Agree, Holds, Nobody, Nowhere, NoneSeen, KitEmpty

(* The inductive invariant holds before the first load. *)
LEMMA IInvInit == Init => IInv
<1> SUFFICES ASSUME Init PROVE IInv
  OBVIOUS
<1>1. TypeOK
  BY EmptyMaps DEF Init, TypeOK
<1>2. Cached /\ Drafted
  BY EmptyMaps DEF Init, Cached, Drafted
<1>3. KitDrafted
  BY EmptyMaps DEF Init, KitDrafted, KitHolds
<1> QED BY <1>1, <1>2, <1>3 DEF IInv

(* One entry more, under a host name nobody has. *)
LEMMA AgreeExtends ==
    ASSUME NEW ids \in [Files -> Hostnames \cup {NoHost}],
           NEW hosts \in [Hostnames -> Files \cup {NoTenant}],
           Agree(ids, hosts),
           NEW f \in Files, NEW h \in Hostnames,
           ids[f] = NoHost, hosts[Lower[h]] = NoTenant
    PROVE  Agree([ids EXCEPT ![f] = Lower[h]], [hosts EXCEPT ![Lower[h]] = f])
<1> USE RegistryAssumption
<1> SUFFICES ASSUME NEW n \in Hostnames, NEW g \in Files
             PROVE  [hosts EXCEPT ![Lower[h]] = f][Lower[n]] = g
                      <=> [ids EXCEPT ![f] = Lower[h]][g] = Lower[n]
  BY DEF Agree
<1>1. CASE Lower[n] = Lower[h]
  BY <1>1 DEF Agree
<1>2. CASE Lower[n] # Lower[h]
  BY <1>2 DEF Agree
<1> QED BY <1>1, <1>2

(* One file more, accepted under its own name. *)
LEMMA HoldsExtends ==
    ASSUME NEW ids \in [Files -> Hostnames \cup {NoHost}],
           NEW seen \in [Files -> Docs \cup {NoFile}],
           Holds(ids, seen),
           NEW f \in Files, NEW d \in Docs, Str[d.id] = f, d.hostname \in Hostnames
    PROVE  Holds([ids EXCEPT ![f] = Lower[d.hostname]], [seen EXCEPT ![f] = d])
BY RegistryAssumption DEF Holds

-----------------------------------------------------------------------------

(* Every step keeps the types. *)
LEMMA TypedStep == TypeOK /\ [Next]_vars => TypeOK'
<1> SUFFICES ASSUME TypeOK, [Next]_vars PROVE TypeOK'
  OBVIOUS
<1> USE RegistryAssumption DEF TypeOK
<1>1. ASSUME NEW f \in Files, NEW d \in Docs \cup {NoFile}, Edit(f, d) PROVE TypeOK'
  BY <1>1 DEF Edit, cache, pass, kitPass
<1>2. ASSUME NEW force \in BOOLEAN, Load(force) PROVE TypeOK'
  BY <1>2, EmptyMaps DEF Load, Present, cache, kitPass
<1>3. ASSUME NEW f \in Files, RefuseFile(f) PROVE TypeOK'
  BY <1>3, EmptyMaps DEF RefuseFile, Read, cache, kitPass
<1>4. ASSUME NEW f \in Files, AcceptFile(f) PROVE TypeOK'
  BY <1>4 DEF AcceptFile, Read, Accepted, Parses, cache, kitPass
<1>5. CASE Publish
  BY <1>5, EmptyMaps DEF Publish, kitPass
<1>6. CASE Restart
  BY <1>6, EmptyMaps DEF Restart, kitPass
<1>7. CASE KitLoad
  BY <1>7, EmptyMaps DEF KitLoad, Present, cache, pass
<1>8. CASE KitReturn
  BY <1>8, EmptyMaps DEF KitReturn, cache, pass
<1>9. ASSUME NEW f \in Files, KitRead(f) PROVE TypeOK'
  <2>1. CASE Readable(disk[f])
    <3>1. disk[f] \in Docs /\ disk[f].hostname \in Hostnames /\ disk[f].id \in RawIds
      BY <2>1 DEF Readable
    <3>2. /\ kitSaw' = [kitSaw EXCEPT ![f] = disk[f]]
          /\ kitDraft' = [kitDraft EXCEPT ![disk[f].id] = Lower[disk[f].hostname]]
          /\ kitTodo' = kitTodo \ {f} /\ UNCHANGED <<disk, cache, pass, kit, kitReading>>
      BY <1>9, <2>1 DEF KitRead
    <3> QED BY <3>1, <3>2 DEF cache, pass
  <2>2. CASE ~ Readable(disk[f])
    BY <1>9, <2>2, EmptyMaps DEF KitRead, cache, pass
  <2> QED BY <2>1, <2>2
<1>10. CASE UNCHANGED vars
  BY <1>10 DEF vars, cache, pass, kitPass
<1> QED BY <1>1, <1>2, <1>3, <1>4, <1>5, <1>6, <1>7, <1>8, <1>9, <1>10 DEF Next, LoadStep, KitStep

(* The service's side of a step. *)
LEMMA RegistryStep == TypeOK /\ Cached /\ Drafted /\ [Next]_vars => Cached' /\ Drafted'
<1> SUFFICES ASSUME TypeOK, Cached, Drafted, [Next]_vars PROVE Cached' /\ Drafted'
  OBVIOUS
<1>1. ASSUME UNCHANGED <<cache, pass>> PROVE Cached' /\ Drafted'
  BY <1>1 DEF cache, pass, Cached, Drafted, Agree, Holds
<1>2. ASSUME NEW force \in BOOLEAN, Load(force) PROVE Cached' /\ Drafted'
  <2>1. Cached'
    BY <1>2 DEF Load, cache, Cached, Agree, Holds
  <2>2. Agree(draftId, draftHostname)' /\ Holds(draftId, saw)'
    BY <1>2, EmptyMaps DEF Load, Agree, Holds
  <2>3. (todo \subseteq listed)' /\ \A f \in Files : saw'[f] # NoFile <=> f \in listed' \ todo'
    BY <1>2 DEF Load, NoneSeen
  <2> QED BY <2>1, <2>2, <2>3 DEF Drafted
<1>3. ASSUME NEW f \in Files, RefuseFile(f) PROVE Cached' /\ Drafted'
  <2>1. Cached'
    BY <1>3 DEF RefuseFile, cache, Cached, Agree, Holds
  <2>2. Agree(draftId, draftHostname)'
    BY <1>3, EmptyMaps DEF RefuseFile, Agree
  <2> QED BY <1>3, <2>1, <2>2 DEF RefuseFile, Drafted
<1>4. ASSUME NEW f \in Files, AcceptFile(f) PROVE Cached' /\ Drafted'
  <2>1. /\ disk[f] \in Docs /\ Str[disk[f].id] = f /\ disk[f].hostname \in Hostnames
        /\ draftHostname[Lower[disk[f].hostname]] = NoTenant
        /\ f \in todo /\ reading
    BY <1>4, RegistryAssumption DEF AcceptFile, Read, IsNext, Accepted, Parses, Taken, TypeOK
  <2>2. saw[f] = NoFile /\ draftId[f] = NoHost
    BY <2>1 DEF Drafted, Holds
  <2>3. /\ draftId' = [draftId EXCEPT ![f] = Lower[disk[f].hostname]]
        /\ draftHostname' = [draftHostname EXCEPT ![Lower[disk[f].hostname]] = f]
        /\ saw' = [saw EXCEPT ![f] = disk[f]]
        /\ todo' = todo \ {f} /\ listed' = listed /\ reading' = reading
    BY <1>4, <2>1 DEF AcceptFile, Read
  <2>4. Agree(draftId, draftHostname)'
    <3>1. Agree([draftId EXCEPT ![f] = Lower[disk[f].hostname]],
                [draftHostname EXCEPT ![Lower[disk[f].hostname]] = f])
      BY <2>1, <2>2, AgreeExtends DEF Drafted, TypeOK
    <3> QED BY <2>3, <3>1 DEF Agree
  <2>5. Holds(draftId, saw)'
    <3>1. Holds([draftId EXCEPT ![f] = Lower[disk[f].hostname]], [saw EXCEPT ![f] = disk[f]])
      BY <2>1, HoldsExtends DEF Drafted, TypeOK
    <3> QED BY <2>3, <3>1 DEF Holds
  <2>6. \A g \in Files : saw'[g] # NoFile <=> g \in listed' \ todo'
    BY <2>1, <2>2, <2>3, RegistryAssumption DEF Drafted, TypeOK
  <2>7. (todo \subseteq listed)'
    BY <2>3 DEF Drafted
  <2>8. Cached'
    BY <1>4 DEF AcceptFile, cache, Cached, Agree, Holds
  <2> QED BY <2>4, <2>5, <2>6, <2>7, <2>8 DEF Drafted
<1>5. CASE Publish
  <2>1. Cached'
    BY <1>5 DEF Publish, Cached, Drafted, Agree, Holds
  <2>2. Agree(draftId, draftHostname)'
    BY <1>5, EmptyMaps DEF Publish, Agree
  <2> QED BY <1>5, <2>1, <2>2 DEF Publish, Drafted
<1>6. CASE Restart
  <2>1. Cached' /\ Agree(draftId, draftHostname)'
    BY <1>6, EmptyMaps DEF Restart, Cached, Agree, Holds
  <2> QED BY <1>6, <2>1 DEF Restart, Drafted
<1>7. ASSUME NEW f \in Files, KitRead(f) PROVE Cached' /\ Drafted'
  BY <1>1, <1>7 DEF KitRead
<1> QED BY <1>1, <1>2, <1>3, <1>4, <1>5, <1>6, <1>7
    DEF Next, LoadStep, KitStep, Edit, KitLoad, KitReturn, vars

(* The test kit's side. *)
LEMMA KitInvStep == TypeOK /\ KitDrafted /\ [Next]_vars => KitDrafted'
<1> SUFFICES ASSUME TypeOK, KitDrafted, [Next]_vars PROVE KitDrafted'
  OBVIOUS
<1>1. ASSUME UNCHANGED kitPass PROVE KitDrafted'
  BY <1>1 DEF kitPass, KitDrafted, KitHolds
<1>2. CASE KitLoad
  <2>1. kitReading' /\ kitDraft' = KitEmpty /\ kit' = KitEmpty /\ kitSaw' = NoneSeen
        /\ kitTodo' \subseteq Files
    BY <1>2 DEF KitLoad, Present
  <2>2. KitHolds(kitDraft)'
    BY <2>1, EmptyMaps DEF KitHolds
  <2> QED BY <2>1, <2>2, EmptyMaps DEF KitDrafted
<1>3. CASE KitReturn
  BY <1>3 DEF KitReturn, KitDrafted, KitHolds
<1>4. ASSUME NEW f \in Files, KitRead(f), Readable(disk[f]) PROVE KitDrafted'
  <2> DEFINE d == disk[f]
  <2>1. /\ kitReading /\ kitReading' /\ kit' = kit /\ f \in kitTodo
        /\ kitSaw' = [kitSaw EXCEPT ![f] = d]
        /\ kitDraft' = [kitDraft EXCEPT ![d.id] = Lower[d.hostname]]
        /\ kitTodo' = kitTodo \ {f}
    BY <1>4 DEF KitRead, IsNext
  <2>2. d \in Docs /\ d.hostname \in Hostnames
    BY <1>4, RegistryAssumption DEF Readable, TypeOK
  <2>3. kitSaw[f] = NoFile
    BY <2>1 DEF KitDrafted
  <2>4. KitHolds(kitDraft)'
    <3> SUFFICES ASSUME \A g \in Files : kitSaw'[g] # NoFile => Str[kitSaw'[g].id] = g
                 PROVE  /\ \A g \in Files : kitSaw'[g] # NoFile =>
                               /\ kitSaw'[g].hostname \in Hostnames
                               /\ kitDraft'[kitSaw'[g].id] = Lower[kitSaw'[g].hostname]
                        /\ \A x \in RawIds : kitDraft'[x] # NoHost =>
                               \E g \in Files : kitSaw'[g] # NoFile /\ kitSaw'[g].id = x
      BY DEF KitHolds
    <3>1. Str[d.id] = f /\ kitSaw'[f] = d /\ d # NoFile /\ d.id \in RawIds
      BY <2>1, <2>2, RegistryAssumption DEF TypeOK
    <3>2. \A g \in Files \ {f} : kitSaw'[g] = kitSaw[g]
      BY <2>1 DEF TypeOK
    <3>3. /\ \A g \in Files : kitSaw[g] # NoFile =>
                  /\ kitSaw[g].hostname \in Hostnames
                  /\ kitDraft[kitSaw[g].id] = Lower[kitSaw[g].hostname]
          /\ \A x \in RawIds : kitDraft[x] # NoHost =>
                  \E g \in Files : kitSaw[g] # NoFile /\ kitSaw[g].id = x
      <4>1. \A g \in Files : kitSaw[g] # NoFile => Str[kitSaw[g].id] = g
        BY <2>3, <3>2
      <4> QED BY <2>1, <4>1 DEF KitDrafted, KitHolds
    <3>4. ASSUME NEW g \in Files, kitSaw'[g] # NoFile
          PROVE  kitSaw'[g].hostname \in Hostnames /\ kitDraft'[kitSaw'[g].id] = Lower[kitSaw'[g].hostname]
      <4>1. CASE g = f
        BY <2>1, <2>2, <3>1, <4>1 DEF TypeOK
      <4>2. CASE g # f
        <5>1. kitSaw'[g] = kitSaw[g] /\ kitSaw[g].id # d.id /\ kitSaw[g] \in Docs
          BY <3>1, <3>2, <3>4, <4>2 DEF TypeOK
        <5> QED BY <2>1, <3>3, <3>4, <5>1, RegistryAssumption DEF TypeOK
      <4> QED BY <4>1, <4>2
    <3>5. ASSUME NEW x \in RawIds, kitDraft'[x] # NoHost
          PROVE  \E g \in Files : kitSaw'[g] # NoFile /\ kitSaw'[g].id = x
      <4>1. CASE x = d.id
        BY <3>1, <4>1
      <4>2. CASE x # d.id
        <5>1. PICK g \in Files : kitSaw[g] # NoFile /\ kitSaw[g].id = x
          BY <2>1, <3>3, <3>5, <4>2 DEF TypeOK
        <5> QED BY <2>3, <3>2, <5>1
      <4> QED BY <4>1, <4>2
    <3> QED BY <3>4, <3>5
  <2> QED BY <2>1, <2>4 DEF KitDrafted, TypeOK
<1>5. ASSUME NEW f \in Files, KitRead(f), ~ Readable(disk[f]) PROVE KitDrafted'
  <2>1. ~ kitReading' /\ kitTodo' = {} /\ kitSaw' = NoneSeen /\ kit' = KitEmpty
    BY <1>5 DEF KitRead, KitDrafted
  <2> QED BY <2>1, EmptyMaps DEF KitDrafted, KitHolds
<1> QED BY <1>1, <1>2, <1>3, <1>4, <1>5
    DEF Next, LoadStep, KitStep, Edit, Load, RefuseFile, AcceptFile, Publish, Restart, vars

(* The invariant behind the theorems below. *)
THEOREM Invariance == Spec => []IInv
<1>1. Init => IInv
  BY IInvInit
<1>2. IInv /\ [Next]_vars => IInv'
  BY TypedStep, RegistryStep, KitInvStep DEF IInv
<1> QED BY <1>1, <1>2, PTL DEF Spec

-----------------------------------------------------------------------------

(* Every variable keeps its type. *)
THEOREM Typing == Spec => []TypeOK
<1>1. IInv => TypeOK
  BY DEF IInv
<1> QED BY <1>1, Invariance, PTL

(* tenants.py:154-156, for every directory: an address leads to a tenant   *)
(* exactly if it is, in lower case, that tenant's host name.               *)
THEOREM Routing == Spec => []RoutingIsUnambiguous
<1>1. IInv => RoutingIsUnambiguous
  BY DEF IInv, Cached, Agree, RoutingIsUnambiguous, resolve_tenant
<1> QED BY <1>1, Invariance, PTL

(* testkit/tenants.py, for every directory: the test kit finds the tenants *)
(* the service has accepted, each once, though it checks nothing itself    *)
(* and takes an id as YAML reads it.                                       *)
THEOREM KitAgrees == Spec => []KitFindsTheTenants
<1>1. IInv => KitFindsTheTenants
  <2> SUFFICES ASSUME IInv, ~ kitReading, kitSaw = served
               PROVE  /\ \A x \in RawIds : kit[x] # NoHost => byId[Str[x]] = kit[x]
                      /\ \A f \in Files : byId[f] # NoHost =>
                             \E x \in RawIds : \A y \in RawIds :
                                 kit[y] # NoHost /\ Str[y] = f <=> y = x
    BY DEF KitFindsTheTenants
  <2>1. Holds(byId, kitSaw)
    BY DEF IInv, Cached
  <2>2. /\ \A f \in Files : kitSaw[f] # NoFile => kit[kitSaw[f].id] = Lower[kitSaw[f].hostname]
        /\ \A x \in RawIds : kit[x] # NoHost =>
               \E f \in Files : kitSaw[f] # NoFile /\ kitSaw[f].id = x
    BY <2>1 DEF IInv, KitDrafted, KitHolds, Holds
  <2>3. ASSUME NEW x \in RawIds, kit[x] # NoHost PROVE byId[Str[x]] = kit[x]
    BY <2>1, <2>2, <2>3 DEF Holds
  <2>4. ASSUME NEW f \in Files, byId[f] # NoHost
        PROVE  \E x \in RawIds : \A y \in RawIds : kit[y] # NoHost /\ Str[y] = f <=> y = x
    <3>1. kitSaw[f] # NoFile /\ kitSaw[f] \in Docs
      BY <2>1, <2>4 DEF Holds, IInv, TypeOK
    <3>2. kitSaw[f].id \in RawIds /\ Str[kitSaw[f].id] = f /\ kit[kitSaw[f].id] # NoHost
      BY <2>1, <2>2, <3>1, RegistryAssumption DEF Holds
    <3>3. ASSUME NEW y \in RawIds, kit[y] # NoHost, Str[y] = f PROVE y = kitSaw[f].id
      BY <2>1, <2>2, <3>3 DEF Holds
    <3> QED BY <3>2, <3>3
  <2> QED BY <2>3, <2>4
<1> QED BY <1>1, Invariance, PTL

(* tenants.py:165, for every directory: a reload that fails leaves both    *)
(* maps as they were, and one that succeeds holds the whole listing.       *)
THEOREM AllOrNothing == Spec => ReloadIsAllOrNothing
<1> DEFINE Complete == loaded' /\ <<byId, byHostname>>' # <<byId, byHostname>> =>
                           {f \in Files : byId'[f] # NoHost} = listed
<1>1. ASSUME IInv, [Next]_vars PROVE [Complete]_vars
  <2>1. CASE Publish
    <3>1. todo = {} /\ reading /\ byId' = draftId /\ listed \subseteq Files
      BY <1>1, <2>1 DEF Publish, IInv, TypeOK
    <3>2. \A f \in Files : draftId[f] # NoHost <=> f \in listed
      BY <1>1, <3>1, RegistryAssumption DEF IInv, Drafted, Holds
    <3> QED BY <3>1, <3>2
  <2>2. CASE Restart
    BY <2>2 DEF Restart
  <2>3. CASE UNCHANGED cache
    BY <2>3 DEF cache
  <2> QED BY <1>1, <2>1, <2>2, <2>3
      DEF Next, LoadStep, KitStep, Edit, Load, RefuseFile, AcceptFile, KitLoad, KitRead, KitReturn, vars
<1>2. IInv /\ [Next]_vars => [Complete]_vars
  BY <1>1
<1> QED BY <1>2, Invariance, PTL DEF Spec, ReloadIsAllOrNothing

(* tenants.py:24-28, for every directory: the service comes up only on     *)
(* files that were valid when it read them, each and together, and knows   *)
(* the tenant of every one, whoever edits the directory meanwhile.         *)
THEOREM BootsValid == Spec => BootsOnValidFiles
<1> DEFINE Valid == ~ loaded /\ loaded' => \A f, g \in listed :
                        /\ Parses(f, saw[f]) /\ byId'[f] = Lower[saw[f].hostname]
                        /\ Lower[saw[f].hostname] = Lower[saw[g].hostname] => f = g
<1>1. ASSUME IInv, [Next]_vars PROVE [Valid]_vars
  <2>1. CASE Publish
    <3> SUFFICES ASSUME NEW f \in listed, NEW g \in listed
                 PROVE  /\ Parses(f, saw[f]) /\ byId'[f] = Lower[saw[f].hostname]
                        /\ Lower[saw[f].hostname] = Lower[saw[g].hostname] => f = g
      OBVIOUS
    <3>1. /\ Holds(draftId, saw) /\ Agree(draftId, draftHostname) /\ byId' = draftId
          /\ f \in Files /\ g \in Files /\ saw[f] # NoFile /\ saw[g] # NoFile
      BY <1>1, <2>1 DEF Publish, IInv, TypeOK, Drafted
    <3>2. Str[saw[f].id] = f /\ saw[f].hostname \in Hostnames /\ saw[f].hostname # NoHost
      BY <3>1, RegistryAssumption DEF Holds
    <3>3. draftId[f] = Lower[saw[f].hostname] /\ draftId[g] = Lower[saw[g].hostname]
      BY <3>1 DEF Holds
    <3>4. ASSUME Lower[saw[f].hostname] = Lower[saw[g].hostname] PROVE f = g
      BY <3>1, <3>2, <3>3, <3>4 DEF Agree
    <3> QED BY <3>1, <3>2, <3>3, <3>4 DEF Parses
  <2>2. CASE loaded' = loaded \/ ~ loaded'
    BY <2>2
  <2> QED BY <1>1, <2>1, <2>2
      DEF Next, LoadStep, KitStep, Edit, Load, RefuseFile, AcceptFile, Restart, KitLoad, KitRead,
          KitReturn, vars, cache
<1>2. IInv /\ [Next]_vars => [Valid]_vars
  BY <1>1
<1> QED BY <1>2, Invariance, PTL DEF Spec, BootsOnValidFiles
=============================================================================
