--------------------------- MODULE TenantRegistry ---------------------------
(***************************************************************************)
(* The tenant files and their two readers: the service's registry          *)
(* (app/tenants.py), which validates and caches them, and the test kit's   *)
(* (testkit/tenants.py), which does neither.  Files may be edited between  *)
(* any two reads, so a pass over the directory is one step per file.       *)
(*                                                                         *)
(* The two module globals are assigned in adjacent stores with no call in  *)
(* between, where the interpreter does not switch threads: one step.       *)
(***************************************************************************)
EXTENDS Naturals

CONSTANTS
    NumFiles,      \* tenant files, numbered in the order sorted() gives them;
                   \* the stem of a file is its number
    RawIds,        \* ids as YAML reads them, a number or a text
    Str,           \* str of an id
    Hostnames,     \* host names as people write them
    Lower,         \* str.lower
    Docs,          \* what a tenant file may say
    NoFile, NoHost, NoTenant

Files == 1..NumFiles

ASSUME RegistryAssumption ==
    /\ NumFiles \in Nat
    /\ Lower \in [Hostnames -> Hostnames]
    /\ \A n \in Hostnames : Lower[Lower[n]] = Lower[n]
    /\ Docs \subseteq [id : RawIds, hostname : Hostnames \cup {NoHost}]
    /\ NoFile \notin Docs
    /\ NoHost \notin Hostnames
    /\ NoTenant \notin Files

VARIABLES
    disk,        \* the directory
    loaded,      \* _by_id is not None
    byId,        \* _by_id: the host name of every tenant known
    byHostname,  \* _by_hostname
    reading,     \* load_tenants is going through the directory
    todo,        \* files of the listing not read yet
    draftId, draftHostname,  \* its local by_id and by_hostname
    listed,      \* history: the files of the last listing
    saw, served, \* history: what this pass has read, what the cached one had
    kitTodo, kitReading, kitDraft, kit,  \* the test kit's pass, and its result,
                                         \* by the ids as read
    kitSaw       \* history: what that pass has read

cache   == <<loaded, byId, byHostname, served>>
pass    == <<reading, todo, draftId, draftHostname, listed, saw>>
kitPass == <<kitTodo, kitReading, kitDraft, kit, kitSaw>>
vars    == <<disk, cache, pass, kitPass>>

Nobody   == [f \in Files |-> NoHost]
KitEmpty == [x \in RawIds |-> NoHost]
Nowhere  == [n \in Hostnames |-> NoTenant]
NoneSeen == [f \in Files |-> NoFile]
Present  == {f \in Files : disk[f] # NoFile}

Init ==
    /\ disk \in [Files -> Docs \cup {NoFile}]
    /\ loaded = FALSE /\ byId = Nobody /\ byHostname = Nowhere
    /\ reading = FALSE /\ todo = {} /\ listed = {}
    /\ draftId = Nobody /\ draftHostname = Nowhere
    /\ kitReading = FALSE /\ kitTodo = {} /\ kitDraft = KitEmpty /\ kit = KitEmpty
    /\ saw = NoneSeen /\ served = NoneSeen /\ kitSaw = NoneSeen

(* Somebody adds, changes or removes a tenant file. *)
Edit(f, d) ==
    /\ disk[f] # d
    /\ disk' = [disk EXCEPT ![f] = d]
    /\ UNCHANGED <<cache, pass, kitPass>>

-----------------------------------------------------------------------------
(* load_tenants of the service *)

IsNext(f, files) == f \in files /\ \A g \in files : f <= g

(* _parse accepts: the keys are there, and the id is the file's name.  A   *)
(* file removed since the listing raises as well.                          *)
Parses(f, d) == d # NoFile /\ d.hostname # NoHost /\ Str[d.id] = f

(* Fault: host names are compared as written. *)
TakenAsWritten(d) == draftHostname[d.hostname] # NoTenant

(* The host name belongs to a file read earlier in this pass. *)
Taken(d) == draftHostname[Lower[d.hostname]] # NoTenant

Accepted(f, d) == Parses(f, d) /\ ~ Taken(d)

(* Fault: force clears the cache before it reads. *)
LoadFromScratch(force) ==
    /\ ~ reading /\ (force \/ ~ loaded)
    /\ reading' = TRUE
    /\ todo' = Present /\ listed' = Present
    /\ draftId' = Nobody /\ draftHostname' = Nowhere
    /\ byId' = Nobody /\ byHostname' = Nowhere
    /\ saw' = NoneSeen
    /\ UNCHANGED <<disk, loaded, served, kitPass>>

(* The cache is bypassed or empty: list the directory. *)
Load(force) ==
    /\ ~ reading /\ (force \/ ~ loaded)
    /\ reading' = TRUE
    /\ todo' = Present /\ listed' = Present
    /\ draftId' = Nobody /\ draftHostname' = Nowhere
    /\ saw' = NoneSeen
    /\ UNCHANGED <<disk, cache, kitPass>>

Read(f) ==
    /\ reading /\ IsNext(f, todo)
    /\ saw' = [saw EXCEPT ![f] = disk[f]]

(* Fault: a file that does not parse is skipped. *)
SkipFile(f) ==
    /\ Read(f)
    /\ ~ Accepted(f, disk[f])
    /\ todo' = todo \ {f}
    /\ UNCHANGED <<disk, cache, reading, draftId, draftHostname, listed, kitPass>>

(* TenantConfigError: the pass ends, nothing is assigned. *)
RefuseFile(f) ==
    /\ Read(f)
    /\ ~ Accepted(f, disk[f])
    /\ reading' = FALSE /\ todo' = {}
    /\ draftId' = Nobody /\ draftHostname' = Nowhere
    /\ UNCHANGED <<disk, cache, listed, kitPass>>

AcceptFile(f) ==
    LET d == disk[f] IN
    /\ Read(f)
    /\ Accepted(f, d)
    /\ draftId' = [draftId EXCEPT ![Str[d.id]] = Lower[d.hostname]]
    /\ draftHostname' = [draftHostname EXCEPT ![Lower[d.hostname]] = Str[d.id]]
    /\ todo' = todo \ {f}
    /\ UNCHANGED <<disk, cache, reading, listed, kitPass>>

Publish ==
    /\ reading /\ todo = {}
    /\ loaded' = TRUE /\ byId' = draftId /\ byHostname' = draftHostname
    /\ served' = saw
    /\ reading' = FALSE
    /\ draftId' = Nobody /\ draftHostname' = Nowhere
    /\ UNCHANGED <<disk, todo, listed, saw, kitPass>>

(* resolve_tenant, for a host name without its port. *)
resolve_tenant(n) == byHostname[Lower[n]]

(* The process stops and the cache with it. *)
Restart ==
    /\ loaded' = FALSE /\ byId' = Nobody /\ byHostname' = Nowhere
    /\ served' = NoneSeen
    /\ reading' = FALSE /\ todo' = {}
    /\ draftId' = Nobody /\ draftHostname' = Nowhere
    /\ UNCHANGED <<disk, listed, saw, kitPass>>

-----------------------------------------------------------------------------
(* load_tenants of the test kit: no cache, no checks beyond the keys, *)
(* and the id stays what YAML made of it.                                  *)

KitLoad ==
    /\ ~ kitReading
    /\ kitReading' = TRUE /\ kitTodo' = Present
    /\ kitDraft' = KitEmpty /\ kit' = KitEmpty /\ kitSaw' = NoneSeen
    /\ UNCHANGED <<disk, cache, pass>>

Readable(d) == d # NoFile /\ d.hostname # NoHost

(* Fault: the test kit keeps host names as written. *)
KitReadAsWritten(f) ==
    LET d == disk[f] IN
    /\ kitReading /\ IsNext(f, kitTodo)
    /\ kitSaw' = [kitSaw EXCEPT ![f] = d]
    /\ Readable(d)
    /\ kitDraft' = [kitDraft EXCEPT ![d.id] = d.hostname]
    /\ kitTodo' = kitTodo \ {f}
    /\ UNCHANGED <<disk, cache, pass, kit, kitReading>>

(* A missing key, or a file gone since the listing, ends the pass. *)
KitRead(f) ==
    LET d == disk[f] IN
    /\ kitReading /\ IsNext(f, kitTodo)
    /\ \/ /\ Readable(d)
          /\ kitSaw' = [kitSaw EXCEPT ![f] = d]
          /\ kitDraft' = [kitDraft EXCEPT ![d.id] = Lower[d.hostname]]
          /\ kitTodo' = kitTodo \ {f}
          /\ UNCHANGED kitReading
       \/ /\ ~ Readable(d)
          /\ kitReading' = FALSE /\ kitTodo' = {}
          /\ kitDraft' = KitEmpty /\ kitSaw' = NoneSeen
    /\ UNCHANGED <<disk, cache, pass, kit>>

KitReturn ==
    /\ kitReading /\ kitTodo = {}
    /\ kitReading' = FALSE
    /\ kit' = kitDraft /\ kitDraft' = KitEmpty
    /\ UNCHANGED <<disk, cache, pass, kitTodo, kitSaw>>

-----------------------------------------------------------------------------

LoadStep ==
    \/ \E force \in BOOLEAN : Load(force)
    \/ \E f \in Files : RefuseFile(f) \/ AcceptFile(f)
    \/ Publish

KitStep == KitLoad \/ KitReturn \/ \E f \in Files : KitRead(f)

Next ==
    \/ \E f \in Files, d \in Docs \cup {NoFile} : Edit(f, d)
    \/ LoadStep
    \/ Restart
    \/ KitStep

Spec == Init /\ [][Next]_vars

-----------------------------------------------------------------------------
(* Properties *)

TypeOK ==
    /\ disk \in [Files -> Docs \cup {NoFile}]
    /\ loaded \in BOOLEAN /\ reading \in BOOLEAN
    /\ byId \in [Files -> Hostnames \cup {NoHost}]
    /\ draftId \in [Files -> Hostnames \cup {NoHost}]
    /\ byHostname \in [Hostnames -> Files \cup {NoTenant}]
    /\ draftHostname \in [Hostnames -> Files \cup {NoTenant}]
    /\ todo \subseteq Files /\ listed \subseteq Files
    /\ kitReading \in BOOLEAN /\ kitTodo \subseteq Files
    /\ kitDraft \in [RawIds -> Hostnames \cup {NoHost}]
    /\ kit \in [RawIds -> Hostnames \cup {NoHost}]
    /\ saw \in [Files -> Docs \cup {NoFile}]
    /\ served \in [Files -> Docs \cup {NoFile}]
    /\ kitSaw \in [Files -> Docs \cup {NoFile}]

(* tenants.py:154-156.  An address leads to a tenant exactly if, in lower  *)
(* case, it is that tenant's host name: no two tenants share one, and      *)
(* every tenant is reachable however its address is spelled.               *)
RoutingIsUnambiguous ==
    \A n \in Hostnames, f \in Files : resolve_tenant(n) = f <=> byId[f] = Lower[n]

(* tenants.py:165.  The cache changes from one complete pass over a        *)
(* listing to the next: a forced reload that meets a bad file leaves both  *)
(* maps as they were.                                                      *)
ReloadIsAllOrNothing ==
    [][loaded' /\ <<byId, byHostname>>' # <<byId, byHostname>> =>
        {f \in Files : byId'[f] # NoHost} = listed]_vars

(* tenants.py:24-28.  A service comes up only on files each of which was   *)
(* valid when it was read, with host names that differ, and knows every    *)
(* tenant of its listing; whatever becomes of the directory meanwhile.     *)
BootsOnValidFiles ==
    [][~ loaded /\ loaded' => \A f, g \in listed :
        /\ Parses(f, saw[f]) /\ byId'[f] = Lower[saw[f].hostname]
        /\ Lower[saw[f].hostname] = Lower[saw[g].hostname] => f = g]_vars

(* tenants.py:14-16.  Of the files the service has accepted, the test kit, *)
(* which checks none of this, finds each tenant once, at its host name,    *)
(* and nothing else; str of the kit's id is the service's.                 *)
KitFindsTheTenants ==
    loaded /\ ~ kitReading /\ kitSaw = served =>
        /\ \A x \in RawIds : kit[x] # NoHost => byId[Str[x]] = kit[x]
        /\ \A f \in Files : byId[f] # NoHost =>
                \E x \in RawIds : \A y \in RawIds :
                    kit[y] # NoHost /\ Str[y] = f <=> y = x
=============================================================================
