------------------------- MODULE TopologyCacheProofs -------------------------
(***************************************************************************)
(* Safety of the topology cache for any routers, configurations, jobs,     *)
(* edits, time to live and clock bound.                                    *)
(***************************************************************************)
EXTENDS TopologyCache, TLAPS

-----------------------------------------------------------------------------
(* The inductive invariant.                                                *)

OltStages == {"connect", "credentials", "lookup"}

\* Only a job to an OLT awaits getTopology for itself, and it has a host by then.
Stages ==
    /\ \A p \in Procs : pc[p] \in {"sector"} \cup OltStages => p \in OltJobs
    /\ \A j \in OltJobs : pc[j] \in OltStages => conn[j] # Null

\* Nothing is dated in the future.
Dated ==
    /\ lastCacheUpdate <= now
    /\ \A p \in Procs : load[p] # Null => load[p].since <= now

Read(p) == load[p] # Null /\ load[p].data # Null

\* What was read since a date misses no write before that date.
LoadsAreRecent ==
    \A p \in Procs, n \in Names :
        Read(p) /\ wroteAt[n] < load[p].since => load[p].data[n] = db[n]
CacheIsRecent ==
    \A n \in Names : cachedTopology # Null /\ wroteAt[n] < lastCacheUpdate => Current(n)

\* What was read after the last invalidation is what is stored.
LoadsShow == \A p \in Procs : Read(p) /\ ~load[p].outrun /\ unannounced = {} => load[p].data = db

\* Topology and credentials are of the same configurations.
CacheIsOfAPiece ==
    \A n \in Names :
        cachedTopology # Null /\ cachedTopology[n] # Null /\ cachedRouterCredentials[n] # Null =>
            [host |-> cachedTopology[n], secret |-> cachedRouterCredentials[n]] \in Configs

DataInv ==
    /\ Dated
    /\ LoadsAreRecent
    /\ CacheIsRecent
    /\ LoadsShow
    /\ EditsShowUnlessOutrun
    /\ CacheIsOfAPiece

TopologyInv == TypeOK /\ Stages /\ DataInv /\ SecretsBelongToTheirHost

-----------------------------------------------------------------------------
(* What the helpers return.                                                *)

LEMMA ProjectionTypes ==
    ASSUME NEW t \in Tables
    PROVE  /\ HostsOf(t) \in Hostnames
           /\ SecretsOf(t) \in [Names -> Secrets \cup {Null}]
           /\ HostsOf(t) # Null
           /\ \A n \in Names : HostsOf(t)[n] # Null =>
                 [host |-> HostsOf(t)[n], secret |-> SecretsOf(t)[n]] \in Configs
<1>1. \A n \in Names : t[n] # Null =>
         /\ t[n] \in Configs /\ t[n].host \in Hosts /\ t[n].secret \in Secrets
         /\ [host |-> t[n].host, secret |-> t[n].secret] = t[n]
  BY TopologyAssumption DEF Tables
<1>2. HostsOf(t) \in Hostnames
  BY <1>1 DEF HostsOf, Hostnames
<1>3. SecretsOf(t) \in [Names -> Secrets \cup {Null}]
  BY <1>1 DEF SecretsOf
<1>4. \A n \in Names : HostsOf(t)[n] # Null =>
         [host |-> HostsOf(t)[n], secret |-> SecretsOf(t)[n]] \in Configs
  BY <1>1 DEF HostsOf, SecretsOf
<1>5. QED BY <1>2, <1>3, <1>4, TopologyAssumption

LEMMA QueryType == TypeOK => Query \in Loads /\ Query.data = Null /\ Query.since = now
  BY DEF TypeOK, Query, Loads

-----------------------------------------------------------------------------
(* The requests: types and stages.                                         *)

RequestInv == TypeOK /\ Stages

\* Where a process goes, with its host or without, and what load it keeps.
LEMMA GotoKeeps ==
    ASSUME RequestInv, NEW p \in Procs, NEW l \in {"idle", "done"} \cup Pending, Goto(p, l),
           l \notin {"sector"} \cup OltStages \/ p \in OltJobs
    PROVE  /\ pc' \in [Procs -> {"idle", "done"} \cup Pending]
           /\ \A q \in Procs : pc'[q] \in {"sector"} \cup OltStages => q \in OltJobs
  BY DEF RequestInv, TypeOK, Stages, Goto

LEMMA JobsAreProcs == OltJobs \subseteq Jobs /\ RouterJobs \subseteq Jobs /\ Jobs \subseteq Procs
                      /\ Edits \subseteq Procs /\ Boot \in Procs
  BY DEF Jobs, Procs

\* Whoever gets a topology resolves its sector, or is told there is none.
LEMMA ResolveKeeps ==
    ASSUME RequestInv, NEW j \in OltJobs, NEW topology \in Hostnames, NEW known,
           known = Null \/ known \in Hostnames, Resolve(j, topology, known)
    PROVE  /\ pc' \in [Procs -> {"idle", "done"} \cup Pending]
           /\ conn' \in [Jobs -> [host : Hosts, secret : Secrets \cup {Null}] \cup {Null}]
           /\ load' \in [Procs -> Loads \cup {Null}]
           /\ Stages'
           /\ \A p \in Procs : load'[p] \in {load[p], Null, Query}
           /\ \A i \in Jobs : conn'[i] # conn[i] => conn'[i].secret = Null
<1> DEFINE n == SectorOf[j]
           host == IF topology[n] # Null THEN topology[n]
                   ELSE IF Static[n] # Null THEN Static[n] ELSE Proxy(n, known)
<1>1. j \in Procs /\ j \in Jobs /\ n \in Names
  BY JobsAreProcs, TopologyAssumption
<1>2. host \in Hosts \cup {Null}
  BY <1>1, TopologyAssumption DEF Hostnames, Proxy
<1> HIDE DEF host
<1>3. load' \in [Procs -> Loads \cup {Null}] /\ \A p \in Procs : load'[p] \in {load[p], Null, Query}
  <2>1. \E l \in {Null, Query} : load' = [load EXCEPT ![j] = l]
    BY DEF Resolve
  <2>2. QED BY <1>1, <2>1, QueryType DEF RequestInv, TypeOK
<1>4. \E l \in {"connect", "done"} : Goto(j, l)
  BY DEF Resolve
<1>5. PICK l \in {"connect", "done"} : Goto(j, l)
  BY <1>4
<1>6. /\ pc' \in [Procs -> {"idle", "done"} \cup Pending]
      /\ \A q \in Procs : pc'[q] \in {"sector"} \cup OltStages => q \in OltJobs
  BY <1>1, <1>5, GotoKeeps DEF Pending
<1>7. CASE host # Null /\ conn' = [conn EXCEPT ![j] = [host |-> host, secret |-> Null]]
  <2>1. [host |-> host, secret |-> Null] \in [host : Hosts, secret : Secrets \cup {Null}]
    BY <1>2, <1>7
  <2>2. [host |-> host, secret |-> Null] # Null
    BY <2>1, LoadsAssumption
  <2>3. \A i \in Jobs : conn'[i] = IF i = j THEN [host |-> host, secret |-> Null] ELSE conn[i]
    BY <1>1, <1>7 DEF RequestInv, TypeOK
  <2>4. conn' \in [Jobs -> [host : Hosts, secret : Secrets \cup {Null}] \cup {Null}]
    BY <1>7, <2>1 DEF RequestInv, TypeOK
  <2>5. \A i \in OltJobs : pc'[i] \in OltStages => conn'[i] # Null
    BY <1>5, <2>2, <2>3, JobsAreProcs DEF RequestInv, TypeOK, Stages, Goto
  <2>6. QED BY <1>3, <1>6, <2>3, <2>4, <2>5 DEF Stages
<1>8. CASE Goto(j, "done") /\ conn' = conn
  <2>1. \A i \in OltJobs : pc'[i] \in OltStages => conn'[i] # Null
    BY <1>8, JobsAreProcs DEF RequestInv, TypeOK, Stages, Goto, OltStages
  <2>2. QED BY <1>3, <1>6, <1>8, <2>1 DEF RequestInv, TypeOK, Stages
<1>9. QED BY <1>7, <1>8 DEF Resolve, host

LEMMA ResumeKeeps ==
    ASSUME RequestInv, NEW p \in Procs, NEW topology \in Hostnames, NEW known,
           known = Null \/ known \in Hostnames, Resume(p, topology, known)
    PROVE  /\ pc' \in [Procs -> {"idle", "done"} \cup Pending]
           /\ conn' \in [Jobs -> [host : Hosts, secret : Secrets \cup {Null}] \cup {Null}]
           /\ load' \in [Procs -> Loads \cup {Null}]
           /\ Stages'
           /\ \A q \in Procs : load'[q] \in {load[q], Null, Query}
           /\ \A i \in Jobs : conn'[i] # conn[i] => conn'[i].secret = Null
<1>1. CASE pc[p] = "sector" /\ Resolve(p, topology, known)
  <2>1. p \in OltJobs
    BY <1>1 DEF RequestInv, Stages
  <2>2. QED BY <1>1, <2>1, ResolveKeeps
<1>2. CASE /\ pc[p] \in {"credentials", "boot", "done"}
           /\ pc' = [pc EXCEPT ![p] = IF @ = "credentials" THEN "lookup" ELSE "done"]
           /\ load' = [load EXCEPT ![p] = Null]
           /\ UNCHANGED conn
  <2>1. \A q \in Procs : pc'[q] = IF q # p THEN pc[q]
                                  ELSE IF pc[p] = "credentials" THEN "lookup" ELSE "done"
    BY <1>2 DEF RequestInv, TypeOK
  <2>2. Stages'
    BY <1>2, <2>1, JobsAreProcs DEF RequestInv, Stages, OltStages
  <2>3. QED BY <1>2, <2>2 DEF RequestInv, TypeOK, Pending
<1>3. QED BY <1>1, <1>2 DEF Resume

\* What the three ends of a load hand to whoever awaited it.
LEMMA LoadEndsKeeps ==
    ASSUME RequestInv, NEW p \in Procs, LoadFills(p) \/ LoadFindsNone(p) \/ LoadFails(p)
    PROVE  /\ RequestInv'
           /\ \A q \in Procs : load'[q] \in {load[q], Null, Query}
           /\ \A i \in Jobs : conn'[i] # conn[i] => conn'[i].secret = Null
<1>1. CASE LoadFills(p)
  <2>1. load[p].data \in Tables /\ load[p].since \in 0 .. MaxTime /\ load[p].outrun \in BOOLEAN
    BY <1>1 DEF LoadFills, RequestInv, TypeOK, Loads
  <2>2. /\ HostsOf(load[p].data) \in Hostnames
        /\ SecretsOf(load[p].data) \in [Names -> Secrets \cup {Null}]
    BY <2>1, ProjectionTypes
  <2>3. Resume(p, HostsOf(load[p].data), HostsOf(load[p].data))
    BY <1>1 DEF LoadFills
  <2>4. QED BY <1>1, <2>1, <2>2, <2>3, ResumeKeeps DEF LoadFills, RequestInv, TypeOK
<1>2. CASE LoadFindsNone(p)
  <2>1. Resume(p, Static, cachedTopology) /\ Static \in Hostnames
    BY <1>2, TopologyAssumption DEF LoadFindsNone
  <2>2. cachedTopology = Null \/ cachedTopology \in Hostnames
    BY DEF RequestInv, TypeOK
  <2>3. QED BY <1>2, <2>1, <2>2, ResumeKeeps DEF LoadFindsNone, RequestInv, TypeOK, cache
<1>3. CASE LoadFails(p)
  <2>1. PICK topology \in Hostnames : Resume(p, topology, cachedTopology)
    BY <1>3, TopologyAssumption DEF LoadFails, RequestInv, TypeOK
  <2>2. cachedTopology = Null \/ cachedTopology \in Hostnames
    BY DEF RequestInv, TypeOK
  <2>3. QED BY <1>3, <2>1, <2>2, ResumeKeeps DEF LoadFails, RequestInv, TypeOK, cache
<1>4. QED BY <1>1, <1>2, <1>3

LEMMA AskSectorKeeps ==
    ASSUME RequestInv, NEW j \in OltJobs, AskSector(j)
    PROVE  /\ RequestInv'
           /\ \A q \in Procs : load'[q] \in {load[q], Null, Query}
           /\ \A i \in Jobs : conn'[i] # conn[i] => conn'[i].secret = Null
<1>1. CASE Hit /\ Resolve(j, cachedTopology, cachedTopology)
  <2>1. cachedTopology \in Hostnames
    BY <1>1 DEF Hit, RequestInv, TypeOK
  <2>2. QED BY <1>1, <2>1, ResolveKeeps DEF AskSector, RequestInv, TypeOK, cache
<1>2. CASE load' = [load EXCEPT ![j] = Query] /\ Goto(j, "sector") /\ UNCHANGED conn
  <2>1. j \in Procs
    BY JobsAreProcs
  <2>2. /\ pc' \in [Procs -> {"idle", "done"} \cup Pending]
        /\ \A q \in Procs : pc'[q] \in {"sector"} \cup OltStages => q \in OltJobs
    BY <1>2, <2>1, GotoKeeps DEF Pending
  <2>3. \A i \in OltJobs : pc'[i] \in OltStages => conn'[i] # Null
    BY <1>2, JobsAreProcs DEF Goto, RequestInv, Stages, TypeOK, OltStages
  <2>4. load' \in [Procs -> Loads \cup {Null}]
    BY <1>2, <2>1, QueryType DEF RequestInv, TypeOK
  <2>5. QED BY <1>2, <2>1, <2>2, <2>3, <2>4 DEF AskSector, RequestInv, TypeOK, Stages, cache
<1>3. QED BY <1>1, <1>2 DEF AskSector

LEMMA AskCredentialsKeeps ==
    ASSUME RequestInv, NEW j \in OltJobs, AskCredentials(j)
    PROVE  RequestInv' /\ \A q \in Procs : load'[q] \in {load[q], Null, Query}
<1>1. j \in Procs
  BY JobsAreProcs
<1>2. PICK l \in {"lookup", "credentials"} :
         Goto(j, l) /\ (load' = load \/ load' = [load EXCEPT ![j] = Query])
  BY DEF AskCredentials
<1>3. load' \in [Procs -> Loads \cup {Null}] /\ \A q \in Procs : load'[q] \in {load[q], Null, Query}
  BY <1>1, <1>2, QueryType DEF RequestInv, TypeOK
<1>4. /\ pc' \in [Procs -> {"idle", "done"} \cup Pending]
      /\ \A q \in Procs : pc'[q] \in {"sector"} \cup OltStages => q \in OltJobs
  BY <1>1, <1>2, GotoKeeps DEF Pending
<1>5. pc[j] \in OltStages /\ conn' = conn
  BY DEF AskCredentials, OltStages
<1>6. \A i \in OltJobs : pc'[i] \in OltStages => conn'[i] # Null
  BY <1>2, <1>5, JobsAreProcs DEF Goto, RequestInv, Stages, TypeOK
<1>7. QED BY <1>3, <1>4, <1>5, <1>6 DEF AskCredentials, RequestInv, TypeOK, Stages, cache

\* The secret a job settles on.
LEMMA LookupKeeps ==
    ASSUME RequestInv, CacheIsOfAPiece, NEW j \in OltJobs, CredentialsByHost(j)
    PROVE  /\ RequestInv'
           /\ \A i \in Jobs : conn'[i] # conn[i] =>
                 conn'[i].secret = StaticSecret \/ conn'[i] \in Configs
<1>1. j \in Procs /\ j \in Jobs /\ conn[j] # Null
  BY JobsAreProcs DEF CredentialsByHost, RequestInv, Stages, OltStages
<1>2. conn[j].host \in Hosts /\ conn[j] \in [host : Hosts, secret : Secrets \cup {Null}]
  BY <1>1 DEF RequestInv, TypeOK
<1>3. PICK s \in Secrets :
         /\ conn' = [conn EXCEPT ![j].secret = s]
         /\ s = StaticSecret \/ [host |-> conn[j].host, secret |-> s] \in Configs
  <2>1. CASE Lenders(conn[j].host) = {}
    BY <2>1, TopologyAssumption DEF CredentialsByHost
  <2>2. CASE Lenders(conn[j].host) # {}
    <3>1. PICK n \in Lenders(conn[j].host) :
             conn' = [conn EXCEPT ![j].secret = cachedRouterCredentials[n]]
      BY <2>2 DEF CredentialsByHost
    <3>2. /\ n \in Names /\ cachedTopology # Null /\ cachedTopology[n] = conn[j].host
          /\ cachedRouterCredentials[n] \in Secrets
      BY <3>1 DEF Lenders, RequestInv, TypeOK
    <3>3. cachedTopology[n] # Null /\ cachedRouterCredentials[n] # Null
      BY <1>2, <3>2, TopologyAssumption
    <3>4. [host |-> conn[j].host, secret |-> cachedRouterCredentials[n]] \in Configs
      BY <3>2, <3>3 DEF CacheIsOfAPiece
    <3>5. QED BY <3>1, <3>2, <3>4
  <2>3. QED BY <2>1, <2>2
<1>4. [conn[j] EXCEPT !.secret = s] = [host |-> conn[j].host, secret |-> s]
  BY <1>2
<1>5. \A i \in Jobs : conn'[i] = IF i = j THEN [host |-> conn[j].host, secret |-> s] ELSE conn[i]
  BY <1>1, <1>3, <1>4 DEF RequestInv, TypeOK
<1>6. conn' \in [Jobs -> [host : Hosts, secret : Secrets \cup {Null}] \cup {Null}]
  BY <1>1, <1>2, <1>3, <1>4 DEF RequestInv, TypeOK
<1>7. /\ pc' \in [Procs -> {"idle", "done"} \cup Pending]
      /\ \A q \in Procs : pc'[q] \in {"sector"} \cup OltStages => q \in OltJobs
  BY <1>1, GotoKeeps DEF CredentialsByHost, Pending
<1>8. \A i \in OltJobs : pc'[i] \in OltStages => conn'[i] # Null
  <2>1. \A i \in OltJobs : i # j => pc'[i] = pc[i]
    BY JobsAreProcs DEF CredentialsByHost, Goto, RequestInv, TypeOK
  <2>2. [host |-> conn[j].host, secret |-> s] # Null
    BY <1>2, LoadsAssumption
  <2>3. QED BY <1>5, <2>1, <2>2, JobsAreProcs DEF RequestInv, Stages
<1>9. RequestInv'
  BY <1>6, <1>7, <1>8 DEF CredentialsByHost, RequestInv, TypeOK, Stages, cache
<1>10. QED BY <1>3, <1>5, <1>9

LEMMA CreateSshSessionKeeps ==
    ASSUME RequestInv, NEW j \in RouterJobs, CreateSshSession(j)
    PROVE  /\ RequestInv'
           /\ \A q \in Procs : load'[q] \in {load[q], Null, Query}
           /\ \A i \in Jobs : conn'[i] # conn[i] => conn'[i] = Null \/ conn'[i].secret = StaticSecret
<1>1. j \in Procs /\ j \in Jobs /\ j \notin OltJobs /\ SectorOf[j] \in Names
  BY JobsAreProcs, ProcsAssumption, TopologyAssumption
<1>2. PICK c : /\ conn' = [conn EXCEPT ![j] = c]
               /\ c = Null \/ \E h \in Hosts : c = [host |-> h, secret |-> StaticSecret]
  BY <1>1, TopologyAssumption DEF CreateSshSession, Proxy, Hostnames, RequestInv, TypeOK
<1>3. conn' \in [Jobs -> [host : Hosts, secret : Secrets \cup {Null}] \cup {Null}]
  BY <1>1, <1>2, TopologyAssumption DEF RequestInv, TypeOK
<1>4. \A i \in Jobs : conn'[i] = IF i = j THEN c ELSE conn[i]
  BY <1>1, <1>2 DEF RequestInv, TypeOK
<1>5. load' \in [Procs -> Loads \cup {Null}] /\ \A q \in Procs : load'[q] \in {load[q], Null, Query}
  BY <1>1, QueryType DEF CreateSshSession, RequestInv, TypeOK
<1>6. /\ pc' \in [Procs -> {"idle", "done"} \cup Pending]
      /\ \A q \in Procs : pc'[q] \in {"sector"} \cup OltStages => q \in OltJobs
  BY <1>1, GotoKeeps DEF CreateSshSession, Pending, OltStages
<1>7. \A i \in OltJobs : pc'[i] \in OltStages => conn'[i] # Null
  BY <1>1, <1>4, JobsAreProcs DEF CreateSshSession, Goto, RequestInv, Stages, TypeOK
<1>8. QED BY <1>2, <1>3, <1>4, <1>5, <1>6, <1>7 DEF CreateSshSession, RequestInv, TypeOK, Stages, cache

\* An edit, the clock and a restart leave what the jobs have settled on alone.
LEMMA EditKeeps ==
    ASSUME RequestInv, NEW w \in Edits, EditArrives(w) \/ EditStep(w)
    PROVE  RequestInv' /\ conn' = conn
<1>1. w \in Procs /\ \A j \in OltJobs : j # w
  BY JobsAreProcs, ProcsAssumption
<1>2. PICK l \in {"write", "done", "committed"} : Goto(w, l)
  BY DEF EditArrives, EditStep, EditRefused, EditCommits, EditInvalidates, EditAnswerLost
<1>3. /\ pc' \in [Procs -> {"idle", "done"} \cup Pending]
      /\ \A q \in Procs : pc'[q] \in {"sector"} \cup OltStages => q \in OltJobs
  BY <1>1, <1>2, GotoKeeps DEF Pending, OltStages
<1>4. conn' = conn
  BY DEF EditArrives, EditStep, EditRefused, EditCommits, EditInvalidates, EditAnswerLost
<1>5. Stages'
  BY <1>1, <1>2, <1>3, <1>4, JobsAreProcs DEF Goto, RequestInv, Stages, TypeOK
<1>6. CASE EditArrives(w) \/ EditRefused(w) \/ EditAnswerLost(w)
  BY <1>3, <1>4, <1>5, <1>6 DEF EditArrives, EditRefused, EditAnswerLost, RequestInv, TypeOK, cache
<1>7. CASE \E n \in Names, c \in Configs \cup {Null} : EditCommits(w, n, c)
  <2>1. PICK n \in Names, c \in Configs \cup {Null} : EditCommits(w, n, c)
    BY <1>7
  <2>2. db' \in Tables
    BY <2>1 DEF EditCommits, RequestInv, TypeOK, Tables
  <2>3. wroteAt' \in [Names -> -1 .. MaxTime]
    BY <2>1, TopologyAssumption DEF EditCommits, RequestInv, TypeOK
  <2>4. QED BY <1>3, <1>4, <1>5, <2>1, <2>2, <2>3 DEF EditCommits, RequestInv, TypeOK, cache
<1>8. CASE EditInvalidates(w)
  <2>1. load' \in [Procs -> Loads \cup {Null}]
    <3>1. \A p \in Procs : load[p] # Null => [load[p] EXCEPT !.outrun = TRUE] \in Loads
      BY DEF RequestInv, TypeOK, Loads
    <3>2. QED BY <1>8, <3>1, QueryType DEF EditInvalidates, RequestInv, TypeOK
  <2>2. NoSecrets \in [Names -> Secrets \cup {Null}] /\ 0 \in 0 .. MaxTime
    BY TopologyAssumption DEF NoSecrets
  <2>3. QED BY <1>3, <1>4, <1>5, <1>8, <2>1, <2>2 DEF EditInvalidates, RequestInv, TypeOK
<1>9. QED BY <1>4, <1>6, <1>7, <1>8 DEF EditStep

LEMMA TickKeeps == ASSUME RequestInv, Tick PROVE RequestInv' /\ conn' = conn /\ load' = load
  BY TopologyAssumption DEF Tick, RequestInv, TypeOK, Stages, cache

LEMMA RestartKeeps ==
    ASSUME RequestInv, Restart
    PROVE  /\ RequestInv' /\ conn' = conn
           /\ \A p \in Procs : load'[p] \in {Null, Query}
<1>1. pc' \in [Procs -> {"idle", "done"} \cup Pending]
  BY DEF Restart, Pending
<1>2. \A p \in Procs : pc'[p] \in {"boot", "idle", "done"}
  BY DEF Restart
<1>3. load' \in [Procs -> Loads \cup {Null}] /\ \A p \in Procs : load'[p] \in {Null, Query}
  BY QueryType DEF Restart, RequestInv
<1>4. NoSecrets \in [Names -> Secrets \cup {Null}] /\ 0 \in 0 .. MaxTime
  BY TopologyAssumption DEF NoSecrets
<1>5. Stages'
  BY <1>2, JobsAreProcs DEF Stages, OltStages
<1>6. QED BY <1>1, <1>3, <1>4, <1>5 DEF Restart, RequestInv, TypeOK

LEMMA ReadsKeeps ==
    ASSUME RequestInv, NEW p \in Procs, DatabaseReads(p)
    PROVE  /\ RequestInv' /\ conn' = conn
           /\ \A q \in Procs : load'[q] = IF q = p THEN [load[p] EXCEPT !.data = db] ELSE load[q]
<1>1. [load[p] EXCEPT !.data = db] \in Loads
  BY DEF DatabaseReads, RequestInv, TypeOK, Loads
<1>2. load' \in [Procs -> Loads \cup {Null}]
  BY <1>1 DEF DatabaseReads, RequestInv, TypeOK
<1>3. QED BY <1>2 DEF DatabaseReads, RequestInv, TypeOK, Stages, cache

-----------------------------------------------------------------------------
(* The data: cache and loads against the database.                         *)

\* Steps that only drop loads and begin new ones.
LEMMA QuietSteps ==
    ASSUME TypeOK, DataInv, UNCHANGED <<db, cache, now, wroteAt, unannounced, behind>>,
           \A q \in Procs : load'[q] \in {load[q], Null, Query}
    PROVE  DataInv'
<1>1. \A q \in Procs : /\ load'[q] # Null => load'[q].since <= now
                       /\ Read(q)' => load'[q] = load[q] /\ Read(q)
  BY QueryType DEF TypeOK, DataInv, Dated, Read
<1>2. Dated' /\ LoadsAreRecent' /\ LoadsShow'
  BY <1>1 DEF DataInv, Dated, LoadsAreRecent, LoadsShow, cache
<1>3. CacheIsRecent' /\ EditsShowUnlessOutrun' /\ CacheIsOfAPiece'
  BY DEF DataInv, CacheIsRecent, EditsShowUnlessOutrun, CacheIsOfAPiece, Current, cache
<1>4. QED BY <1>2, <1>3 DEF DataInv

LEMMA FillsKeepData ==
    ASSUME TypeOK, DataInv, NEW p \in Procs, LoadFills(p),
           \A q \in Procs : load'[q] \in {load[q], Null, Query}
    PROVE  DataInv'
<1>1. \A q \in Procs : /\ load'[q] # Null => load'[q].since <= now
                       /\ Read(q)' => load'[q] = load[q] /\ Read(q)
  BY QueryType DEF TypeOK, DataInv, Dated, Read
<1>2. /\ Read(p) /\ load[p].data \in Tables
      /\ cachedTopology' = HostsOf(load[p].data)
      /\ cachedRouterCredentials' = SecretsOf(load[p].data)
      /\ lastCacheUpdate' = load[p].since /\ behind' = load[p].outrun
      /\ UNCHANGED <<db, now, wroteAt, unannounced>>
  BY DEF LoadFills, Read, TypeOK, Loads
<1>3. Dated' /\ LoadsAreRecent' /\ LoadsShow'
  BY <1>1, <1>2 DEF DataInv, Dated, LoadsAreRecent, LoadsShow, Read
<1>4. \A n \in Names : load[p].data[n] = db[n] => Current(n)'
  BY <1>2 DEF Current, HostsOf, SecretsOf
<1>5. CacheIsRecent'
  BY <1>2, <1>4 DEF DataInv, LoadsAreRecent, CacheIsRecent
<1>6. EditsShowUnlessOutrun'
  BY <1>2, <1>4 DEF DataInv, LoadsShow, EditsShowUnlessOutrun
<1>7. CacheIsOfAPiece'
  BY <1>2, ProjectionTypes DEF CacheIsOfAPiece
<1>8. QED BY <1>3, <1>5, <1>6, <1>7 DEF DataInv

LEMMA ReadsKeepData ==
    ASSUME TypeOK, DataInv, NEW p \in Procs, DatabaseReads(p),
           \A q \in Procs : load'[q] = IF q = p THEN [load[p] EXCEPT !.data = db] ELSE load[q]
    PROVE  DataInv'
<1>1. /\ load[p] \in Loads /\ load'[p].data = db
      /\ load'[p].since = load[p].since /\ load'[p].outrun = load[p].outrun
  BY DEF DatabaseReads, TypeOK, Loads
<1>2. UNCHANGED <<db, cachedTopology, cachedRouterCredentials, lastCacheUpdate, now, wroteAt,
                  unannounced, behind>>
  BY DEF DatabaseReads, cache
<1>3. Dated'
  BY <1>1, <1>2 DEF DatabaseReads, DataInv, Dated
<1>4. LoadsAreRecent' /\ LoadsShow'
  BY <1>1, <1>2 DEF DataInv, LoadsAreRecent, LoadsShow, Read
<1>5. CacheIsRecent' /\ EditsShowUnlessOutrun' /\ CacheIsOfAPiece'
  BY <1>2 DEF DataInv, CacheIsRecent, EditsShowUnlessOutrun, CacheIsOfAPiece, Current
<1>6. QED BY <1>3, <1>4, <1>5 DEF DataInv

LEMMA CommitKeepsData ==
    ASSUME TypeOK, DataInv, NEW w \in Edits, NEW n \in Names, NEW c, EditCommits(w, n, c)
    PROVE  DataInv'
<1>1. /\ \A m \in Names : m # n => db'[m] = db[m] /\ wroteAt'[m] = wroteAt[m]
      /\ wroteAt'[n] = now /\ unannounced' # {}
      /\ UNCHANGED <<cachedTopology, cachedRouterCredentials, lastCacheUpdate, now, load, behind>>
  BY DEF EditCommits, TypeOK, Tables, cache
<1>2. /\ lastCacheUpdate \in Int /\ now \in Int
      /\ \A p \in Procs : load[p] # Null => load[p].since \in Int
  BY DEF TypeOK, Loads
<1>3. Dated' /\ LoadsShow' /\ EditsShowUnlessOutrun' /\ CacheIsOfAPiece'
  BY <1>1 DEF DataInv, Dated, LoadsShow, EditsShowUnlessOutrun, CacheIsOfAPiece
<1>4. LoadsAreRecent'
  BY <1>1, <1>2 DEF DataInv, Dated, LoadsAreRecent, Read
<1>5. \A m \in Names : m # n => Current(m)' = Current(m)
  BY <1>1 DEF Current, HostsOf, SecretsOf
<1>6. CacheIsRecent'
  BY <1>1, <1>2, <1>5 DEF DataInv, Dated, CacheIsRecent
<1>7. QED BY <1>3, <1>4, <1>6 DEF DataInv

\* Without a cache only the loads in flight matter.
LEMMA EmptyCache ==
    ASSUME cachedTopology' = Null, Dated', LoadsAreRecent', LoadsShow'
    PROVE  DataInv'
  BY DEF DataInv, CacheIsRecent, EditsShowUnlessOutrun, CacheIsOfAPiece

LEMMA InvalidateKeepsData ==
    ASSUME TypeOK, DataInv, NEW w \in Edits, EditInvalidates(w)
    PROVE  DataInv'
<1>1. /\ cachedTopology' = Null /\ lastCacheUpdate' = 0
      /\ UNCHANGED <<db, now, wroteAt>> /\ 0 <= now
  BY DEF EditInvalidates, TypeOK
<1>2. ASSUME NEW p \in Procs, load'[p] # Null
      PROVE  /\ load'[p].since <= now
             /\ Read(p)' => /\ load'[p].outrun = TRUE /\ Read(p)
                            /\ load'[p].since = load[p].since /\ load'[p].data = load[p].data
  <2>1. CASE p = w
    BY <1>2, <2>1, QueryType DEF EditInvalidates, Read, TypeOK
  <2>2. CASE p # w /\ Read(p)
    <3>1. load[p] \in Loads /\ load'[p] = [load[p] EXCEPT !.outrun = TRUE]
      BY <2>2 DEF EditInvalidates, Read, TypeOK
    <3>2. QED BY <2>2, <3>1 DEF DataInv, Dated, Read, Loads
  <2>3. CASE p # w /\ ~Read(p)
    BY <1>2, <2>3 DEF EditInvalidates, Read, DataInv, Dated
  <2>4. QED BY <2>1, <2>2, <2>3
<1>3. Dated'
  BY <1>1, <1>2 DEF Dated
<1>4. LoadsAreRecent' /\ LoadsShow'
  BY <1>1, <1>2 DEF DataInv, LoadsAreRecent, LoadsShow, Read
<1>5. QED BY <1>1, <1>3, <1>4, EmptyCache

LEMMA TickKeepsData == ASSUME TypeOK, DataInv, Tick PROVE DataInv'
<1>1. UNCHANGED <<db, cachedTopology, cachedRouterCredentials, lastCacheUpdate, load, wroteAt,
                  unannounced, behind>> /\ now' = now + 1
  BY DEF Tick, cache
<1>2. Dated'
  BY <1>1 DEF DataInv, Dated, TypeOK, Loads
<1>3. LoadsAreRecent' /\ LoadsShow' /\ CacheIsRecent' /\ EditsShowUnlessOutrun' /\ CacheIsOfAPiece'
  BY <1>1 DEF DataInv, LoadsAreRecent, LoadsShow, CacheIsRecent, EditsShowUnlessOutrun,
     CacheIsOfAPiece, Current, Read
<1>4. QED BY <1>2, <1>3 DEF DataInv

LEMMA RestartKeepsData ==
    ASSUME TypeOK, Restart, \A p \in Procs : load'[p] \in {Null, Query}
    PROVE  DataInv'
<1>1. /\ cachedTopology' = Null /\ lastCacheUpdate' = 0 /\ now' = now /\ 0 <= now
      /\ \A p \in Procs : load'[p] # Null => load'[p].since = now /\ load'[p].data = Null
  BY QueryType DEF Restart, TypeOK
<1>2. now <= now
  BY DEF TypeOK
<1>3. Dated' /\ LoadsAreRecent' /\ LoadsShow'
  BY <1>1, <1>2 DEF Dated, LoadsAreRecent, LoadsShow, Read
<1>4. QED BY <1>1, <1>3, EmptyCache

-----------------------------------------------------------------------------
(* The invariant holds, and what follows.                                  *)

LEMMA TopologyStarts == Init => TopologyInv
<1> SUFFICES ASSUME Init PROVE TopologyInv
  OBVIOUS
<1>1. NoSecrets \in [Names -> Secrets \cup {Null}] /\ 0 \in 0 .. MaxTime
  BY TopologyAssumption DEF NoSecrets
<1>2. Query \in Loads /\ Query.data = Null /\ Query.since = 0
  BY <1>1 DEF Init, Query, Loads
<1>3. TypeOK
  <2>1. pc \in [Procs -> {"idle", "done"} \cup Pending]
    BY DEF Init, Pending
  <2>2. load \in [Procs -> Loads \cup {Null}]
    BY <1>2 DEF Init
  <2>3. wroteAt \in [Names -> -1 .. MaxTime]
    BY TopologyAssumption DEF Init
  <2>4. QED BY <1>1, <2>1, <2>2, <2>3 DEF Init, TypeOK
<1>4. Stages
  BY JobsAreProcs DEF Init, Stages, OltStages
<1>5. DataInv
  BY <1>2 DEF Init, DataInv, Dated, LoadsAreRecent, CacheIsRecent, LoadsShow,
     EditsShowUnlessOutrun, CacheIsOfAPiece, Read
<1>6. SecretsBelongToTheirHost
  BY DEF Init, SecretsBelongToTheirHost
<1>7. QED BY <1>3, <1>4, <1>5, <1>6 DEF TopologyInv

LEMMA TopologyStep == TopologyInv /\ [Next]_vars => TopologyInv'
<1> SUFFICES ASSUME TopologyInv, [Next]_vars PROVE TopologyInv'
  OBVIOUS
<1>0. RequestInv /\ TypeOK /\ DataInv /\ CacheIsOfAPiece /\ SecretsBelongToTheirHost
  BY DEF TopologyInv, RequestInv, DataInv
\* Where requests and data are in order, so are the secrets.
<1>1. ASSUME RequestInv', DataInv',
             \A i \in Jobs : conn'[i] # conn[i] =>
                conn'[i] = Null \/ conn'[i].secret \in {Null, StaticSecret} \/ conn'[i] \in Configs
      PROVE  TopologyInv'
  <2>1. SecretsBelongToTheirHost'
    BY <1>0, <1>1 DEF SecretsBelongToTheirHost
  <2>2. QED BY <1>1, <2>1 DEF TopologyInv, RequestInv
<1>2. ASSUME NEW p \in Procs, LoadStep(p) PROVE TopologyInv'
  <2>1. CASE DatabaseReads(p)
    BY <1>0, <1>1, <2>1, ReadsKeeps, ReadsKeepData
  <2>2. CASE LoadFills(p)
    BY <1>0, <1>1, <2>2, LoadEndsKeeps, FillsKeepData
  <2>3. CASE LoadFindsNone(p) \/ LoadFails(p)
    <3>1. UNCHANGED <<db, cache, now, wroteAt, unannounced, behind>>
      BY <2>3 DEF LoadFindsNone, LoadFails
    <3>2. QED BY <1>0, <1>1, <2>3, <3>1, LoadEndsKeeps, QuietSteps
  <2>4. QED BY <1>2, <2>1, <2>2, <2>3 DEF LoadStep
<1>3. ASSUME NEW j \in OltJobs, AskSector(j) \/ JobStep(j) PROVE TopologyInv'
  <2>1. UNCHANGED <<db, cache, now, wroteAt, unannounced, behind>>
    BY <1>3 DEF AskSector, JobStep, AskCredentials, CredentialsByHost
  <2>2. CASE AskSector(j)
    BY <1>0, <1>1, <2>1, <2>2, AskSectorKeeps, QuietSteps
  <2>3. CASE AskCredentials(j)
    <3>1. conn' = conn
      BY <2>3 DEF AskCredentials
    <3>2. QED BY <1>0, <1>1, <2>1, <2>3, <3>1, AskCredentialsKeeps, QuietSteps
  <2>4. CASE CredentialsByHost(j)
    <3>1. \A q \in Procs : load'[q] \in {load[q], Null, Query}
      BY <2>4 DEF CredentialsByHost
    <3>2. QED BY <1>0, <1>1, <2>1, <2>4, <3>1, LookupKeeps, QuietSteps
  <2>5. QED BY <1>3, <2>2, <2>3, <2>4 DEF JobStep
<1>4. ASSUME NEW j \in RouterJobs, CreateSshSession(j) PROVE TopologyInv'
  <2>1. UNCHANGED <<db, cache, now, wroteAt, unannounced, behind>>
    BY <1>4 DEF CreateSshSession
  <2>2. QED BY <1>0, <1>1, <1>4, <2>1, CreateSshSessionKeeps, QuietSteps
<1>5. ASSUME NEW w \in Edits, EditArrives(w) \/ EditStep(w) PROVE TopologyInv'
  <2>1. RequestInv' /\ conn' = conn
    BY <1>0, <1>5, EditKeeps
  <2>2. CASE EditArrives(w) \/ EditRefused(w) \/ EditAnswerLost(w)
    <3>1. /\ UNCHANGED <<db, cache, now, wroteAt, unannounced, behind>>
          /\ \A q \in Procs : load'[q] \in {load[q], Null, Query}
      BY <2>2 DEF EditArrives, EditRefused, EditAnswerLost
    <3>2. QED BY <1>0, <1>1, <2>1, <3>1, QuietSteps
  <2>3. CASE \E n \in Names, c \in Configs \cup {Null} : EditCommits(w, n, c)
    BY <1>0, <1>1, <2>1, <2>3, CommitKeepsData
  <2>4. CASE EditInvalidates(w)
    BY <1>0, <1>1, <2>1, <2>4, InvalidateKeepsData
  <2>5. QED BY <1>5, <2>2, <2>3, <2>4 DEF EditStep
<1>6. CASE Tick
  BY <1>0, <1>1, <1>6, TickKeeps, TickKeepsData
<1>7. CASE Restart
  BY <1>0, <1>1, <1>7, RestartKeeps, RestartKeepsData
<1>8. CASE UNCHANGED vars
  <2>1. UNCHANGED <<db, cache, now, pc, load, conn, wroteAt, unannounced, behind>>
    BY <1>8 DEF vars
  <2>2. RequestInv'
    BY <1>0, <2>1 DEF RequestInv, TypeOK, Stages, cache
  <2>3. QED BY <1>0, <1>1, <2>1, <2>2, QuietSteps
<1>9. QED BY <1>2, <1>3, <1>4, <1>5, <1>6, <1>7, <1>8 DEF Next

LEMMA TopologyInvariant == Spec => []TopologyInv
  BY TopologyStarts, TopologyStep, PTL DEF Spec

\* The statics of the service, its loads and its jobs keep their types.
THEOREM TypeCorrect == Spec => []TypeOK
<1>1. TopologyInv => TypeOK
  BY DEF TopologyInv
<1>2. QED BY <1>1, TopologyInvariant, PTL

\* getTopology never answers from a cache that misses a write of TTL ago.
THEOREM AnswersAreRecent == Spec => []HitsAreRecent
<1>1. ASSUME TopologyInv, Hit, NEW n \in Names, wroteAt[n] + TTL <= now PROVE Current(n)
  <2>1. wroteAt[n] \in Int /\ lastCacheUpdate \in Int /\ now \in Int /\ TTL \in Int
    BY <1>1, TopologyAssumption DEF TopologyInv, TypeOK
  <2>2. cachedTopology # Null /\ wroteAt[n] < lastCacheUpdate
    BY <1>1, <2>1 DEF Hit
  <2>3. QED BY <2>2, <1>1 DEF TopologyInv, DataInv, CacheIsRecent
<1>2. TopologyInv => HitsAreRecent
  BY <1>1 DEF HitsAreRecent
<1>3. QED BY <1>2, TopologyInvariant, PTL

\* Only a load that outran an invalidation hides an edit that was announced.
THEOREM EditsShow == Spec => []EditsShowUnlessOutrun
<1>1. TopologyInv => EditsShowUnlessOutrun
  BY DEF TopologyInv, DataInv
<1>2. QED BY <1>1, TopologyInvariant, PTL

\* A job pairs a host with a secret of that host, or with the static one.
THEOREM SecretsMatchHosts == Spec => []SecretsBelongToTheirHost
<1>1. TopologyInv => SecretsBelongToTheirHost
  BY DEF TopologyInv
<1>2. QED BY <1>1, TopologyInvariant, PTL
=============================================================================
