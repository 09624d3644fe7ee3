---------------------------- MODULE TopologyCache ----------------------------
(***************************************************************************)
(* NetworkTopologyService: the in-memory cache of routers and their        *)
(* credentials over the PostgreSQL tables, the administrator's edits that  *)
(* invalidate it, and the jobs that use it to reach a device.  An action   *)
(* is what happens from one await to the next; a load is the findMany a    *)
(* getTopology awaits, and several may be in flight.                       *)
(*                                                                         *)
(* A router is the host it is reached at and its secret (user name and     *)
(* password); an inactive router is not in the topology, nor is its row    *)
(* told apart from a deleted one.  A change of one of its OLTs is a change *)
(* of the router's configuration.  The static topology (FALLBACK_SECTORS)  *)
(* has one secret for every router.                                        *)
(***************************************************************************)
EXTENDS Integers, FiniteSets

CONSTANTS
    Names, Hosts, Secrets,
    Configs,             \* the configurations an administrator may give a router
    Static,              \* the host of each name in FALLBACK_SECTORS, or Null
    StaticSecret,        \* FALLBACK_MIKROTIK_CREDENTIALS
    OltJobs, RouterJobs, \* requests that go to an OLT, and to the router itself
    Edits,               \* writes of an administrator
    SectorOf,            \* the sector each job names
    Boot,                \* the process start
    TTL, MaxTime, Null

Jobs == OltJobs \cup RouterJobs
Procs == Jobs \cup Edits \cup {Boot}
Hostnames == [Names -> Hosts \cup {Null}]

ASSUME TopologyAssumption ==
    /\ Configs \subseteq [host : Hosts, secret : Secrets]
    /\ Static \in Hostnames
    /\ StaticSecret \in Secrets
    /\ SectorOf \in [Jobs -> Names]
    /\ TTL \in Nat \ {0} /\ MaxTime \in Nat
    /\ Null \notin Hosts \cup Secrets \cup Configs \cup Hostnames

ASSUME ProcsAssumption ==
    /\ OltJobs \cap RouterJobs = {} /\ Jobs \cap Edits = {}
    /\ Boot \notin Jobs \cup Edits

Tables == [Names -> Configs \cup {Null}]
ASSUME TablesAssumption == Null \notin Tables

Loads == [since : 0 .. MaxTime, data : Tables \cup {Null}, outrun : BOOLEAN]
ASSUME LoadsAssumption ==
    Null \notin Loads \cup [host : Hosts, secret : Secrets \cup {Null}]

VARIABLES
    db,                      \* the active routers, as stored
    cachedTopology,          \* the host of each router, or Null when there is no cache
    cachedRouterCredentials, \* the secret of each router
    lastCacheUpdate,
    now,                     \* Date.now()
    pc,                      \* where each process is
    load,                    \* the load each process has in flight; data is Null until read
    conn,                    \* the host, then also the secret, a job has settled on
    wroteAt,                 \* history: when each router was last written (-1: never)
    unannounced,             \* history: edits committed and not yet followed by an invalidation
    behind                   \* history: the cache was read before the last invalidation

cache == <<cachedTopology, cachedRouterCredentials, lastCacheUpdate>>
vars == <<db, cache, now, pc, load, conn, wroteAt, unannounced, behind>>

Pending == {"boot", "sector", "connect", "credentials", "lookup", "write", "committed"}

TypeOK ==
    /\ db \in Tables
    /\ cachedTopology \in Hostnames \cup {Null}
    /\ cachedRouterCredentials \in [Names -> Secrets \cup {Null}]
    /\ lastCacheUpdate \in 0 .. MaxTime
    /\ now \in 0 .. MaxTime
    /\ pc \in [Procs -> {"idle", "done"} \cup Pending]
    /\ load \in [Procs -> Loads \cup {Null}]
    /\ conn \in [Jobs -> [host : Hosts, secret : Secrets \cup {Null}] \cup {Null}]
    /\ wroteAt \in [Names -> -1 .. MaxTime]
    /\ unannounced \subseteq Edits
    /\ behind \in BOOLEAN

-----------------------------------------------------------------------------
NoSecrets == [n \in Names |-> Null]
HostsOf(t) == [n \in Names |-> IF t[n] = Null THEN Null ELSE t[n].host]
\* Mutant: credentials already in the map are not set again.
SecretsKept(t) ==
    [n \in Names |-> IF cachedRouterCredentials[n] # Null THEN cachedRouterCredentials[n]
                     ELSE IF t[n] = Null THEN Null ELSE t[n].secret]

SecretsOf(t) == [n \in Names |-> IF t[n] = Null THEN Null ELSE t[n].secret]

Goto(p, l) == pc' = [pc EXCEPT ![p] = l]

\* Mutant: the load is backdated by a lifetime.
QueryBackdated == [since |-> now - TTL, data |-> Null, outrun |-> FALSE]

\* A load begins: its timestamp is taken before the database is asked.
Query == [since |-> now, data |-> Null, outrun |-> FALSE]

\* server.ts loads the topology once before it listens.
Init ==
    /\ db \in Tables
    /\ cachedTopology = Null /\ cachedRouterCredentials = NoSecrets /\ lastCacheUpdate = 0
    /\ now = 0
    /\ pc = [p \in Procs |-> IF p = Boot THEN "boot" ELSE "idle"]
    /\ load = [p \in Procs |-> IF p = Boot THEN Query ELSE Null]
    /\ conn = [j \in Jobs |-> Null]
    /\ wroteAt = [n \in Names |-> -1]
    /\ unannounced = {}
    /\ behind = FALSE

Arrives(p) == pc[p] = "idle" /\ pc[Boot] = "done"

\* Mutant: one tick too long.
HitAtTheLimit == cachedTopology # Null /\ now - lastCacheUpdate <= TTL

\* getTopology answers from the cache without a load.
Hit == cachedTopology # Null /\ now - lastCacheUpdate < TTL

\* SECTORS[n]: the cached router whatever its age, else the static one.
Proxy(n, topology) ==
    IF topology # Null /\ topology[n] # Null THEN topology[n] ELSE Static[n]

-----------------------------------------------------------------------------
\* A job to an OLT: getSector, with SECTORS as its last resort; then the manager
\* looks for the credentials of that host.

\* getTopology has answered with a topology, the cache now being known.  Reading
\* SECTORS without a cache starts a load in the background.
Resolve(j, topology, known) ==
    LET n == SectorOf[j]
        host == IF topology[n] # Null THEN topology[n]
                ELSE IF Static[n] # Null THEN Static[n] ELSE Proxy(n, known) IN
    \/ /\ host # Null
       /\ conn' = [conn EXCEPT ![j] = [host |-> host, secret |-> Null]]
       /\ load' = [load EXCEPT ![j] = Null]
       /\ Goto(j, "connect")
    \/ /\ host # Null                                \* the sector has no such OLT
       /\ load' = [load EXCEPT ![j] = Null]
       /\ Goto(j, "done")
       /\ UNCHANGED conn
    \/ /\ host = Null                                \* SectorNotFound
       /\ load' = [load EXCEPT ![j] = IF known = Null THEN Query ELSE Null]
       /\ Goto(j, "done")
       /\ UNCHANGED conn

AskSector(j) ==
    /\ Arrives(j)
    /\ IF Hit THEN Resolve(j, cachedTopology, cachedTopology)
       ELSE load' = [load EXCEPT ![j] = Query] /\ Goto(j, "sector") /\ UNCHANGED conn
    /\ UNCHANGED <<db, cache, now, wroteAt, unannounced, behind>>

AskCredentials(j) ==
    /\ pc[j] = "connect"
    /\ IF Hit THEN Goto(j, "lookup") /\ UNCHANGED load
       ELSE load' = [load EXCEPT ![j] = Query] /\ Goto(j, "credentials")
    /\ UNCHANGED <<db, cache, now, conn, wroteAt, unannounced, behind>>

\* Some cached router at that host lends its credentials, else the static ones.
Lenders(host) ==
    {n \in Names : /\ cachedTopology # Null /\ cachedTopology[n] = host
                   /\ cachedRouterCredentials[n] # Null}

CredentialsByHost(j) ==
    /\ pc[j] = "lookup"
    /\ IF Lenders(conn[j].host) = {} THEN conn' = [conn EXCEPT ![j].secret = StaticSecret]
       ELSE \E n \in Lenders(conn[j].host) :
               conn' = [conn EXCEPT ![j].secret = cachedRouterCredentials[n]]
    /\ Goto(j, "done")
    /\ UNCHANGED <<db, cache, now, load, wroteAt, unannounced, behind>>

\* A job to a router: SECTORS at once, and the static credentials.
CreateSshSession(j) ==
    /\ Arrives(j)
    /\ LET host == Proxy(SectorOf[j], cachedTopology) IN
       conn' = [conn EXCEPT ![j] =
                   IF host = Null THEN Null ELSE [host |-> host, secret |-> StaticSecret]]
    /\ load' = [load EXCEPT ![j] = IF cachedTopology = Null THEN Query ELSE Null]
    /\ Goto(j, "done")
    /\ UNCHANGED <<db, cache, now, wroteAt, unannounced, behind>>

-----------------------------------------------------------------------------
\* A load: the database answers, and later the awaiting code goes on.

DatabaseReads(p) ==
    /\ load[p] # Null /\ load[p].data = Null
    /\ load' = [load EXCEPT ![p].data = db]
    /\ UNCHANGED <<db, cache, now, pc, conn, wroteAt, unannounced, behind>>

\* Mutant: a job that awaited the credentials' load waits for ever.
ResumeStuck(p, topology, known) ==
    \/ pc[p] = "sector" /\ Resolve(p, topology, known)
    \/ /\ pc[p] \in {"credentials", "boot", "done"}
       /\ pc' = [pc EXCEPT ![p] = IF @ = "credentials" THEN @ ELSE "done"]
       /\ load' = [load EXCEPT ![p] = Null]
       /\ UNCHANGED conn

\* What the code that awaited the load does with its answer.
Resume(p, topology, known) ==
    \/ pc[p] = "sector" /\ Resolve(p, topology, known)
    \/ /\ pc[p] \in {"credentials", "boot", "done"}
       /\ pc' = [pc EXCEPT ![p] = IF @ = "credentials" THEN "lookup" ELSE "done"]
       /\ load' = [load EXCEPT ![p] = Null]
       /\ UNCHANGED conn

\* The rows are decrypted and become the cache, dated when the load began.
LoadFills(p) ==
    /\ load[p] # Null /\ load[p].data \notin {Null, NoSecrets}
    /\ cachedTopology' = HostsOf(load[p].data)
    /\ cachedRouterCredentials' = SecretsOf(load[p].data)
    /\ lastCacheUpdate' = load[p].since
    /\ behind' = load[p].outrun
    /\ Resume(p, HostsOf(load[p].data), HostsOf(load[p].data))
    /\ UNCHANGED <<db, now, wroteAt, unannounced>>

\* No active router: the static topology, and the cache stays as it was.
LoadFindsNone(p) ==
    /\ load[p] # Null /\ load[p].data = NoSecrets
    /\ Resume(p, Static, cachedTopology)
    /\ UNCHANGED <<db, cache, now, wroteAt, unannounced, behind>>

\* The database is away, or one password does not decrypt: the cache as it is
\* by now, of any age, else the static topology.
LoadFails(p) ==
    /\ load[p] # Null
    /\ Resume(p, IF cachedTopology # Null THEN cachedTopology ELSE Static, cachedTopology)
    /\ UNCHANGED <<db, cache, now, wroteAt, unannounced, behind>>

-----------------------------------------------------------------------------
\* An administrator's edit: create, update or delete a router or an OLT.

EditArrives(w) ==
    /\ Arrives(w)
    /\ Goto(w, "write")
    /\ UNCHANGED <<db, cache, now, load, conn, wroteAt, unannounced, behind>>

\* 400, 404, 409, or the write fails.
EditRefused(w) ==
    /\ pc[w] = "write"
    /\ Goto(w, "done")
    /\ UNCHANGED <<db, cache, now, load, conn, wroteAt, unannounced, behind>>

EditCommits(w, n, c) ==
    /\ pc[w] = "write"
    /\ db' = [db EXCEPT ![n] = c]
    /\ wroteAt' = [wroteAt EXCEPT ![n] = now]
    /\ unannounced' = unannounced \cup {w}
    /\ Goto(w, "committed")
    /\ UNCHANGED <<cache, now, load, conn, behind>>

\* Mutant: only the reload, the old cache stays until it is done.
EditReloads(w) ==
    /\ pc[w] = "committed"
    /\ load' = [load EXCEPT ![w] = Query]
    /\ unannounced' = {}
    /\ behind' = FALSE
    /\ Goto(w, "done")
    /\ UNCHANGED <<db, cache, now, conn, wroteAt>>

\* invalidateCache: drop everything and reload in the background.  Loads that
\* have read the database already go on with what they read.
EditInvalidates(w) ==
    /\ pc[w] = "committed"
    /\ cachedTopology' = Null
    /\ cachedRouterCredentials' = NoSecrets
    /\ lastCacheUpdate' = 0
    /\ load' = [p \in Procs |->
                   IF p = w THEN Query
                   ELSE IF load[p] # Null /\ load[p].data # Null
                        THEN [load[p] EXCEPT !.outrun = TRUE] ELSE load[p]]
    /\ unannounced' = {}
    /\ behind' = FALSE
    /\ Goto(w, "done")
    /\ UNCHANGED <<db, now, conn, wroteAt>>

\* The write is committed and its answer lost: the handler goes to its catch.
EditAnswerLost(w) ==
    /\ pc[w] = "committed"
    /\ Goto(w, "done")
    /\ UNCHANGED <<db, cache, now, load, conn, wroteAt, unannounced, behind>>

-----------------------------------------------------------------------------
Tick ==
    /\ now < MaxTime
    /\ now' = now + 1
    /\ UNCHANGED <<db, cache, pc, load, conn, wroteAt, unannounced, behind>>

\* The process dies and starts again: the cache is empty, requests are lost.
Restart ==
    /\ pc[Boot] = "done"
    /\ cachedTopology' = Null /\ cachedRouterCredentials' = NoSecrets /\ lastCacheUpdate' = 0
    /\ pc' = [p \in Procs |-> IF p = Boot THEN "boot"
                              ELSE IF pc[p] = "idle" THEN "idle" ELSE "done"]
    /\ load' = [p \in Procs |-> IF p = Boot THEN Query ELSE Null]
    /\ unannounced' = {}
    /\ behind' = FALSE
    /\ UNCHANGED <<db, now, conn, wroteAt>>

LoadStep(p) == DatabaseReads(p) \/ LoadFills(p) \/ LoadFindsNone(p) \/ LoadFails(p)
JobStep(j) == AskCredentials(j) \/ CredentialsByHost(j)
EditStep(w) ==
    \/ EditRefused(w)
    \/ \E n \in Names, c \in Configs \cup {Null} : EditCommits(w, n, c)
    \/ EditInvalidates(w)
    \/ EditAnswerLost(w)

Next ==
    \/ \E p \in Procs : LoadStep(p)
    \/ \E j \in OltJobs : AskSector(j) \/ JobStep(j)
    \/ \E j \in RouterJobs : CreateSshSession(j)
    \/ \E w \in Edits : EditArrives(w) \/ EditStep(w)
    \/ Tick
    \/ Restart

Spec == Init /\ [][Next]_vars

\* Every query of the database ends, in an answer or an error, and the event
\* loop goes on with whoever awaited it.
Fairness ==
    /\ \A p \in Procs : WF_vars(LoadStep(p))
    /\ \A j \in OltJobs : WF_vars(JobStep(j))
    /\ \A w \in Edits : WF_vars(EditStep(w))

FairSpec == Spec /\ Fairness

-----------------------------------------------------------------------------
\* Router n is cached as it is stored.
Current(n) ==
    cachedTopology[n] = HostsOf(db)[n] /\ cachedRouterCredentials[n] = SecretsOf(db)[n]

\* The cache is a minute behind at worst: whenever getTopology answers from it,
\* every router not written in the last TTL is as stored, whatever loads and
\* invalidations overlapped and in whatever order they ended.
HitsAreRecent ==
    Hit => \A n \in Names : wroteAt[n] + TTL <= now => Current(n)

\* An edit shows at once, of whatever age the cache is, unless a load that had
\* read the tables before it ended after its invalidation, or the invalidation
\* never ran.
EditsShowUnlessOutrun ==
    cachedTopology # Null /\ ~behind /\ unannounced = {} => \A n \in Names : Current(n)

\* A job never presents to one router the secret of another, though topology and
\* credentials are read at different times and both may change in between: its
\* secret was configured for that very host, or is the static one.
SecretsBelongToTheirHost ==
    \A j \in Jobs : conn[j] # Null /\ conn[j].secret # Null =>
        conn[j].secret = StaticSecret \/ conn[j] \in Configs

\* Every request and the start of the process come to their end (liveness,
\* under Fairness), though an invalidation may send a job to load once more.
EveryoneEnds == \A p \in Procs : pc[p] \in Pending ~> pc[p] = "done"

-----------------------------------------------------------------------------
\* What texts of the repository say and the code does not do.

\* network-topology.service.ts: the cache is invalidated when routers or OLTs
\* are edited, so that getSector answers with fresh data: no answer from the
\* cache misses an edit whose invalidation has run.
EditsShowAtOnce ==
    [][\A j \in OltJobs : AskSector(j) /\ Hit /\ unannounced = {} =>
          \A n \in Names : Current(n)]_vars
=============================================================================
