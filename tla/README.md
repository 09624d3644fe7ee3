# Verification of the ISP operations API

TLA+ models, TLC configurations and TLAPS proofs for the Node/TypeScript service
that diagnoses subscribers' ONUs over the CLI of their OLTs, talks a subscriber
through what to do about them, and cuts or reactivates subscribers on MikroTik
routers. Paths below are relative to the repository's own `src/` directory,
unless they start with `docs/` or are `README.md` or `CHANGELOG.md` of the
repository.

Contents: 1 the system · 2 the modules and the code · 3 the runs · 4 fairness ·
5 what is proved · 6 disagreements between texts and code · 7 what is not
modelled · 8 plan.

## 1. The system

One Node process serves HTTP requests. Requests interleave at every `await`
and nowhere else. No transaction, mutex or queue orders the requests of one
conversation, router or ONT; the only lock is `isRunning` in `SSHService`, on a
shell that a single request owns.

    POST /diagnostic            -> StartDiagnosticUseCase    -> OLT read -> DiagnosticEngine -> session table
    POST /diagnostic/continue   -> ContinueDiagnosticUseCase -> WorkflowEngine (-> OLT read) -> session table
    OLT routes                  -> OltConnectionManager -> NetworkTopologyService -> SSH -> adapter of the brand
    MikroTik routes             -> MikrotikSshAdapter   -> SECTORS               -> SSH -> RouterOS
    network administration      -> Prisma tables        -> NetworkTopologyService.invalidateCache

| component | state | operations | what is hard |
|---|---|---|---|
| Diagnostic engine (`application/diagnostic/services`, `analyzers`, `domain/diagnostic`) | a context per request: status, findings, actions, workflow | `execute`, four analyzers, `addFinding`, `addAction`, `setStatus` | `addAction` overrides the stop flag `addFinding` has just set; power bands with gaps |
| Conversation workflow (`application/diagnostic/workflow`) | status and step of a session | `WorkflowEngine.execute`, five handlers | phrases contained in one another; steps without a handler |
| Diagnostic sessions (`use-cases`, `infrastructure/db/prisma`) | one row per conversation | start (OLT read, find, upsert), continue (find, handler, update by id) | read–await–write without a lock, concurrent creation, lost answers, restarts |
| Topology cache (`infrastructure/network`, `config/sectors.ts`) | two maps and a timestamp | `getTopology`, `getSector`, `getRouterCredentialsByHost`, `getCachedTopology`, `invalidateCache` | loads that overlap edits and invalidations; failing loads; two reads by one job |
| Network administration (`presentation/controllers/network.controller.ts`) | the router and OLT tables | create, update, delete, then invalidate | the write commits and its answer is lost |
| SSH shell (`infrastructure/ssh/ssh.service.ts`, `olt/session`) | the text that has arrived, the history | `runCommand`, `waitForAny`, `waitForStablePrompt`, `runFlow` | replies that nothing ties to their command; late replies; polls that outlive their timer |
| OLT adapters (`infrastructure/olt/adapters`) | the context of a flow | `showOnu`, `getDeviceStatus`, `reactivateOnt` for four brands | a read put together from moments seconds apart, any of which may be missing |
| MikroTik firewall (`infrastructure/mikrotik`) | the address-lists, on the router | `cutClient`, `reactivateClient`, `getClientStatus` | look up in one session, act and verify in another |
| Sessions and logins (`olt/connection`, `adapters/*/steps`, `infrastructure/ssh`) | a connection, a shell, the step of a table | `connect`, `openShell`, `runSteps`, `close`; the connection tests | prompts that look alike, texts in two places, a login that ends in the router; who closes what |
| System workflow, setup-user-device, simple queue, vault, HTTP layer | see section 7 | | |

What makes each correct:

* engine: the verdict is that of the first problem in the chain's order, at most
  one problem is reported, and no graver problem is hidden behind it;
* sessions: a stored session is coherent, is never lost nor changes its identity,
  comes from a diagnosis of its own conversation, an answer computed on current data brings the conversation closer to its end,
  and every accepted request is answered, unless its OLT read never returns;
* topology: an answer from the cache is at most a lifetime behind; an edit shows;
  a job never presents to one router the credentials of another; nobody waits for ever;
* shell: the history pairs each command with its own reply, answers go to
  questions and commands to prompts, and every flow ends;
* sessions and logins: who succeeds was let in by the OLT, a password is typed only to
  who asks for it, the flow starts on a terminal in its mode with nothing on
  its way, and nothing stays open;
* adapters: a verdict is justified by the ONT and not by what could not be read, a
  success has enabled it, not found means that it cannot be asked for, and no other
  ONT is touched, if the PON of the request is its own;
* firewall: an order that succeeds leaves the IP in the wanted list and no other,
  and orders that get in one another's way leave it in both their lists at worst.

## 2. The modules and the code

| module | models | composed with |
|---|---|---|
| `DiagnosticRules` | enums, catalogues, power bands, and `Diagnosis`, the verdict the chain is meant to reach | extended by the next four |
| `DiagnosticEngine` | the loop of `DiagnosticEngine.execute`, one action per analyzer | |
| `ConversationWorkflow` | `WorkflowEngine.execute` and the handlers, as functions of the stored step and of the message | `DiagnosticSession` |
| `DiagnosticSession` | the two use cases over the table, one action per stretch of code between awaits | uses `Diagnosis` and `Reaction` |
| `Conversation` | the abstract specification of a conversation | instantiated by `DiagnosticSession` |
| `TopologyCache` | the cache, the administrator's edits, and the jobs that use it | |
| `LoginSteps` | the login tables of the four brands and the conditions `waitForAny` looks for | extended by `SshSessions` |
| `SshSessions` | the sessions of a job: connect, shell, login or first prompt, work, close | where it hands over is an initial state of `OltShell` (proved: `LoginLeadsToShell`) |
| `OltShell` | one shell and a flow of commands on it | implements `CommandFlow` |
| `CommandFlow` | the abstract specification of `runFlow`: what an adapter may rely on | instantiated by `OltShell` |
| `OntReactivation` | read, activate, read again, per brand, over commands that may be lost | uses `Diagnosis` |
| `MikrotikFirewall` | the orders on a router | |

`MC*.tla` give the constants values that a `.cfg` cannot write; `*Proofs.tla`
hold theorems. Definitions whose comment begins with *Mutant* are deliberate
errors, used by nothing but the list of mutants in `PROJECT.json`: each property
of a passing run has one, and TLC finds the property violated when the mutant
takes the place of the definition it names.

### Diagnosis

`DiagnosticEngine` keeps `context` as `DiagnosticContext` does: findings and
actions once per type, the status only upwards, the workflow replaced by each
new action. Telemetry is reduced to what an analyzer tests. `RunStates` has
"missing" for `state = null`, which is not "offline": `supports()` skips the
analyzer. Powers are integers, in hundredths of a dBm.

`Diagnosis(t)` is the reference definition; `VerdictIsFirstProblem` says that
the loop computes it, so the other modules use the function and not the loop.

### Sessions

A request's `pc` names the await it is at: `collect` (the OLT read), `find`,
`save` for a start; `load`, `recheck` (the OLT read of `RecheckHandler`),
`update` for a continue. `work` is the session object in its hands.
`StartSave` is the upsert by `conversationId`, whose update branch does not
write the id; `ContinueUpdate` is the update by `id`, of the whole row. A
repository call may fail without effect (`Reject`) or commit and fail all the
same (`Committed`). `Restart` loses every request in flight and no row.

A row keeps the columns that decisions read, and `origin`, a history variable:
the start whose diagnosis the row descends from. `stale` holds the requests
whose row was overwritten since they read it.

A message is a set of phrases. Containment between phrases is kept
(`MessageAssumption`): whoever writes "sin luces" has written "luces".

`TakingTurns` is an assumption about clients: one that awaits its answer before
it writes again. The code neither imposes nor checks it, so it is a constant:
FALSE for the safety runs, TRUE for the refinement.

### Topology

A load is the `findMany` a `getTopology` awaits. It is split in three, since
other code runs in between: it begins (`Query`, which takes the timestamp), the
database answers (`DatabaseReads`), and the awaiting code goes on (`LoadFills`,
`LoadFindsNone`, `LoadFails`). Whoever started it goes on with `Resume`. Any
number may be in flight, and they end in any order. `invalidateCache` is one
synchronous stretch that starts a load of its own.

A router is a host and a secret, so a mix-up of credentials is visible. An OLT
job asks twice: `AskSector` for the host, `AskCredentials` for the secret; a
router job uses `SECTORS` and the static credentials, as `createSshSession` does.

### Sessions and logins

A job is a sequence of sessions, which `SshSessions` takes from `Jobs`: one on an OLT
for an OLT job, two on the router for a cut or a reactivation, and for a connection
test a probe of the router and then one for each of its OLTs. The test goes on
after an OLT that failed; the others stop (`EndSession`). `phase` follows the awaits:
`connect`, `shell` (`openShell`), then `login` (`runSteps`: `k` is the step, `sent`
whether its command is written) or, on a router, `prompt` (`waitForStablePrompt`), then
`work`, the commands, which `OltShell` models. Every exit is `Close` or
`Abandon`, by whether the code that fails is inside a try that closes.

A terminal prints *texts*, one of fourteen, and a condition of a table is the
texts it is found in, whether only at the end of what has arrived (`$`), what must
come before it, and whether the login goes on. Their order in the table matters
(`Matches`) and is kept, and so is the way `waitForAny` cuts the buffer: it
looks the found text up again from the start, so that "#" or ">" may be cut at
an earlier one (`Ends`). The router's prompt ends in ">" like an OLT's, which is
what the hazards are about. Router and OLT (`RouterReads`, `LoginReads`,
`CliReads`, `HangUp`) are modelled from the texts the tables name: they take what is
typed in order, wherever they are by then; they may refuse the telnet, the user
or the password, not have a command, not ask for a second password, hang up at any
moment, or say nothing. An OLT does not let in without its password.

### Shell

The text is a sequence of *pieces*: the reply to a command, cut where the code
could recognise something in it. The piece says which command it answers, which
the service cannot see and the properties can. `buffer` is what waits look at,
`heard` is `commandBuffer`, whose content becomes the output in the history,
`paged` is `pagerSent`, `zombies` counts polls of `waitForAny` that go on after
their timer has rejected. The OLT (`inputs`, `asking`, `wire`) is modelled from
how the code uses it: it takes its inputs in order, stops at pagers and
questions, and may answer at any time or never. A piece of kind "like" is output
that pauses at something ending like a prompt. A flow begins on a silent shell,
or on one where the prompt Kingtype's login did not wait for is still on its way;
that counts as trouble from the first step.

`CommandFlow` says what `runFlow` promises an adapter and nothing of how: the
history grows by one entry at a time, in the order of the steps, none after a required
step that failed; an entry has its own complete reply until the first trouble, and
later nothing newer than its command nor older than what was given before; and the
flow ends. `RunsTheFlow` is the refinement.

### ONTs

A job is a flow of named steps, as each adapter lists them. A command is
answered by a step action or is `Lost`: not answered in time, or its session
broken, with its effect done or not. From then on `trouble` holds, and a reply
may be about the ONT as it was earlier in the session, or be nothing the parser
understands: that is what `OltShell` leaves of a late reply
(`RepliesAreOnlyLate`). A step that is not `Required` does not end the flow.
`iface` says where the CLI is, since a lost login leaves later commands in the
wrong place.

An order says whether the ONT exists and whether it is on the PON the request names
(`onPon`), since the request's PON is never checked and the adapters use it
differently. V-Sol, Kingtype and C-Data's EPON query read the table of that PON
(`AboutPon`). Huawei and C-Data's GPON flow look the ONT up by serial, wherever it
is, and then name the request's PON and the id found: in the power command
(`ReadPower`), and Huawei in its activation (`ActivateOnt`). On a PON that is not
the ONT's these reach another ONT, or none.

A C-Data OLT is first asked in EPON's language. It may know the command (`"epon"`),
refuse it in one of the words the adapter knows for an error (`"cdata"`), or in
others (`"cdata_other"`): the echo of the command then makes the refusal pass for a
table without the ONU. These are three members of `Brands`, and one adapter.

Assumptions: nobody else enables or disables the ONT during the job; a disabled
ONT is not online; V-Sol's management channel is up exactly while the ONU is
online; the control flag of a C-Data GPON table is "active" or "deactivated"; an
ONT is asked for by its serial or MAC, not by the bare id an EPON table is
searched for too.

### Firewall

The lists are the two the service writes and some of other hands, of which the
constants say which names pass for enabled ("Deshabilitado" does) and which for cut:
`StatusOf` is the parser's verdict, and `Verify` compares statuses, as the code does.
Every name is taken to be one the parser's pattern for a table line has
(`[A-Za-z0-9_-]+`, `address-list.parser.ts:38`): an entry in a list whose name has a
blank or a dot is not seen at all.

An order goes through `status` (the lookup, in a session of its own), `act` and
`verify` (in a second). `entries` is what the router prints for an IP, in its
order. RouterOS does not keep two entries with the same list and address;
whether it refuses the whole command or drops the surplus is left open
(`Moved`). `opposed` is history: IPs for which orders that want different lists
overlapped. Orders that agree, retries above all, are never opposed.

## 3. The runs

Sizes are distinct states; each run takes three minutes or less with two workers, most of
them seconds.

| run | constants | what it shows |
|---|---|---|
| `engine` | 14 powers: both ends of every band and one in each gap; all telemetry | `VerdictIsFirstProblem`, `OneProblemStopsTheChain`, `StatusIsTheWorst`. Exhaustive: the chain has no other inputs. 704 |
| `session` | one conversation, 2 starts, 2 continues, 2 ONUs, 9 messages, clock 0..1 | `StoredSessionsAreCoherent`, `UpdateFindsItsRow`, `RowIdentity`, `FreshAnswerMovesForward`. 2.9 million |
| `session_turns` | two conversations, 2 starts and 1 continue in one, 1 start in the other, clients take turns | `DiagnosesStayInTheirConversation`, `KeepsThePromise` (refines `Conversation`), `EveryRequestEnds`. 336 thousand |
| `session_replaced` | 2 starts, 1 continue | violation of `NewDiagnosticPrevails` |
| `topology` | 1 router that may move between 2 hosts, 3 configurations, 1 OLT job, 1 router job, 1 edit, TTL 1, clock 0..2 | `HitsAreRecent`, `EditsShowUnlessOutrun`, `SecretsBelongToTheirHost`, `EveryoneEnds`. 211 thousand |
| `topology_edits` | as above | violation of `EditsShowAtOnce` |
| `firewall` | 2 IPs, 3 cuts, 2 reactivations, lists "Deshabilitado" and "Morosos" of other hands | `UnopposedStaysSingle`, `UnopposedSucceeds`, `OverlapsLeaveTwoAtMost`. 2.1 million |
| `firewall_moves` | as above | violation of `ReactivationMoves` |
| `shell` | 4 steps (interactive and required, plain, interactive, plain), 2 questions a reply | `HistoryIsTrueUntilTrouble`, `RepliesAreOnlyLate`, `AnswersMeetQuestions`, `RunsTheFlow` (refines `CommandFlow`), `FlowEnds`. 4.4 million |
| `shell_reactivation` | the 3 steps of a V-Sol reactivation, its interaction greedy | violation of `FlowEnds` |
| `ont` | 6 kinds of OLT, slot 1, ids 0 and 1, an ONT that exists or not, on the PON named or not, 4 phases, 2 powers and none, 1 change | `SuccessMeansEnabled`, `ActivationHitsUnlessBlind`, `FoundUnlessHidden`, `VerdictWasTrue`. 3.9 million |
| `login` | an OLT of each brand, a cut, and a test of a router with a C-Data, a brandless and a V-Sol OLT | `LeftOpenOnlyBeforeUse`, `SuccessMeansLetIn`, `HandsOver`, `PasswordAnswersPrompt`, `JobEnds`. 7.2 thousand |

Why the bounds are enough. *Sessions*: the hazards need a request that holds a
row, one that overwrites it and one that reads the result; two of each kind give
that and every creation race. Two ONUs make a mixed row visible. A conversation
shares nothing with another but the table and the equipment: `session_turns` has two that
are asked of the same ONU, and the proofs cover any number.
One tick tells two expiry dates apart. *Topology*: one edit, its background
load, the boot load, and both loads of a job overlap; a host's old and new
secret and a second host tell every mixture apart; three instants with a
lifetime of one have both sides of the limit. *Firewall*: two orders that
agree and one that does not, on the same IP, next to an order for another.
*Shell*: the four steps have an interactive one before a plain one and a
plain one before an interactive one, the two ways a leftover of one kind of wait
meets the other, and a poll left over by the third step is still there in the
fourth. `zombies` is bounded by the number of steps only. *ONTs*: one change in the course of a job puts it before, between and
after any two reads; slot 1 is told apart from the slot 0 a lost `ont_info`
leads to. The premises of its properties are met: the ONT is off the PON named,
hidden, or looked up in vain in some behaviours, and in those Huawei's activation does
reach another ONT.

*Logins*: sessions of a job share only what `EndSession` keeps, so a job of one
session has every behaviour of a login, two show what is left of the first, and a test of
three OLTs has a success after a failure and a failure after a success; nothing
inside a login is bounded.

Symmetry is used where requests are interchangeable (`session`, `firewall`, safety
only); the liveness runs use none. `CHECK_DEADLOCK FALSE` is set throughout: a
diagnosis, a flow, a job or an order ends, and a service of which nobody asks
anything rests. That nothing stops half way is what the liveness properties say.

## 4. Fairness

* `DiagnosticSession`: weak fairness of each request's own steps. The event loop
  serves every continuation that is ready, and Prisma's calls end in an answer or an
  error: that is assumed of the library. Nothing is assumed of the OLT reads, at
  `collect` and `recheck` (`AwaitsOlt`): a read may wait for ever in `openShell`
  (`ssh.service.ts:66`), which has no timer, and so `EveryRequestEnds` says that a
  request is answered or waits for its OLT for ever. No client is assumed to send
  anything, and no failure is assumed not to happen.
* `TopologyCache`: the same for loads, jobs and edits; the clock need not advance.
* `OltShell`: timers fire, polls are run, and writes end or fail. Nothing is
  assumed of the OLT, which need not answer at all; `FlowEnds` rests on the
  service's timers alone. Polls, writes and timeouts are fair as three groups,
  which is all that `setInterval` and `setTimeout` promise.

* `SshSessions`: polls, timers and writes as above, `ssh2` gives up a connection
  that is not ready in time, and the commands of a router, a Huawei, a Kingtype or
  a brandless OLT end (`FlowEnds`). Nothing is assumed of `openShell`, nor of the
  commands of a V-Sol or C-Data OLT (`GreedyBrands`), among which an activation may never
  return (`shell_reactivation`); `JobEnds` lets a job stay for ever in these two
  places, and in no third. Nothing is assumed of the router and the OLT.

`FlowEnds` is the property of two runs: it holds of a flow whose interactions wait
for questions, and is violated by one whose interaction waits for what its own
answer produces.

## 5. What is proved

All theorems hold for every value of the constants that satisfies the named
assumptions, and for any number of requests, routers, orders or steps.

* `DiagnosticEngineProofs`. `TypeCorrect`, `EngineComputesDiagnosis`,
  `StatusIsGravest` and `OneProblem`, for any set of power readings. `LoopInv` says that before analyzer *n* every
  earlier analyzer passed and the context is new, or the loop is done and the
  context is that of the first report; `FirstReport` computes that context once. A context
  is `Tidy`, with one finding at most, because a step that reports finds it new
  (`StepReports`).
* `DiagnosticSessionProofs`. `TypeCorrect`, `SessionsCoherent`, `UpdatesHit`,
  `IdentityKept`, `FreshAnswersAdvance`, from `SessionInv`. Coherence of the table is not
  inductive: what a request is about to write must be coherent (`StartHolds`,
  `ContinueHolds`), an id must tell its conversation (`RowIds`: ids are the
  starts that created them) so that the update by id hits one row, and what a
  request that is not stale holds must be no further than the row as it is
  (`FreshHolds`). `TurnsKeepThePromise` adds `TurnInv` (one request in flight per
  conversation, none of them stale, a start saved at most once) and shows the
  refinement: `StartSave` is `Diagnose`, `ContinueUpdate` is `Advance`, the rest
  stutters. `TurnsPrevail` rests on it too: a continue finds the row with the origin it
  read, so what `session_replaced` refutes is true of clients that take turns.
  `DiagnosesStay` needs no turns. It is not inductive alone either: `OriginInv` adds that the
  session in a continue's hands, however old, descends from a diagnosis stored for
  the continue's own conversation, and `RowIds` that the update by id goes there.
* `TopologyCacheProofs`. `TypeCorrect`, `AnswersAreRecent`, `EditsShow`,
  `SecretsMatchHosts`, from `TopologyInv`: what each process holds at each stage
  (`Stages`), that a load in flight is as recent as its timestamp says
  (`LoadsAreRecent`), that it shows the tables unless outrun (`LoadsShow`), the same
  of the cache, and that host and secret of a cached router come from one configuration
  (`CacheIsOfAPiece`), which is why two reads at different times cannot mix two
  routers.
* `MikrotikFirewallProofs`. `TypeCorrect`, `StaysSingle` and `OrdersSucceed`, from `FirewallInv`:
  an unopposed IP has one entry at most, and an order past its lookup that saw
  the IP in no list will find it in none, or in the wanted one (`SeenHolds`).
  `OverlapsBounded`, of any orders, from `SurplusInv`: only an order that saw the IP
  in no list adds an entry, and while one is about to, the IP is in no list but
  the service's own two, of which RouterOS keeps each once.
* `OltShellProofs`. `TypeCorrect` and `LateAtWorst`, for flows of any length with
  any interactions, greedy ones included. `InOrder` says that what has been heard,
  what is on the wire, what is being asked and what the OLT has not read
  yet are in the order of the commands, and not before anything an earlier step
  was given. `HistoryIsTrue`, `InTurnAlways` and `ImplementsCommandFlow` assume that no
  interaction is greedy and rest on `QuietInv`: until the first trouble the stream
  holds nothing but the current step's reply, and the OLT is at one of four places
  in it (`Unread`, `Stopped`, `Answered`, `Replied`), so that the next thing typed is what it
  is waiting for, and a text that ends in its prompt is the whole reply.
  `ImplementsCommandFlow` adds that an entry made after the trouble is a late one, which is
  `LateAtWorst`: it is the safety part of `RunsTheFlow`.
* `SshSessionsProofs`. `TypeCorrect`, `LeftOpen`, `OnlyLetIn`, `LoginHandsOver`,
  `PasswordWhereAsked` and `LoginLeadsToShell`, for jobs of any sessions. Every exit
  is one of `Closes` or `Abandons`; type correctness rests on `LoginTyped` (the tables
  have seven steps at most, each of which types a command) and on
  `ReadsAnswers` (a terminal answers with texts), and `LeftOpen` on `ClosedBefore`: a
  session that is about to connect has nothing open, so a connection that fails leaves
  nothing.
  `OnlyLetIn` rests on `LetIn`: until the password is accepted no prompt of the OLT is anywhere
  in the stream, and what may pass for one (the end of the router's banner, its own
  prompt) comes before the first thing the OLT asks for, so it is gone with the first
  step (`MisleadsFirst`, `NothingMisleads`). Each table has a step that only a prompt
  satisfies (`Gate`, `GateExpects`; what every step of every table expects is
  `StepsExpect`); nobody passes it but who was let in, or, at C-Data's, a
  router the OLT has hung up to.
  `LoginHandsOver` and `PasswordWhereAsked` rest on `Turns`, which holds of a session as long
  as the OLT stays and no wrong prompt has been taken for the right one. One
  command is on its way at most (`InTurn`), and a prompt of the OLT is the last thing it
  has said and tells where its terminal is (`Tells`): so a step that has found its prompt
  knows who will read what it types. Until the password is accepted that is
  the reader the table means (`Readers`, `Before`); afterwards it is a command
  line or V-Sol's second password prompt (`After`), and nothing is typed but
  the commands that follow (`OnlyCommands`). The place of the terminal follows from the
  step only together with what is still in the stream, which is why neither property can be
  proved without all of these. `LoginLeadsToShell` puts the two modules together: what
  `HandsOver` leaves on the stream, read as the pieces of `OltShell`, satisfies its `Init`,
  so that the theorems on flows are about the terminal a login leaves.
* `OntReactivationProofs`. `TypeCorrect` and `SuccessIsReal`, from `JobInv`: what the
  context of a flow says of the ONT was true of it in this session
  (`SeenWasTrue`), and an ONT enabled at any moment of it still is
  (`EnabledStays`), so that a success seen late is a success still.
* `OntReadingProofs`. `ActivationHits`, `Found` and `VerdictsHold`, from
  `ReadingInv`, which adds where a job is in its flow. What is left to do is a
  tail of the flow of the brand (`InFlow`), nothing but the table where an EPON query
  decides (`TableEnds`); past the step that looks for it, the
  ONT has been found unless something was lost (`FoundInTurn`, `FoundFirst`,
  `FoundToActivate`), or is `Hidden`, and then it is not found and not activated
  (`NoneToFind`); the CLI is in no interface but the ONT's own, except after an
  activation that was `Blind` (`InPlace`); and the power in the context was measured
  on the ONT in this session if the PON was its own (`PowerWasTrue`).
  `ActivationHits` needs of it that an activation in the wrong interface is still
  blind when it is sent, whatever was lost since. `VerdictsHold` adds `Gathered`: in a
  first read without losses state, power and MAC have been read, each in its turn
  and in the right interface (`Turns`), so no verdict comes of a null.

Only model-checked: the liveness properties (`EveryRequestEnds`, `EveryoneEnds`,
`FlowEnds`, `JobEnds`, and of `RunsTheFlow` that the flow ends), which are beyond the
proof system. Every invariant and every other action property of a passing run is
stated by a theorem. No theorem is about ENABLED or about a
recursive definition; no module declares one.

## 6. Where texts and code disagree

Four have a run of their own, with the quoted text in `PROJECT.json`.

* `session_replaced`: a continue that read the session before a new diagnostic
  replaced it writes the old diagnosis back. By the same steps a continue that
  read an open session reopens one that another continue has closed. Clients that
  await their answers never see it (`TurnsPrevail`).
* `topology_edits`: a load that had read the tables before an edit fills the cache
  after the edit's invalidation, and the old router is served for up to a minute.
* `firewall_moves`: a cut and a reactivation that both found the IP in no list add
  an entry each; the reactivation is confirmed and the IP is in CORTADO too. It gets
  no worse, however many overlap (`OverlapsBounded`).
* `shell_reactivation`: the interaction of V-Sol's and C-Data's activation waits for
  any blank, "#" or ">", and answers with a return, whose echo and prompt match
  again: the flow does not return. `OntReactivation` therefore lets that step go
  on only when its session is lost (`NeverEnds`).

Others were met while modelling. The models do what the code does, but no run is
spent on them: they take one guard to show, or are a consequence of the above.

* `expiresAt` is written and never read; the comment at
  `workflow/workflow.engine.ts:14` speaks of sessions that expired.
* `verify-power.handler.ts:45` says that a new diagnosis is triggered
  automatically; the handler parks the session at RECHECK until the next message.
* "sin luces" contains "luces": in the step after the power was checked, a
  subscriber who says that there are no lights is taken for one who has them
  (`verify-power.handler.ts:57`), unless one of the longer phrases above it is used.
* A name that the loaded topology does not have falls through to the static one
  (`config/sectors.ts:21`, against the comment at line 10), so a deleted router that
  was in the static topology is still reached.
* Sessions to routers use the static credentials (`mikrotik-ssh.adapter.ts:23`),
  against `config/sectors.ts:9` and `CHANGELOG.md:8`.
* After a timeout a step is given the late reply to the one before, and the history
  pairs them (`ssh.service.ts:273`, against `README.md:113`).
* An ONT id of 0 is falsy: the reactivation of that ONT is answered as not found by
  all four brands (`huawei.adapter.ts:219`), and `FoundUnlessHidden` says so.
* C-Data's login takes any prompt for the OLT's, that of the router included, and
  before it looks for a refusal (`c-data/steps/login.steps.ts:53`): a test of an OLT
  that hangs up answers "Autenticación exitosa con OLT"
  (`network-topology.service.ts:390`). `SuccessMeansLetIn` leaves that case out.
* V-Sol's login types the password after "enable" even if it was not asked for
  (`v-sol/steps/login.steps.ts:76`): the CLI takes it for a command, and may show it.
* Kingtype's login goes on at "Unknown command" without the prompt that follows
  (`kingtype/steps/login.steps.ts:135`), which the first step may take for its own.
* `docs/spec/01_ARCHITECTURE.md:59` speaks of a pool of sessions in `ssh/`; each job
  opens its own.
* The simple queue of an IP is looked for by containment, so that of 10.0.0.11 may be
  answered for 10.0.0.1 (`simple-queue.parser.ts:48`).
* V-Sol and C-Data take any status but DISABLED for a success, NOT_FOUND included
  (`v-sol.adapter.ts:263`, `c-data.adapter.ts:333`).
* A first step that timed out is reported as NOT_FOUND (`huawei.adapter.ts:131`).
* When `ont_info` is lost, Huawei's activation enters slot 0 (`huawei.adapter.ts:248`).
* Huawei takes slot and id from a lookup by serial and the PON from the request
  (`huawei.adapter.ts:67`, 253). If the PON is outdated, the ONT of that id on it is
  measured and activated, another subscriber's, with no command lost; the success is
  judged by the ONT of the serial. C-Data measures alike (`c-data.adapter.ts:152`).
  `huawei.adapter.ts:145` counts with a wrong PON, but only for an ONT that was not found.
* With an outdated PON V-Sol, Kingtype and EPON answer that an ONT which is on another is
  not found.
* A C-Data OLT that refuses "show olt .. all" in words other than the three of
  `c-data.adapter.ts:54` has every ONT not found: the echo of the command passes for the
  table (line 58), and the fallback announced at line 128 is not taken.
* V-Sol calls an ONT disabled whose `omccState` is "disable", which is also what an
  ONT that is off has (`v-sol.adapter.ts:177`).
* V-Sol reports an ONU that is not found with a history that is always empty
  (`v-sol.adapter.ts:112`).
* A list called "Deshabilitado" counts as enabled (`address-list.parser.ts:73`).
* Powers between the bands, between -25 and -24 dBm for instance, are of no level
  and are never reported.
* A shell that cannot be opened leaves its SSH connection open
  (`olt-connection-manager.ts:66`, and `MikrotikSshAdapter` alike).

## 7. What is not modelled

* The system workflow engine and its handler: constructed, never called.
* `setupUserDevice` and `rebootOnt`: no route reaches the first, both end in an
  exception in every adapter.
* The simple queue and its parser: a single read.
* The reads of the tables by the connection tests: the controller reads the row of a
  router for its host, `testRouterConnection` for its password, and
  `testOltConnection` once more for each OLT.
* How texts are matched by parsers: a read yields the ONT as described, or nothing.
* The poll of `waitFor`, which goes on for ever after its timer has rejected
  (`ssh.service.ts:122`): it consumes nothing.
* The vault's cipher, HTTP routing, validation, metrics, logging.

## 8. Plan

Done in this order: the engine and its rules; sessions with the abstract
conversation; the topology; the firewall; the shell; the ONT flows; a proof
module or two for each of them; then the sessions and their logins, the abstract flow of
commands, and the statuses of address-lists; the proofs that the shell implements
the flow and that a login lets nobody pass; the proofs that a login types every
command where it belongs and leaves the terminal a flow needs; last what overlapping
requests can do at worst, to a session and to an IP.

Next:

1. The reads of the connection tests, next to the administrator's edits in
   `TopologyCache`: host and password of a test are read at different times.
