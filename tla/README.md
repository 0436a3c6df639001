# Verification of the replicated counter service

TLA+ models, TLC runs and TLAPS proofs for the Go program in `src/`: a cluster
of gRPC servers that keep named counters, elect a leader by view change,
replicate every increment to all followers before answering, remember answers
in a reply cache, and a client whose interceptors find the leader and retry.

## The system

| Component | Source | State | Operations | Interacts with |
|---|---|---|---|---|
| Leader election | `internal/server/election.go` | `viewNumber`, `inViewChange`, `leaderAddr`, `viewVotes`; the heartbeat goroutine's `missCount` | `Ping`, `runHeartbeat`, `initiateViewChange`, `ViewChange`, `commitView`, `broadcastViewChange` | the same code of the peers, by RPC; the counter state, which reads `leaderAddr` and `inViewChange` |
| Counter state | `internal/server/state.go` | `counters` | `IncrCounter`, `GetCounter` | cache, replication, clients |
| Reply cache | `internal/server/cache.go` | `(clientID, requestID)` to response | `get`, `set` | `IncrCounter`, `Replicate`, `TransferState` |
| Replication and transfer | `internal/server/replication.go` | none of its own | `Replicate`, `replicateToAll`, `TransferState`, `PullState`, `applyTransferResp` | peers by RPC; sets counters, cache, view |
| Server process | `cmd/server/main.go` | up, starting, draining, down | listen, pull, serve, heartbeat, `GracefulStop` | all of the above |
| Redirect interceptor | `internal/client/interceptor.go` | `currConn`, `leaderAddr`, `peerIdx`, shared by all calls; `attempt`, `dead` per call | `Unary`, `rebind`, `nextAlivePeer` | servers by RPC; other calls through the shared connection |
| Request ids | `internal/client/requestid.go` | a counter | stamps a request once, retries keep the stamp | the reply cache |
| Load generator | `cmd/loadgen` | counts, the `rows` channel, the injector's result, the CSV and metadata files | sequential calls by several workers, one kill, output | interceptors; servers, by a signal |
| Attempt counting | `internal/client/attempts.go` | a counter per operation | counts RPCs | the load generator's rows |
| Client program | `cmd/client` | none | one worker's sequential calls | interceptors |
| Analysis script | `scripts/analyze.go` | none | statistics and plots | reads the load generator's files |
| Library retry interceptor | external | | retries `Unavailable` | runs inside one attempt of the redirect interceptor |
| Generated code, shell scripts | `gen`, `scripts` | | marshalling; starting and killing processes | not modelled |

What is hard here, and what the properties are for (the full list, with lines,
is under `hazards` in `PROJECT.json`):

- a server runs a heartbeat goroutine and one goroutine per RPC, on state that
  is partly atomic, partly under `Server.mu`; most operations touch it several
  times without holding anything in between;
- processes die at any point, lose all memory, and come back with what one peer
  tells them;
- RPCs are lost, late, unordered with respect to each other, and time out while
  the handler goes on;
- a retry may meet a leader that has, has not, or has half seen the first try;
- the calls of a client share one connection that each of them may replace;
- the load generator's workers, its writer and its kill run side by side, and the
  analysis reads what they left, in the order they happened to leave it.

A correct election never commits without a majority, never goes back, does not
lose a view, and in the end gives up a dead leader. A correct replicated counter
counts every request exactly once, never forgets an answered one, gives every
request its own value. A correct interceptor hides one failed leader and always
returns. A correct measurement has a row for every operation, kills when it says
it does, and ends.

## Modules

### `Election.tla`

One action per access to shared state. `calls` holds the goroutines in election
code: a `ViewChange` RPC from `sent` until its handler returns, or, with
`from = to`, the heartbeat goroutine inside `initiateViewChange`. `pc` is the next
access:

| `pc` | Action | Code |
|---|---|---|
| `sent` | `RejectStale`, `AcceptView`, `LoseViewChange` | the one load of `viewNumber` in `ViewChange`, or a lost RPC |
| `flag` | `EnterViewChange` | the store that sets `inViewChange`, in both functions |
| `seed` | `SeedVote` | the critical section of `initiateViewChange` |
| `tally` | `Tally` | the count, then commit or broadcast |
| `vote` | `CountVote` | the critical section of `ViewChange`, commit only on `== majority` |
| `advance`, `leader`, `clear` | `AdvanceView`, `CommitLeader`, `LeaveViewChange` | `commitView`; its compare-and-swap loop is one step, taken at the last access |

The heartbeat loop is `SkipPing`, `StartPing`, `PingAnswered`, `PingMissed`,
`InitiateViewChange`. Start-up and failure are `Crash`, `Start`, `TransferView`,
`PullView`, `PullNext`, `PullNone`. `TransferView` is the peer's load of its view,
`PullView` the joiner's store and the moment it serves: in between (`transfer`) the
peer and the others move on, and RPCs to the joiner fail. A server is its index in
`allServers`. A peer is tried by `PullState` in address order, as in the scripts'
`-peers` flags. At `MaxView` a server counts its misses anew and initiates nothing
more, so the loop goes on. The history
variable `initiated` records who ran `initiateViewChange` for which view; nothing
reads it but the properties. `broadcastViewChange` starts its RPCs one after the
other without waiting; they are one step because an RPC that is started is
delivered at any later time anyway.

### `Replication.tla`

`handlers` are goroutines in `IncrCounter` past the leader check, `repl` the
`Replicate` RPCs. `Begin`, `CacheHit`/`CacheMiss`, `Apply`, `StoreAndSend`, `Reply`
are the parts of `IncrCounter` between which other goroutines run;
`ReplicateCounter` and `ReplicateCache` the two critical sections of `Replicate`;
`TransferCounters` and `TransferCache` the two of `TransferState`, and `Join` is
`applyTransferResp` and the start of serving: a server that is joining has its copy
and gets none of the writes that go on. `Crash` is a SIGKILL, `Stop` and `Exit` a
SIGTERM with `GracefulStop`. An election is only its outcome, `Elect`, one server at
a time, and it may never come: module `Election` shows that the code does not
guarantee one (`election_new_leader`). There is one counter, because
the code treats each by itself. `GetCounter` is the operator the read property uses.

A worker stops waiting for an attempt in two ways, and the handler goes on in
both, because neither `IncrCounter` nor `replicateToAll` looks at the context:
`Cancel`, when another call's `rebind` closes the connection (the same request is
tried again), and `GiveUp`, at the call's deadline (the worker goes on to its next
request). `TimeOutReplicate` ends the leader's 500ms wait for one follower; the
message stays and is applied later or never. `DedupModes` is the set of `-dedup`
settings a run looks at, so one run covers servers with and without the cache.

Timing that the code relies on and does not enforce, and that this model takes
for granted: by the time a server suspects the leader (three heartbeats), the
`Replicate` RPCs of the old leader have been applied or lost (`Settled`); an
operator restarts a process after the election is over (`Agreed`; `Election` has
restarts in the middle of one). Servers fail one at a time, the assumption the
repository's README states at line 107.

### `CounterService.tla`

What clients may see, with no servers: `Issue`, `Reissue`, `Respond`, `Abandon`.
Every answer is new, larger than every answer given before the request was issued,
and at most the number of issues. `Replication` implements it (`ImplementsService`)
under the mapping: a request is pending from its first attempt that reached a
leader until its worker is through with it; `answer` is `acked`. `floor` and
`issued` are history variables of both.

### `LeaderInterceptor.tla`

The loop of `Unary` for several concurrent calls. `ReadLeader` is the locked read
at the top of the loop; an attempt then ends in `Succeed`, `WaitAndRetry`,
`FollowRedirect` + `Rebind`, or `TransportFailure` + `NextAlivePeer` + `Rebind`.
`NextAlivePeer` and `Rebind` are separate critical sections, so other calls move
`peerIdx` and the connection in between. `Rebind` closes the old connection: every
other call with an RPC on it loses that attempt (`closed`). The cluster (`Kill`,
`Suspect`, `Commit`, `Restart`) is the fault injector and the servers' election and
restart as far as a client can tell them apart: whom a server redirects to, and
whether it is in a view change.

Time: an attempt that waits sleeps 100ms and failover takes about 800ms (the
repository's README, line 258), so with `Timely` up to `Slack` = 8 attempts of a call
pass before an election is over. That is an assumption, and the code does not
guarantee it: the new leader may never come to serve (`election_new_leader`), and a
recorded run of the repository, `results/dedup_demo_off.csv:12-21`, has ten calls in
a row that use up their 15 attempts at the new leader's address. Without `Timely` an
election takes any time or never ends; so it is in `interceptor_restarts`.
`Expire` is the call's deadline: from then on every RPC
of the call fails at once and the loop, which does not look at the context, runs
through its remaining attempts.

### `LoadGen.tla`, `Analysis.tla`, `Measurement.tla`

`LoadGen` has the worker loop (`StartOp`, `Leave`, `Return`, `Send`, `Complete`,
`Trigger`, `Think`), the goroutine that closes the channel (`CloseRows`), and main
(`WriteRow`, `Finish`). `Interrupt` is Ctrl-C, `DiskFails` a `log.Fatalf` while writing:
all of the process's memory goes, the file stays as far as it got. A call begins
(`StartOp`) and succeeds or fails (`Return`); the servers are the environment. The
clock is read where the code reads it, and each reading is the last or any later
member of `Clock`, so operations take any of the times between two members.

`Analysis` is the script as functions of the rows in the file: `ReadSamples` (sorted by
end), `SuccessLatencies` (sorted), `Percentile`, `FirstSuccessfulCompletionAfter`, and
what the axes of both plots cover. `sort.Slice` is not stable, so `Orders` is the set of all
ways to go through the rows by key and the two sorts are the sets of their possible
results; `RunAnalysis` takes one. Latencies are whole microseconds, as the CSV's three
decimals of a millisecond make them; a percentile is kept in hundredths of that,
which makes the interpolation exact.

`Measurement` composes them: `RunAnalysis` applies `Analyze` to the file of a finished
run, so the script is checked on exactly the files that some interleaving produces.
After a failed run there are no metadata, or those that an earlier run with the same
output name left (`Earlier`).

### Proof modules

`ElectionProofs`, `ReplicationProofs`, `ReplicationRefinement`, `FailoverProofs`,
`FailoverRefinement`, `InterceptorProofs`, `LoadGenProofs`, `MeasurementProofs`: the
theorems, below.

## Runs

Violation runs each check one sentence of the documentation or of a comment;
`findings` in `PROJECT.json` quotes it.

| Run | Checks | Shows |
|---|---|---|
| `election_crash` | `TypeOK` `CommitBacked` `LeaderOfReachedView` `ViewNeverRegresses` `DeadLeaderAbandoned` | two of three servers crash anywhere, so the next leader may be dead as well; no server follows a dead leader for ever |
| `election_timeouts` | `CommitBacked` `NoViewSkipped` `LeaderOfReachedView` | a crash anywhere and a restart anywhere after it, while every ping, RPC and pull may time out |
| `election_split_brain` | `NoSplitBrain`, violated | the commit of view 1 undoes the beginning of view 2 at the same server, and two servers serve; no restart, no timeout |
| `election_new_leader` | `NewLeaderServes`, violated | the others commit without a broadcast: the new leader never hears a vote and refuses requests for ever |
| `replication_follower` | `TypeOK` `DistinctReplies` `FollowerNeverAhead` `AckedAtSurvivors` `CacheEntriesStable` `ImplementsService` | two concurrent workers, a deadline or a retry under a running handler, a late Replicate, a follower that fails and rejoins, cache on and off |
| `replication_failover` | `ExactlyOnce` `ReadsCoverAcked` `CacheAgrees` `AllAnswered` `ImplementsService` | one sequential worker, three requests, the leader and another server may fail anywhere and rejoin: exactly once, reads never go back, every request is answered once some server serves for good |
| `replication_reorder` | `ReadsCoverAcked`, violated | a follower keeps the older of two concurrent values and is elected: an answered increment is gone |
| `replication_double_count` | `ExactlyOnce`, violated | two workers: an absolute value carries another request's uncached effect to the new leader |
| `interceptor_failover` | `FailoverTransparent` | two calls, 15 attempts, an election that costs up to 8: none fails |
| `interceptor_restarts` | `TypeOK` `CallsEnd` | two calls on one connection, two kills and restarts, elections of any length, deadlines anywhere: every call returns |
| `interceptor_dead_mark` | `FailoverTransparent`, violated | a leader that restarts quickly is refused by the call that marked it dead |
| `measurement` | `TypeOK` `CsvComplete` `KillReported` `KillNotEarly` `FailoverEndEarliest` `PercentilesRank` `AxesHoldSamples` `RunEnds` | two workers, two operations each, a kill, Ctrl-C and disk errors anywhere; then the analysis of the files they leave, with metadata of this run, an earlier one or none |

Three properties appear in passing and in violated runs. `ExactlyOnce` and
`ReadsCoverAcked` hold for one sequential worker with the leader failing once (the
configuration the repository's own deduplication experiment measures), and the
violated runs add just the one thing that breaks them, a second worker
(`replication_reorder`, `replication_double_count`). `FailoverTransparent` holds without
restarts and is violated with one. `DeadLeaderAbandoned` only says that a dead leader is given up,
not that a new one serves: `NewLeaderServes` says that, and is violated. Without the
cache only the lower bound of `ExactlyOnce` is claimed: a retry may count twice,
which is what the flag is for.

The same properties fail in more ways, each the outcome of changing the constants of
a run:

- a restarted leader (`replication.go:120`): with `MaxView` = 1 and `Restarts` = TRUE
  `ElectionSplitBrain.cfg` finds leader 0 restarting while its successor is elected.
  Server 1 answers its pull with view 0, having not moved yet; the ViewChange RPC of
  server 2 to server 0, which does not serve yet, fails; then server 0 serves in view 0
  and server 1 in view 1. Nobody pings server 0 and server 0 pings nobody, so both
  serve for ever;
- a retry under its own first handler (`state.go:107`): with `MaxCancels` = 1 and
  `Mortal` = {} `ReplicationDoubleCount.cfg` finds, without any failure, a call whose
  connection another call's rebind closed; its retry misses the cache while the first
  handler is between the increment and the entry, and the request is counted twice;
- a follower that rejoins (`cmd/server/main.go:43`): with `Mortal` = {0, 1}, so that
  the next in line may have rejoined, `ReplicationFailover.cfg` violates `ExactlyOnce`
  and `ReadsCoverAcked`. Server 1 copies the counters of follower 2 before a Replicate
  arrives there, the leader's Replicate to server 1, not serving yet, fails and is only
  logged, the client is answered, the leader dies and server 1 is elected. A torn
  transfer (`replication.go:38`) needs the same setting.

Left to the reader of the reports: after a run that died before it wrote its metadata
the script takes those an earlier run left under the same name (`ReadMeta`), and
prints that run's failover; the failover line in the CDF (`analyze.go:232`) may lie
beyond the axis, which ends a little after the largest latency; and an operation that
ends in the nanosecond of the kill ends the failover (`analyze.go:196` has `>=`).

### Bounds

- Three servers: the smallest cluster in which a majority is not everyone and a
  crash leaves two servers to disagree. `MaxMissedPings` is 2 or 1 instead of 3:
  2 has both the counted and the last miss; one more counts without adding an
  interleaving. In `election_crash` `MaxView` = 3 goes past both dead leaders, and
  lets view changes overlap the commit of earlier ones;
  with restarts and timeouts it is 1, which already gives spurious suspicion, lost
  votes and late ones, and a million and a half states. The safety properties of both
  runs are proved for all bounds; `DeadLeaderAbandoned`, which is not, also holds with
  one crash, restarts and `MaxView` = 2. At `MaxView` a server initiates nothing more;
  `DeadLeaderAbandoned` excepts a server that has come to it.
- Two workers make all pairwise races on a counter; `replication_failover` has
  three requests of one worker, so that a request follows the one that met the
  failure. `MaxTries` = 2 is one retry, all that one failure causes. `MaxCancels` =
  `MaxLate` = 1 in `replication_follower`: each makes one handler, or one message,
  outlive its caller, next to everything else. That run has two servers, a leader and
  a follower, because its properties compare the leader with each follower by
  itself. It uses symmetry on workers: nothing in `Replication` tells them
  apart, and none of its properties is a liveness property.
- `LeaderInterceptor` keeps the code's 15 attempts where the number matters.
  `interceptor_restarts` uses 4 attempts, so that calls do run out, and two servers,
  so that one call can find both of them dead; its cluster is freer than the real
  one, which does not elect with one of two servers.
- `measurement`: `ChanCap` = 1 instead of 1024, so that workers do block, `FlushEvery` = 2
  instead of 100, so that rows are flushed and unflushed when the disk fails.
  `KillAfter` = 2 of four operations: some come before the kill, some after. Two
  readings of the clock tell before from after and make rows with equal and with
  different latencies, below and above the millisecond at which an axis is cut off,
  which come to the file in every order the channel allows. They are not multiples of
  a microsecond, so rounding happens. For any clock the theorems of
  `MeasurementProofs` say the same.
- `CHECK_DEADLOCK FALSE` where workers come to the end of their requests. The
  election never stops, so deadlock is checked there.

### Fairness

- `Election`: the heartbeat loop of a running server has no exit, and the Go
  scheduler runs every runnable goroutine, so `HeartbeatStep(s)` and the calls at
  `s` are weakly fair. Crashing and restarting are not.
- `Replication`: handlers and RPCs end (each RPC has a timeout), workers retry.
  Failing, restarting and `Elect` are not fair. That dead leaders are given up
  (`DeadLeaderAbandoned`) does not imply that a new one serves, and
  `election_new_leader` shows that none need; so `AllAnswered` is conditional: if from
  some time on there is always a server that leads, every request is answered.
- `LeaderInterceptor`: RPCs return, sleeps end, the mutex is granted. The cluster's
  steps are not fair: `CallsEnd` does not need an election to end.
- `Measurement`: each worker and main go on when they can; every call returns, which is
  what `CallsEnd` says. Ctrl-C and disk errors are not fair.

## Proofs

All theorems hold for every value of the constants that the modules' named
assumptions admit: any number of servers, workers, operations and failures, any
capacities and bounds. Hypotheses beyond that are part of the statements below. Every
inductive invariant was first checked with TLC on instances like those of the runs.

### Election (`ElectionProofs`)

| Theorem | Statement |
|---|---|
| `TypeCorrect` | `Spec => []TypeOK` |
| `CommitsBacked` | `Spec => []CommitBacked` |
| `ViewsConsecutive` | `Spec => []NoViewSkipped` |
| `LeadersReached` | `Spec => []LeaderOfReachedView` |
| `ViewsMonotone` | `Spec => ViewNeverRegresses` |

`CommitBacked` says something of goroutines in `commitView` only, so it is not
inductive: whether a commit has a majority depends on the votes counted, and
those on where votes come from. The inductive invariant `IInv` adds

- `VotesGenuine`: an entry in a vote table is the table's owner or a server that
  really initiated that view;
- `CallsSound`: whoever started a call initiated its view; a goroutine in
  `commitView` still has a majority of votes in its server's table (`MajorityAt`);
  a server has reached the view of its own initiation and of any commit past its
  compare-and-swap;
- `InitiatedContiguous`: if a view was initiated so was every one below it;
- `FreshUntilUp`: a server that is not serving yet has the state `New` made, so a
  pull is the first thing that sets its view;
- `NoViewSkipped`, `LeaderOfReachedView` and `TypeOK`.

History is never removed from `initiated`, which is what carries the argument over
crashes: votes disappear with a process, the facts they stood for do not. The
step proof has one case per action. `ViewsMonotone` needs only the type invariant
and `FreshUntilUp` (a pull replaces view 0).

### Replication while the first leader stands (`ReplicationProofs`, `ReplicationRefinement`)

`FirstLeaderStands`: the leader of view 0 has not crashed or been stopped. Followers
fail and rejoin, Replicates time out and arrive late, calls are cancelled or given up
with their handlers running, any number of workers is at work, the cache is on or off.

| Theorem | Statement |
|---|---|
| `TypeCorrect` | `Spec => []TypeOK` (whoever fails) |
| `RepliesDistinct` | `Spec => [](FirstLeaderStands => DistinctReplies)` |
| `FollowersBehind` | `Spec => [](FirstLeaderStands => FollowerNeverAhead)` |
| `AnswersReplicated` | `Spec => [](FirstLeaderStands => AckedAtSurvivors)` |
| `EntriesStable` | `Spec /\ []FirstLeaderStands => CacheEntriesStable` |
| `ServiceImplemented` | `Spec /\ []FirstLeaderStands => ImplementsService` |

`replication_follower` checks these five properties where the leader cannot fail. The
hypothesis is needed: after a failover and with more than one request under way the
code keeps none of them. The new leader answers a retry from its cache although
another follower has not got the entry (`AckedAtSurvivors`); a follower may be ahead of
it or hold another value for a retried request (`FollowerNeverAhead`,
`CacheEntriesStable`); it hands out a value again that the old one gave
(`DistinctReplies`), which is what `replication_reorder` comes from.

The inductive invariant, `IInv`, which holds whoever fails (`Invariance`):

- `OneLeader`: nobody but server 0 leads or sends;
- `NothingAhead`: its counter is the largest value in any counter, pull, handler,
  message, cache or answer;
- `ValuesOwned`: a value that a handler holds, the leader's cache has or a client was
  answered belongs to one request, and is above all answers given when that request was
  first issued. It implies `DistinctReplies`, and, with `NothingAhead`, that `Apply`
  makes a new value;
- `OneHandlerUnlessRetried`: a request that was not retried has at most one handler,
  and every cache entry and message of the request carries that handler's value; while
  the handler waits, each server has the entry, is owed it by a message that is waited
  for, has failed, or is recorded in `late`. That is `AckedAtSurvivors` one step early;
- `RequestsInOrder`: a request its worker has not come to has left no trace;
- `IssuedBeforeApplied`: the counter plus the handlers that have not applied yet are at
  most the attempts issued; `CounterService` bounds its answers by that;
- `ValueFromApply`, `NoCacheIfOff`, `ProcessesSound`, `AckedBounded`, `TypeOK`.

The refinement maps each step: `Begin` to `Issue` or `Reissue`, the return of a handler
that is waited for (`CacheHit`, `Reply`) to `Respond`, `GiveUp` to `Abandon`, every other
to a stutter.

### One client through a failover (`FailoverProofs`, `FailoverRefinement`)

`OneClient`: one worker; no cancelled or expired call, no Replicate to a live follower
that times out; at least two servers, and the second one, which takes over, does not
fail. All others, the first leader among them, crash, stop and rejoin at any moment.

| Theorem | Statement |
|---|---|
| `CountedOnce` | `OneClient` implies `Spec => []ExactlyOnce` |
| `ReadsCover` | `OneClient` implies `Spec => []ReadsCoverAcked` |
| `CachesAgree` | `OneClient` implies `Spec => []CacheAgrees` |
| `ServiceSurvivesFailover` | `OneClient` implies `Spec => ImplementsService` |

Each part of the hypothesis stands for something under which the code does not keep
the promise: a second worker (`replication_double_count`, `replication_reorder`), a retry
under a running handler, and a next leader that has rejoined (both under Runs). It is
the setting of `replication_failover`, with any number of servers, requests and tries.

What is in the counter of server 1 is the heart of `FInv`: the worker's current request
is, at server 1, not there (`Before1`), counted without its cache entry (`Half1`) or there
(`After1`), and each state of the handler and of its message to server 1 allows exactly
some of these (`ExactValues`). `Half1` is the dangerous one, a retry would count again; the
invariant says that it occurs only while the message, or server 1's own handler, is about
to store the entry, and a server is not elected while a message to it is open. Without the
cache, after a failover, values are no longer exact and only `InexactCovers` is left: the
counter covers all answers. `Leadership` says that views go from 0 to 1 once. For the
refinement `GInv` adds that no counter is ahead of the attempts issued, and that a request
counted again gets a value above all answers.

### Interceptor (`InterceptorProofs`)

| Theorem | Statement |
|---|---|
| `InterceptorTypes` | `Spec => []TypeOK` |
| `AlwaysAPeer` | without restarts and with two peers or more: no call of any worker ends in `"unreachable"` |
| `FailoverIsTransparent` | `OneWorker` implies `Spec => []FailoverTransparent` |
| `FailoverIsTransparentToTwo` | `TwoWorkers` implies `Spec => []FailoverTransparent` |

`AlwaysAPeer` is for any number of workers on the shared connection, with deadlines: its
invariant `DeadMarks` says that at most one server is down and that what a call has
marked dead is down, so that once around the list there is a peer left. With restarts
marks go stale, which is the finding of `interceptor_dead_mark`.

`OneWorker`: one worker, as in `cmd/client`, `Timely`, no restarts or deadlines, and `MaxAttempts` >
`Slack` + 3 (the code's 15 is for a `Slack` of up to 11). The invariant `Budget` is a
ranking of where the call is (`Left`): at most three attempts fail once the election is
over, one on the reset connection, one at the dead leader, one at a follower that
redirects; and before it is over no more than `Slack` can have failed. `Calling` says that
a call away from both leaders has met the failure, so a stale redirect never sends it
back.

`TwoWorkers`: two workers on one connection, as in a small `cmd/loadgen` run, any number of
calls each, two peers or more, `Timely`, no restarts or deadlines, and `MaxAttempts` >
`Slack` + 6: the code's 15 for a `Slack` of up to 8, the setting of
`interceptor_failover`. Here a worker's rebind closes the connection under the other,
and a hint that was true when a follower gave it can take the connection back to the
dead leader after the election. The invariant `Hints` bounds that: who takes the
connection away from the dead leader has met it and stays with its call until the new
leader is found (`Informed`), so only one call at a time can be misled by a stale hint
(`Back`), and only while the other does no harm (`Harmless`). `Budgets` adds up what a call
may still lose: `Cost`, by where it is, if the other is quiet, and `Detour`, what the other
may make it lose, 5 if the other goes back to the dead leader, 2 if it still has to meet
it or looks for a peer. `Sharing` ties the calls to the connection: a call whose
connection was not closed has the current address, and one that rebinds goes elsewhere
than where it failed.

Six is nearly tight: in TLC two workers lose five after the election. The argument does
not carry over to more workers, where a second call can be misled while the first is:
three lose ten or more, so with an election that costs six attempts the code's 15 are not
guaranteed to be enough for them.

### Load generator (`LoadGenProofs`)

| Theorem | Statement |
|---|---|
| `LoadTypes` | `MSpec => []TypeOK` |
| `CsvIsComplete` | `MSpec => []CsvComplete` |
| `KillsReported` | `MSpec => []KillReported` |
| `KillsNotEarly` | `MSpec => []KillNotEarly` |

The properties speak of the end of a run, so the invariant `LInv` follows every row:

- `RowsAccounted`: the rows sent (in the file or the channel) plus the workers in a call or
  about to send are the operations started; the rows sent are the operations completed
  plus the workers that have sent and not counted; and, by outcome, the rows sent plus
  those about to be are the success and failure counts;
- `RowsOrdered`: a row sent is of an operation its worker has come to, and of an earlier
  one while the worker has another in hand;
- `RowsPast`: no row ends after the last reading of the clock;
- `KillOnce`: the kill is decided exactly when the completed count is at kill-after, and
  then carried out or in the hands of a worker, which has sent its row;
- `Ending`: the channel is closed, and the metadata are written, when the workers are done.

At `Trigger` all rows sent have ended, and they are at least the completed ones: that is
`KillNotEarly`. The index sets are counted with the finite-set theorems.

### Measurement (`MeasurementProofs`)

| Theorem | Statement |
|---|---|
| `FailoverEndsEarliest` | `MSpec => []FailoverEndEarliest` |
| `PercentilesHaveRank` | `MSpec => []PercentilesRank` |
| `AxesHoldAllSamples` | `MSpec => []AxesHoldSamples` |

They are about the report the script makes of whatever file some interleaving of
workers, channel, kill and clock leaves, with any number of rows. Two invariants next to
`LInv`:

- `TimesOrdered`: an operation starts no earlier than the run and ends no earlier than it
  starts, the kill is not before the start of the run, and only a normal end leaves
  metadata;
- `ReportGenuine`: a report is `Analyze` of one of the possible results of the two sorts on
  what is in the file, all of it or, after a disk error, a beginning of it, and of the
  metadata of this run or, after a disk error, none or an earlier run's.

From `ReportGenuine` on the theorems are facts about the script's operators. None needs
induction over a sequence. Sorting is a bijection that goes through the keys in order, so a
sorted list has each row once and ascends. The
first success after the kill is a least index, which exists because < on the naturals is
well founded, and in an ascending list the least index has the earliest end. A
percentile lies between two neighbours in rank, and the operations at or below it are
at least as many as the ranks up to the lower one, by an injection from ranks to
operations; likewise above. That an axis holds every sample is that the last element of
an ascending list which shows every row is the largest, and that metadata, of whichever
run, have a start no later than this run's (`EarlierAssumption`).

### TLC only

- Liveness (`DeadLeaderAbandoned`, `AllAnswered`, `CallsEnd`, `RunEnds`): beyond this prover.
- That what a violated property says fails: a counterexample is one behaviour.

## Not modelled

- Generated marshalling code and stubs (`gen/`), shell scripts (`scripts/*.sh`): no
  logic of the protocol.
- Flags, logging, labels of the plots and where on the page a point is drawn: wording
  and layout.
- Attempt counting (`attempts.go`): a counter in the context of one call, which no other
  goroutine reaches and main reads after the call has returned.
- The retry library: external, its retries happen inside one attempt of the redirect
  interceptor.
- The wait of `-reply-delay` only widens a window the model has anyway. The
  `view_number` in a `Ping` answer is read by nobody. `grpc.NewClient` does not dial, so
  its error path is left out.
- A composition of `Election` with `Replication`. Each has over a million states with
  three servers once timeouts or a second worker are in; their product is out of
  TLC's reach. They meet in `Serving` (the check of `IncrCounter`) and in `Elect`, whose
  assumptions (`Settled`, `Agreed`) are stated above.

## Plan

Done: election, replication with handlers and messages that outlive their callers,
the abstract counter and its refinement, the interceptor with deadlines, the
measurement and what an earlier one leaves to it; proofs of every safety property the
passing runs check, and of the refinement, with and without a failover. Left, in this
order:

1. The election's invariants carry over restarts; what `Replication` assumes of elections
   (`Settled`, `Agreed`) is stated and not derived. State as lemmas which of it follows
   from `Election`.
2. A bound on the attempts that n workers cost each other, and with it the number of
   workers for which 15 suffice.
