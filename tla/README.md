# Verification of the MCP policy gateway

TLA+ modules, TLC configurations and TLAPS proofs for the gateway in `src/`:
a process between an MCP client and its tools that lets policy decide on every
tool call, holds the ones that need it until a human or a stub approves them
over an HTTP API, and writes an evidence log. The tools are those of downstream
MCP servers (proxy mode) or a few built-in ones in a sandbox (demo mode). Paths
below are relative to `src/aimxs_gateway/` of the repository unless they say
otherwise.

## The system

| Part | State | Operations | Modelled in |
|---|---|---|---|
| Approval store (`approval/store.py`) | records, decisions and events by approval id, one lock | `create`, `approve`, `deny`, `wait_for_decision`, `mark_executed`, `get`, `list_pending` | `ApprovalStore` |
| Evidence sink (`evidence/sink_jsonl.py`) | an append-only file | `emit` | `EvidenceSink` |
| Admin API (`admin/api.py`, checks from `main.py`) | none of its own; a pool of worker threads | approve, deny, list | `AdminApi` |
| Stdio server (`mcp/stdio_server.py`) | the call it serves | initialize, tools/list, tools/call | `Gateway` |
| Approver stub (`aimxs_approver_stub/stub.py`) | the list it works through | poll, post a verdict, print | `ApproverStub` |
| Downstream client (`proxy/downstream.py`) | requests in flight, a child process, a reader thread | `start`, `stop`, `request` | `Downstream`, contract in `Rpc`; with the gateway in `ProxyGateway`, contract in `Mediation` |
| Proxy router (`proxy/router.py`) | routes by tool name | `initialize_all`, `build_tools_catalog`, `route_call` | `ProxyRouter` |
| Rule policy (`policy/rules.py`) | none | `evaluate` | `RulePolicy` |
| Reference policy (`policy/reference.py`) | none | `evaluate` | `ReferencePolicy` |
| Sandbox executor (`executor/sandbox.py`) | the file system | `fs_list`, `fs_read`, `fs_write`, `shell_exec` | `Sandbox` |
| Entry point (`main.py`) | configuration | wires the parts, starts the admin server as a daemon thread and the downstream servers | partly, with the parts |
| Configuration, CLI, demos | none | | not modelled |

How they interact. One thread reads the client's messages from stdin and serves
them one after the other. For a `tools/call` it records the proposal, asks the
policy, records the decision, and then refuses, executes, or - for a step-up -
creates a record in the store and blocks on its event for at most the TTL.
Meanwhile worker threads of the admin API look the record up, check separation
of duties and capability, decide on it under the store's lock, set the event,
and record what they did. The stub and the CLI are clients of that API. In
proxy mode, executing means routing the name to a server and making a request:
the server thread registers it in a map, writes a line to the child's stdin and
waits on an event, which the child's reader thread sets when the response with
that id comes. In demo mode it means converting the arguments and calling the
sandbox.

What is hard about it:

- deciders race with each other, with the waiter's timeout and with the expiry
  of the record; the checks run before the lock is taken, the status is read
  again after it is released, and the evidence is written after the decision
  has already taken effect, or is not written, and the approver gets a
  500;
- two clocks: records expire by `time.time()`, waits by the monotonic clock and
  from a later start;
- any `emit` may fail, before its line is in the file or after it, and the
  handler then leaves by an exception clause;
- the process ends when stdin does, whatever the daemon threads are doing;
- the reader thread fills a holder and sets an event outside the lock that
  guards the map of requests, and the requester reads the holder outside it;
  responses come late, twice, in any order or never; a write to a child that
  does not read has no timeout; a child may close its stdin and talk on; a
  reader that has ended wakes nobody;
- a listing clears the table of routes and rebuilds it server by server, any of
  which may fail; names are joined with a colon that names may contain;
- an action word the rule policy does not know means allow; a command may be on
  several lists of the reference policy;
- a path in the sandbox may lead through links, and a listing looks at what the
  links of a directory lead to; a write makes directories before
  it looks at its mode and empties the file before it fills it; a missing
  argument becomes the text `None`, although the schema of `fs.write` requires
  path and content (`mcp/stdio_server.py:136`).

What makes each part correct:

- the store decides each record once, neither late nor early, and its three
  traces of a decision agree (`StoreConsistent`, `DecisionFinal`,
  `NoLateApproval`, `NoEarlyExpiry`);
- the API accepts decisions only from entitled principals, accepts one per
  record, writes about it what the store says, and answers truthfully, also when
  the answer is that the line could not be written
  (`DecidedByEntitled`, `OneAcceptedDecision`, `AnswerTruthful`);
- the server runs a tool only when permitted and after recording why, answers
  what it recorded, and answers everything (`RunsOnlyIfPermitted`,
  `EvidenceBeforeRun`, `OutcomeRecorded`, `CallsAnswered`), and drops no
  approval that came in time (`ApprovalTakesEffect`, `ApprovalNotDropped`); the
  whole implements the contract in `StepUp`;
- the stub can only ever approve, and what it says it approved is decided
  (`StubOnlyApproves`, `ApprovedMeansDecided`);
- the downstream client gives a request its own response or an error, keeps
  exactly the requests waited for in its map, always ends, and implements the
  contract in `Rpc` (`AnswerIsOwn`, `NeverMalformed`, `PendingExact`,
  `RequestsEnd`, `RpcContract`);
- together they see to it that a server does nothing for a call, however late,
  that was not permitted and recorded, that what is reported as done was done,
  and that only a server which leaves its pipe full for good can keep the gateway
  from answering (`EffectsPermitted`, `ResultsHappened`,
  `AnsweredUnlessStuffed`); the whole, from the message to the effect,
  implements the contract in `Mediation` (`MediationContract`);
- the router leads a listed name to the tool it was listed for, always the same
  one, and lets no call through to a server that the rules close
  (`CorrectRoute`, `RouteStable`, `ClosedServersUntouched`);
- the sandbox keeps its tools inside, but for the type and size of what the links
  of a listed directory lead to, starts a command only as the lists allow,
  with an approval if they ask for one, and costs a file its content only by an
  approved overwrite of that file (`Confined`, `StartsPermitted`, `NoSilentLoss`,
  `WritesApproved`).

## Modules

    ApprovalStore   EvidenceSink
            \        /
             AdminApi            StepUp (abstract contract)
                |                   .
             Gateway                .  refinement mapping
                |                   .
        GatewayProperties . . . . . .
          /         |        \         Rpc (abstract contract)
    MCGateway  ApproverStub   \         .  refinement mapping
                    |          \    Downstream
                  MCStub        \    /
        Mediation . . . . . . ProxyGateway -- MCProxyGateway
        (abstract contract)

    RulePolicy       ReferencePolicy
        |                  |
    ProxyRouter         Sandbox
        |                  |
    MCProxyRouter       MCSandbox

    ApprovalStoreProofs -- GatewayProofs -- EvidenceProofs -- StubProofs
    DownstreamProofs   RouterProofs   SandboxProofs         \ ProxyProofs

Each of the parts below stands for itself, and they meet in three places.
`ProxyGateway` composes the gateway with the downstream client. In `Gateway`
alone, `Execute` is one call of `route_call` or of the executor, which may run
the tool, run it and fail, or fail without running it: `ProxyGateway` shows that
this is what a request comes to, and `Sandbox` what a call of a built-in tool
does. And the `Policy` of `Gateway` is any function from tools to verdicts, of
which `RuleVerdict` and `ReferenceVerdict` are two (`FirstRuleDecides`,
`ReferenceDecides`).

- **ApprovalStore.** A record is named by the call it is created for: ids are
  fresh `uuid4` values and no call has two records. `status`, `approver`,
  `decision` and `event` are the code's fields; `remaining[c]` stands for
  `expires_at - time.time()`. `create` is two steps, since it reads the clock
  before it takes the lock. `approve` and `deny` are two steps, `BeginDecision`
  and `CommitDecision`: they hold the lock, but the waiter's `Event.wait` does
  not need it and time passes, so a waiter may time out in between. The other
  critical sections are one step.
- **EvidenceSink.** The log is the set of lines written, each an event, a call
  and a principal. Opening, writing and closing an appended line is one step;
  with `SinkMayFail`, `emit` may raise, before the line is in the file or after
  it. Half a line counts as none.
- **AdminApi.** One handler per thread, with a step for each access to the
  store or the log: token, lookup and checks, decision, second read of the
  status, evidence, answer. The second read is of the record `get` returned, when
  the lock is released again. The checks read only fields of the record that
  never change. Requests are arbitrary: any token, verdict and record.
- **Gateway.** The server thread's program counter `gw` follows
  `_handle_tools_call`; every emit, store access, wait and execution is a step,
  and a failing emit goes where the `except` clauses send it. A `tools/call`
  without a name, and one whose params are no object, are answered on their own
  ways, by a result and by an internal error. `Exit` is the end
  of stdin, after which no thread moves.
- **StepUp.** What the gateway promises of a call, without locks, events,
  clocks or evidence: opened, decided at most once by an eligible principal,
  run at most once, only while open and permitted, closed.
- **GatewayProperties.** The properties of the composition and the refinement
  mapping to `StepUp`.
- **ApproverStub.** The stub beside the gateway: it polls, posts verdicts from
  the list it got, prints without looking at the status, and gives up on a slow
  answer while the API carries the request out.
- **Downstream.** `phase[r]` is where the server thread is in `request`:
  registering the entry, writing, waiting, removing the entry, reading the
  holder. `reader` and `found` are the reader thread, with filling the holder
  and setting the event as separate steps. The two pipes hold a bounded number
  of lines. The child takes requests, carries each out or not, writes any line
  that answers a request it has taken, or none, may close its stdin and live on,
  and may die at any time. The client as it may be used (`Idle` in `Next`) is
  one request at a time; that the gateway keeps to it is a property,
  `ClientKept`. A line that is not valid UTF-8 ends the reader by an exception,
  as in the code.
- **Rpc.** What the client's callers may rely on: requests one at a time, each
  carried out at most once, success only for one that was, and nothing at all
  said of one that raised - it may even be carried out later.
- **ProxyGateway.** The gateway with the steps of a request in the place of
  `Execute` and of a listing, over one server, which is started before the first
  message is read. A request is named by the message it is made for; the
  client's event is called `signal` here. `ReturnCall` and `ReturnListing` are
  written from the router's code alone, and use neither `Execute` nor
  `ListTools`: the client's answer says which line of evidence comes next, and
  the call counts as run when its line has reached the server or its pipe.
  Likewise a request is made whenever the server thread is at one, whatever the
  client is doing. Both could go wrong - a call recorded as executed that no
  server had, a request handed over twice, one made before the last has ended -
  and `GatewayKept` and `ClientKept` say that they do not. The child works on
  while the gateway waits for approvals, answers, or has exited.
- **Mediation.** What proxy mode promises of a call from end to end: an effect at
  the server is granted first, by policy or by an eligible principal, and comes
  at most once; a call on record as done has had it, one on record as refused
  never will. It is `StepUp` with the effect in the place of the run. Of a call
  that merely ended - given up, failed, or with an outcome that could not be
  written - it says that a granted effect may still come, since the code cannot
  recall a line it has written to a pipe.
- **RulePolicy**, **ReferencePolicy.** `evaluate` of the two plugins as
  operators. What `fnmatch` makes of a pattern is the constant `Glob`, any
  relation of patterns and names; `Lower` is `str.lower` on the configuration's
  words.
- **ProxyRouter.** A tool's name is the sequence of its parts between colons, so
  joining names is concatenation and splitting at the first colon is `Head` and
  `Tail`. A listing is a loop with one step per server, each of which answers
  with any set of tools, or fails with part of its tools entered. Calls are
  judged by the rule policy and routed by the table or, failing that, by the
  name. A step-up is taken as approved: who approves is `Gateway`'s matter.
- **Sandbox.** A resolved path is the sequence of its names, `Resolve` what
  `Path.resolve()` makes of a client's path - a constant, in `MCSandbox`
  computed part by part with links followed. `Links` are the links on the host:
  an entry of a listed directory that is one is shown as what it leads to. Files
  keep what was written to them, text by text. `fs.write` follows the order of
  the code: limit, join, parent directories, mode, open, write. Approval is an
  input: who gives it is `Gateway`'s matter.
- Definitions called mutants are the code with one plausible mistake; each
  shows that the property named with it in `PROJECT.json` can fail.

## Runs

| Run | Question | Instance |
|---|---|---|
| `race` | do racing deciders keep the store consistent, decide once and for good, and get true answers? | 1 call, 2 admin threads, all tokens, a failing sink |
| `faults` | does a failing sink ever let a tool run unrecorded, or an answer go out unrecorded? do the contracts of the store and of step-ups survive that, and a wall clock that is set? | every kind of message, faults at every emit, clock steps of one tick both ways, 1 admin thread |
| `live` | is everything answered and recorded, are wake-ups never lost, are approvals never late? | fairness, 1 call, 1 admin thread |
| `polls` | what does the stub do to the records, with stale lists and slow answers? is one of three requests accepted, and accounted for in the log? | stub with two requests in flight, and an admin; a sink that works |
| `rpc` | does a request get its own answer, or an error, and always end? | 2 requests, pipes of one and two lines, any child |
| `proxy` | is the contract kept from a client's message to what the server does for it? | 1 message, 1 admin thread, a failing sink |
| `late` | what becomes of a call that was given up, and of the next one: is what the server does permitted, and what is reported done really done? do both parts keep their specifications? | 2 messages, no approver, fairness |
| `routes` | do names keep their meaning through listings that fail, and closed servers stay closed? | 2 servers, 3 tool names, 7 names to call |
| `demo` | what may be read, listed, written and started, by which calls? | 11 paths, links out of the sandbox to a directory and to a file, 5 commands |
| `exit` | README: all decisions are recorded - refuted | 1 call, 1 admin thread |
| `denies` | stub: "deterministic deny" - refuted | 1 call, 1 admin thread |
| `collision` | README: routed to the correct server - refuted | 2 servers, the name of one an extension of the other's |

Bounds.

- A TTL of one tick is enough to see a record live, expiring and expired while a
  thread is between any two steps, because ticks and steps interleave freely; in
  `faults`, `Horizon` follows records one tick past their expiry, so that a step
  back can revive them. One call suffices for the races, since records share
  nothing but the lock; `late` has two for what the server carries from one call
  to the next, and the safety theorems hold for any number of calls. Two
  deciders besides the waiter cover every pair of conflicting accesses. The
  principals are an admin, an approver and an agent, and the tools are one for
  each verdict of the policy and one beyond the approver's capability. `race`
  has a sink that may fail, and step-ups by an agent and by the approver; the
  admin's own are among the messages of `faults` and of `live`.
- `rpc`: two requests, made one after the other, are what it takes for a response
  to meet the wrong one. An input pipe of one line is full while a request is in
  it, and so blocks the next; an output pipe of two holds a late response before
  a timely one, in either order, or the same one twice.
- `proxy` and `late` split what is too large together: the whole gateway with
  one message, a tools/call or a listing, and two messages with nobody to
  approve them, so that step-ups time out and allowed calls meet each other's
  late responses; one of the two is a notification, which gets no answer. Pipes
  of one line. The sink may fail in `proxy`; in `late`, which asks about
  fairness and about the server's answers, it does not.
- `routes`: names of one to three words; tool names that contain a colon, begin
  with the other server's name, or are a server's name; calls by every listed
  name, by names no server lists, and by a server's bare name. The rules have a
  pattern that is blank, one in capitals and one misspelt.
- `demo`: relative, absolute and parent paths, paths through a file, through a
  link and to the parent of where the link leads; a listing of the directory that
  holds the links; a text below and one above the
  limit; files of at most two texts (`MaxChunks`). The lists overlap, and a
  denied command is given a path by the configuration; an allowed one is not
  installed.

Deadlock is not checked: the gateway stops after `Exit`, the router after a
failed start and the client when all requests are done.

Fairness. The server thread, and a thread inside a handler, are scheduled by the
operating system and are weakly fair; time passes. In `live` a tool returns,
because the downstream client and the sandbox bound each call with a timeout;
`rpc` shows the exception: `RequestsEnd` holds under fairness of the reader
thread and of a started request, with nothing assumed of the child, but only if
the child keeps making room in its input pipe, closes it or dies, since a write
has no timeout. `AnsweredUnlessStuffed` says the same of the whole gateway in
`late`, with nothing assumed of the reader thread either. No fairness is assumed
of the client, of approvers, or of the lock: it is held for finitely many
decisions, one per record. `live` has a sink that does not fail; with one that
does, a decision may stay unrecorded.

Findings.

- `exit`: the admin thread decides first and records second, and it is a daemon.
  The server can wake, run the tool and answer, and the client close stdin,
  before the line is written. The repository's README (line 96) says that
  decisions are recorded in the log. `OneAcceptedDecision` says how far it can
  go: with a sink that does not fail, the line of a decision that took effect is
  in the log or is the next thing some thread would write.
- `denies`: the stub's "deterministic deny" of a request beyond its capability
  is refused by the API with 403, because a denial needs the same capability.
  The stub prints `Denied`; the request stays pending and the gateway blocks
  until the TTL. `polls` shows the other side: the stub can only ever approve.
- `collision`: the repository's README (line 95) says that a call is routed to
  the correct downstream server. Names are joined with a colon and not checked
  for one: servers `a` and `a:b` can list two tools under the same name, and the
  later server gets the calls of both. `routes` and the proofs show that nothing
  goes wrong as long as no server's name has a colon.

## Proofs

TLAPS proves the following for all constants that satisfy the `ASSUME`s of the
modules: any calls, threads, principals, tools and policy, any TTL, any clock
adjustments, a sink that may fail; any requests, pipe sizes, servers, rules,
paths, links and lists. The assumptions say that the special values (`NoCall`,
`NoPrincipal`, `NoRequest`, ...) are none of the ordinary ones, that sizes and
the TTL are natural numbers, and which mode the gateway is in. Where a theorem
needs more, its statement says so: `Forward` (the wall clock is never set back),
`ColonFree` (no server's name has a colon), `Distinct` (the stub has a token and
a principal of its own).

- `ApprovalStoreProofs`: `StoreTyped`; `StoreConsistency`, which is inductive
  together with the types; `DecisionsFinal`, because a committed decision meets
  a pending record and a pending record has none; `ExpiryNeverEarly` and
  `ApprovalNeverLate`, under `Forward`: time left only falls, so a record past
  its TTL with no live section (`Lapsed`) stays so until it is denied or
  expires. Without `Forward` both are false.
- `GatewayProofs`: the inductive invariant `IInv` adds to the types and to
  `StoreConsistent` what each thread knows. `ThreadInv`: a thread that decides
  may decide on that call, and so may the holder of the lock; this carries the
  check of the lookup to the commit. `ServerInv` and `CallInv`: where the server
  is implies why (policy requires approval, the store says approved), and that
  the tool has not run. From it follow `GatewayTyped`, `RunsPermitted`,
  `DecidersEntitled`; `GatewayKeepsStore`, that the composition implements
  `StoreSpec`, which brings the store's theorems over; and
  `GatewayImplementsContract`, the refinement of `StepUp`, step by step.
  `ApprovalsNotDropped` is what can be proved of `ApprovalTakesEffect`: an
  approved record has its event set, so the wait cannot time out and the decision
  that is collected is the approval; from there the server has one way to go.
  The live run shows that it goes.
- `EvidenceProofs`, of the admin API: `AnswersTrue` and `AcceptedOnce`. `Knows`
  says of each thread what its result lets it conclude about the record now:
  after a success, that the record is decided its way in its name; after a
  failure whose status was read again, that the status it read is a reason for
  the failure and still true. The record is decided by then, so it does not
  matter that the lock is not held, and a 500 that a failing sink leaves of an
  entitled request is as good as the answer it replaces. `LoggedAfter` and
  `WrittenOrOwed` tie the accepted lines of the log to the thread that owes or
  has written one, so that a second success would need a second decision.
  `LoggedAfter` also says that every accepted line agrees with the store, which
  holds because a decision is final (`LinesTrue`), and `Accounted` that a
  decided record has its line or a thread that owes it: the thread that decides
  is inside the lock (`DecidedInLock`), and only a failing sink takes the debt
  away. Of the calls: `NothingRunsUnrecorded` and `OutcomesRecorded`, from
  `CallLogged`, what the log holds at each point of the server's program. A line
  written by an emit that raised can make a call count as executed and as failed
  in the log; its client is then told of no result. The log only grows, and the
  admin threads write other lines than the server.
- `StubProofs`: `StubTyped`, `OnlyApprovals`, `SaidIsDecided`, the last two under
  `Distinct`. That the gateway's theorems hold beside the stub, on which these two
  rest, needs no argument: a step of the stub is by its definition a step of the
  gateway, or leaves the gateway alone (the lemma `StubKeepsGateway`).
- `DownstreamProofs`: `ClientTyped`, `NothingLeftPending`, `HolderFilled`,
  `AnswersOwn`, and `ClientImplementsRpc`, the refinement of `Rpc`. The
  strengthening says that one request is under way at a time (`OneAtATime`),
  that a request is in the input pipe at most once and not after it was taken
  (`WrittenOnce`), that every response on its way answers what was carried out
  (`OnItsWay`), and that the holder is filled before the event is set
  (`FilledFirst`).
- `ProxyProofs`: `ProxyKeepsGateway` and `ProxyKeepsClient`, that the
  composition implements `Spec` of `Gateway` and of `Downstream`, so that the
  theorems of either hold of its half. Neither comes from the way the two are
  put together, and neither can be had without the other: a call that goes on
  record as executed was handed to the server because a response the client lets
  through is the request's own (`ReturnedHanded`, from the client's invariant),
  and that invariant needs one request at a time, which the gateway keeps
  because it stays where it is until the request has ended. So both are proved
  from one invariant, `PartsInv`: that of the gateway, that of the client, and
  `UnderWay`, which says that a request that has begun and not ended is the one
  being served, and that none begins before the server is started. Those of
  `Gateway` are cited as they stand; those of `Downstream` through an instance
  of `DownstreamProofs` with the composition's variables (`ClientAlways`,
  `ClientTyped`). `ContractsKept` says what this comes to: both halves keep
  their abstract contracts at once. On that rest
  - `EffectsArePermitted`, from `HandedOver`: whatever is in the pipe or was
    taken is the call under way or counts as run, and what counts as run was
    permitted and recorded;
  - `ResultsAreReal`, from `ResultBacked`: while the server thread holds a
    result, and ever after it said so, the client's answer for that very request
    is a result, and the client's invariant has it that such an answer was
    carried out once;
  - `ProxyMediates`, the refinement of `Mediation`. A step of the gateway moves
    the stage of a call or its decision (`GatewayStep`), a step of the server
    carries a call out (`EffectStep`), the rest stutters. That an effect was
    granted, and never comes after a refusal, is `EffectsPermitted` of the state
    after it; that one stands behind `done` is `ResultsHappened`; and that a
    closed call never moves again is `OutcomeFinal`: once a message
    is answered, the server writes no more about it.
- `RouterProofs`: `RouterTyped`, `ClosedStaysClosed` for all names, and
  `RoutesCorrect` and `RoutesStable` under `ColonFree`: then the table never says
  anything but what the name itself says. `collision` shows what happens without.
  `FirstRuleDecides` describes the rule policy without its CHOOSE, from the least
  number of a set of rules.
- `SandboxProofs`: `SandboxTyped` and `StaysInside`, inductive together, because
  the directories above a path inside are inside or above the sandbox
  (`AboveInside`). `StaysInside` is no claim that the sandbox hides the host: of
  what is outside, the listing of a directory tells the type and size of what
  its own links lead to, since `is_dir`, `is_file` and `stat` follow them; the
  theorem says that it tells of nothing else. And, of each step, `DenialWins`,
  `NothingLost`, `ChangesApproved`.

Model-checked only: the liveness properties (`CallsAnswered`,
`ApprovalTakesEffect`, `DecisionsRecordedInTheEnd`, `RequestsEnd`,
`AnsweredUnlessStuffed`), which are out of the prover's reach, as is anything
else that needs ENABLED. Every safety property of a passing run is proved.
`ApprovalNotDropped` is proved only: `ApprovalTakesEffect`, of which it is the
safety half, is the one a run checks.

## Not modelled, and why

- Bytes, JSON, HTTP framing, token comparison in time, file contents, sizes in
  characters or bytes, output clipping, glob syntax, risk tiers and reason codes
  of the policies: data the properties do not tell apart.
- Malformed lines on stdin, which the server skips without a trace.
- A stdout that breaks: writing the answer then raises out of the loop and the
  process ends, like `Exit` with the answer lost.
- A kill in the middle of a step, and concurrent writers of one evidence line:
  lines are short and appended with one write. Where in the file a line stands,
  and so what becomes of the line that is appended to the torn end of one whose
  write failed halfway. Directories of one path are likewise made in one step.
- What a shell command does to the file system once it runs, resource limits,
  and links that change while the gateway runs: the operating system's and the
  operator's.
- Removal of records: the code has none, the store only grows.
- What becomes of downstream servers that were started when a later one fails:
  their stdin closes with the process, and the rest is theirs. The `initialize`
  request made of each server at start is a request like any other, and is left
  out of `ProxyGateway`.
- Configuration (`config.py`) parses a file once at start: its values are the
  constants of the modules. The command line client makes one request per
  command, one of those `AdminApi` receives from anybody. The demo drivers are
  scripts, and their echo server is one of the servers `Downstream` allows.

## Plan

Every part of the program with state of its own is modelled. What would still
add something:

1. The file system as a moving target: links made by an approved shell command
   between the resolution of a path and its use.
2. `ProxyGateway` with several servers and the router's table between, so that
   `Mediation` could name the tool that is carried out.
