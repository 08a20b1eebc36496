# go-llm-agent in TLA+

Specifications of [go-llm-agent](../src), a command-line and HTTP agent written
in Go: what its concurrent and failure-prone parts do, checked by TLC on small
instances and, for the parts that matter most, proved with TLAPS for every value
of the parameters. The modules are translated from the source; `PROJECT.json`
maps each definition to the lines it stands for.

## The system

| Component | State it keeps | Operations | What is hard | What makes it correct |
| --- | --- | --- | --- | --- |
| Approval broker (`agent/approval.go`, `httpapi/approval.go`) | pending channel per run and call ID | `Request` (blocks), `Submit`, `Decide` | answer, deadline and cleanup race; IDs are reused | a waiter is reachable, a decision is its own, timeouts deny |
| Audit log (`audit/wal.go`, `sender.go`, `emitter.go`) | one JSONL file and one cursor per run and session | `emit`, `drainRun`, `Shutdown` | torn writes, lost replies, crashes between send and cursor | at least once, in order, removed only when delivered |
| Run lock (`audit/emitter.go`, `sender.go`, `wal_lock_unix.go`) | a lock file per run, flocked while the process lives | `init`, `scanDeadRuns`, `Shutdown` | several processes; flocks belong to inodes and removals to paths | nobody drains a live run; nothing is removed unsent |
| Agent loop (`agent/loop.go`) | history, hop, retry counters, stream accumulator | requests, tool calls, checks of answers | many ways out of a tool call; retries that give a hop back | history and audit paired; nothing runs uncleared; bounded cost |
| REPL and session (`cliui/repl.go`, `session.go`, `compact.go`, `agent/compact.go`) | history, session file, totals, tool switch | turn, commit or rollback, `/clear`, `/compact`, resume | partial turns, failed recording, compaction of paired messages | the history is one a provider accepts, and so is a resumed one |
| Terminal turn (`cliui/repl.go`, `approval_prompt.go`, `rawmode.go`, `lineedit`) | byte pump, paste state, prompter | keys, approval prompts, interrupts | three channels in any order, ESC or escape sequence, type-ahead | an approval answers the call it was shown for |
| Billing (`billing/`) | totals per session and day, JSONL store | `Add`, queries | failure after the totals have moved, overflow | totals agree with the store, budgets are not passed |
| MCP client (`mcp/client.go`) | child process, pipe, next ID, `closed` | `call`, `Close` | cancellation while a response is under way | a response goes to its own call, nothing blocks for ever |
| HTTP API (`httpapi/`) | rate limiter buckets, approver | completions, approve, usage | streaming to a client that left, eviction of buckets | bounded buckets, one outcome per run |
| Providers and retry (`llm/`) | stream accumulators, attempt | `Stream`, `Recv`, `Close` | calls in pieces, broken streams, overflow of the backoff | the call assembled is the call sent |
| Tools (`tool/`, `fsx/`, `mcp/`) | registry of read files, sandbox roots | file, shell, network tools | files that change between read and edit | an edit applies to content that was read |
| Memory, instructions, enrichment (`memory/`, `instructions/`, `enricher/`) | notes and their index, imported files | append, expand | write in two steps, cycles of imports | the index names what exists |
| Hooks, parallel tools, routing (`agent/hooks.go`, `parallel.go`, `routing.go`) | none that outlives a call | run hooks, run calls, pick a model | cancelled siblings, a hook killed by the end of the context, approvals one at a time | an outcome per call that says what ran |
| Configuration, safety filters, observability, prompts, evaluation, storage | settings, patterns | load, match | little | outside the model |

How they meet: the REPL or the HTTP API starts a turn of the **agent loop**, in a
goroutine that sends events on a channel. The loop calls the **provider** (wrapped
by retry and by the audit wrapper), **billing** for each usage, the **approval
broker** (HTTP) or the **terminal prompt** (REPL) before a guarded tool, the
**hooks** around it and the **tool** itself, and records each step in the **audit
log**, whose sender runs beside it for the life of the process and shares a
directory with the other processes of the user through the **run locks**.

## Modules

| Module | What it is |
| --- | --- |
| `ApprovalSpec` | abstract: one slot per key that is opened, answered at most once, and closed by its answer or given up |
| `ApprovalBroker`, `ApprovalBroker_proofs` | the broker: mutex sections and channel operations as steps; its inductive invariant, its safety properties and its refinement of `ApprovalSpec` |
| `AuditLog` | abstract: an at-least-once log with a confirmed prefix |
| `AuditWAL`, `AuditWAL_proofs` | one log file, its cursor, its owner's sender and a later process; order, removal and the refinement of `AuditLog` |
| `AuditRunLock`, `MCAuditRunLock`, `AuditRunLock_proofs` | the processes over one directory: start, scan, removal, shutdown; the model with its processes interchangeable; the safety properties |
| `AgentLoop`, `AgentLoop_proofs` | one turn of the ReAct loop; its safety properties |
| `SessionHistory`, `SessionHistory_proofs` | the history of a chat, its compaction, its record on disk, crash and resume; its inductive invariant and its four properties |
| `LineEditor` | the line editor of the prompt, one operator per key: editing, history, reverse search, pastes |
| `TerminalTurn`, `TerminalTurn_proofs` | extends `LineEditor`: the byte pump, turns, approval prompts and compaction on a raw terminal; the approval property, the types, the search and the pastes |
| `Billing` | the accumulator and its JSONL store |
| `ProviderWire` | what the five clients make of a history when they send it, and of the calls in a whole response |
| `ProviderRound` | extends `ProviderWire`: a conversation through the audit wrapper, the retry loop and the readers of the streams |
| `McpClient` | the callers of an MCP client, its mutex, the reading goroutines, Close and the server |
| `ToolBatch` | several tool calls of one answer with approvals, hooks, semaphore and cancellation |
| `HttpGate` | the layers of the HTTP server and its limiter |
| `HttpChat` | one chat completion: the goroutine of the agent, the channel and the handler |
| `Memory` | memory files under their lock, and the notes |
| `Services` | these seven parts side by side, with their constants, the assumption on them and their ten properties |
| `ServiceCalls_proofs` | of `Services`: the outcomes of a batch, the responses of MCP, the pairing of the audit log, the pauses of the retries, the calls that a client takes |
| `ServiceState_proofs` | of `Services`: the totals of billing, the cache of the limiter, the streamed chat, the memory files |
| `MCServices`, `MCStreamedCall` | instances of `Services` and of `ProviderRound` for TLC |

How they meet. `AgentLoop` treats the reviewer, the tools, the hooks and the provider
as anything; `ApprovalBroker` and `TerminalTurn` are the two reviewers' ways in,
`ToolBatch` has the hooks in detail, and `ProviderRound` the provider, the retry and the
audit wrapper under the loop's `streamTurn`. `SessionHistory` takes what a turn leaves,
whatever it was. `AuditRunLock` has the content of a log as `none`, `unsent` or `sent`;
`AuditWAL` has its lines. `HttpChat` starts where `HttpGate` lets a chat through.

### ApprovalBroker

`pending`, `buf` and `got` are the map, the one-element channel buffers and the
decision received; `pc` is where a call of `Request` stands (`waiting` in the outer
select, `cancelled` between the two selects, `expired` and `got` before the cleanup).
A section under `a.mu` is one step: `Register`, `Accept`/`Reject` inside `Submit`,
and `Unregister` inside `Return`. Between them the code holds no lock, and neither
does the model. `ContextDone` is the deadline or the caller leaving. `target` and
`inTime` are history variables: which call an answer went to, and which answers came
before the end of the context.

### AuditWAL

`wal` is the file as complete lines, each the `Seq` of its event or `Spoiled`;
`torn` says that the file ends in a piece of a line, which the next append completes
to an invalid one, as `O_APPEND` makes it. `cursor` is the cursor file and changes
by rename, atomically. A drain goes through `read`, `send` and `mark`; a failure
anywhere returns to `rest`, as the error return of `drainRun` does. `Exit` is the end
or the death of the owner at any step; then a scanner drains the rest and removes the
files. `topic` is what the server has stored.

### AuditRunLock

`link[r]` is the inode at the path of run r's lock, `flocks` holds run, inode and
process, so that an unlinked file that is still open and a new one at the same path
are told apart. `OpenOwn`/`LockOwn` and `OpenNext`/`TryLock` are separate because
`flockFile` opens and then locks. `at` is the program counter of the sender: its scan
at the start and then its own loop. `early` remembers the runs that were taken for
dead while they started, `late` those that appended after their Shutdown.

### AgentLoop

`pc` follows `runReAct`: the automatic web tools, the request, the stream, the two
checks of an answer, and the stations of `handleToolCall`. `msgs` is the history of
the turn as roles and call IDs, `audit` the tool records, `shown` the origins of the
text sent to the screen. A text is the number of the request that generated it, or
`Fixed`; whether the checks find it sufficient is open, except that an empty text
never is. `appendToolError`, the audit record and the next hop are one step
(`AnswerCall`), as they follow each other in one goroutine that nothing else observes
in between.

### SessionHistory

A message is its role, its turn, the number of its call and, for a user message, the
turns whose content it carries: `CompactMessages` puts what it cuts into the first user
message it keeps. `commitTurn` changes the history at once and `Record` writes the
messages one by one; between them a write may fail, leave a piece, or the process may
die. A torn last line is completed to an unreadable one by the next append, as
`O_APPEND` does; a piece behind a piece leaves it torn. What a compaction keeps is told by
the set of positions at which a user turn starts. Session IDs are a second and a suffix, so that two chats may meet in
one file. When compaction is due is open at every turn; a failed one changes nothing.

### LineEditor and TerminalTurn

A byte is a string, and bytes that are keys have the name of the key. A character of a
line is the byte it was typed as, or the placeholder of a paste, which is one character
here and a text of a dozen runes in the code: Backspace and Delete in it leave a text that
no longer expands (`BreakAt`). "p" and "q" stand for what is pasted, so that
`TypingAssumption` keeps them off the keyboard; the last byte of a marker comes with its
first, and a line has room for two characters (`maxLineLength` is 4096).
`input` is what was typed and not yet taken, `pending` what the pump pushed back, and
`mode` is what the REPL goroutine is in: the prompt, the select of `runTurn`, its key
handling with the grace period after an ESC, an escape sequence, an approval prompt, a
compaction. `Done` is the end of the context of an approval, `shown = "stale"` a prompt
whose call has given up. A lone ESC is told from a sequence by what follows at once.

### Billing, ProviderWire, ProviderRound

`Add` holds its mutex throughout and is one step, with the store failing at any of its
three points; `stuck` is the error that the buffered writer keeps, `life` the process,
which starts with empty totals. In `ProviderRound` a step is one attempt, one pause,
one line read or one event of an outbox handed through the wrapper to the loop. Calls
come in fragments, in blocks or whole, as each server sends them, and a stream may
end, break or turn into junk at any line. The backoff is computed in signed integers of
`Width` bits.

### McpClient, ToolBatch, HttpGate, HttpChat, Memory

`McpClient`: `rch` is what the goroutine of a call has read; a cancelled caller closes
the client and stays in `collect` until that goroutine is back. `ToolBatch`: `pc` is
where each call stands, and the context of the batch ends with the caller's or, with
FailFast, after the first error. `HttpGate`: a request is one step, since `allow` holds
the limiter's mutex; time is a token that falls into every bucket,
and `seen` is a history variable: when each key was looked up last. `HttpChat`: a bounded
channel between the agent and the handler. `Memory`: the files under their lock, write by
write, with a crash between any two, each part known by where it ends; the notes as
lines with their sizes, a piece of a note staying before the next one.

## Runs

| Run | Instance | Shows |
| --- | --- | --- |
| `ApprovalBroker` | 3 calls, 2 answers, 1 run, 2 call IDs | reachability, own decisions, answers in time, termination of `Request`, refinement of `ApprovalSpec` |
| `ApprovalAcknowledged` | 1 call, 1 answer | a violation: an acknowledged answer may be thrown away |
| `AuditWAL` | 4 events, batches of 2, 2 faults | order without gaps, removal, eventual delivery, refinement of `AuditLog` |
| `AuditRunLock` | 3 processes, 1 session, 2 scans at a time, 1 writer | live runs left alone, removal only of what was sent |
| `AllWALsDrained` | 2 processes, 1 session | a violation: a WAL of a session younger than the scan is orphaned |
| `AgentLoop` | 2 hops, 2 IDs, a safe, a guarded and an unknown tool, 1 validation retry, 2 answer retries, 2 calls a stream | pairing of history and audit, clearance, bounded requests, the shown text |
| `SessionHistory` | 2 chats, 3 turns, 1 turn kept, 2 sessions, 1 fault | accepted histories, no turn forgotten, complete records |
| `CallIDsAreUnique` | 1 chat, 4 turns, 2 kept | a violation: call IDs repeat after a compaction |
| `TerminalTurn` | 3 things typed of 8 kinds, 2 approvals, lines of 3, 3 history entries | pastes in one piece, search, own approvals, turns that come back, Ctrl-C |
| `YesIsApproved` | 2 lines typed, 1 approval | a violation: y and Enter on a raw terminal are no answer |
| `Services` | `MCServices` | ten properties of seven parts |
| `StreamedCallIsSent` | OpenAI, 1 round | a violation: a streamed call loses its name and ID |

`Services` puts the seven parts that share no state with each other side by side:
`which` says whose behaviour it is, the others stay in an initial state, so that the
states are the sum and not the product of theirs. Each `INSTANCE` is the whole part. The
properties are those of the parts, by the same name. `MCServices` gives the constants
small values, and to the parts that do not run one initial state (`QuietInit`); the
proofs are about `Services` itself.

### Bounds

* ApprovalBroker: the races are between a call, a later one of the same key and an
  answer; a third call gives a key with two predecessors, and two IDs a wrong key to
  mix up. One run ID is enough because the key is a pair and the second component
  already differs. The proofs have no bound.
* AuditWAL: four events make two full batches, so a partial batch, a batch boundary
  and an append during a batch all occur. Two faults (torn writes, lost replies,
  failed cursor writes, dead scanners together) let a repeat fail again.
  `SendRefused` and `Exit` are not counted. The proofs have no bound.
* AuditRunLock: two scanners and an owner are the smallest set in which a removed
  inode, a new file at the same path and a live run meet. `MaxWriters` lets one run
  write, since WALs of different runs never interact. The proofs have no bound.
* AgentLoop: two hops let a failed call be followed by another; two IDs a counter
  change its call. `MaxCalls` bounds the calls in one stream, of which the last counts.
  The proofs have no bound on hops, retries, tools or IDs.
* SessionHistory: with one turn kept, the second turn is compacted into the summary and
  the third makes a summary of a summary. Two chats, two opens and two seconds give the
  shared file, the resume of a file that another has and the ID with a suffix.
  `CallIDsAreUnique` needs two turns kept and a fourth.
* TerminalTurn: three things typed are enough for a paste behind an ESC, a late answer
  followed by a key, and a search that is typed into, repeated and aborted. `MaxAhead`
  leaves one byte not taken when the next unit arrives. Two approvals let an answer to
  the first come at the second. A line of 3 characters and 3 history entries are full
  after one paste and one line. The proofs have no bound on keys, approvals, lines or
  entries.
* Billing: `MaxInt` 6 and budgets of 5 tokens and 4 cost with amounts of 1 and 2 meet
  each limit from both sides; two lives and two days let old entries stand beside new.
* ProviderRound: 8 bits and 9 attempts take the doubling over its cap, past the sign
  bit and to the clamp of the shift. Two pieces and two calls give every interleaving
  of two calls in fragments; two rounds send the first call back.
* McpClient: two callers with two calls each and one stray line: a response that comes
  one call late. ToolBatch: three calls, a limit of two: one waits. HttpGate: a cache of
  two and three keys, a burst of two. HttpChat: a channel of two and three pieces of
  text, so that it fills. Memory: a limit that one part meets and two exceed.

### Fairness

* ApprovalBroker: weak fairness of each goroutine of `Request`, which is runnable
  whenever a case of its select is ready. Reviewers and deadlines owe nothing.
* AuditWAL: weak fairness of the sender's loop (a timer fires each round) and of a
  later process's scan, and of the exit of a process that has shut down; strong
  fairness of `Read` and `Send`, since a refusing server takes the drain back to the
  start each time: a server that is asked for ever answers in the end. Without it
  nothing can be delivered.
* TerminalTurn: weak fairness of the REPL goroutine and of the ends of its waits, of
  `Decide`, of the deadline of an approval and of the timeout of a compaction, which are
  timers, and of the agent's end, since a turn has bounded requests (`RequestsBounded`).
  The user owes nothing.
* McpClient: weak fairness of the goroutines of the callers, of the one in Close, and of
  the timer that kills the server. The server and the contexts owe nothing:
  `CancelledReturns` says what follows once the contexts are done.
* All others state safety only.

Deadlock is checked for AgentLoop, where the turn always goes on until `Run` returns.
The others really stop: every call finished, all processes gone, a bound reached, the
chat at its end.

## Proofs

The theorems hold for every value of the constants, under the assumptions that the
modules name or the theorem states (constants are disjoint, `None` is no process or
caller, a limit is a number) and nothing else. Each is an induction: an invariant
`IInv` that holds at first, that every step keeps, and that implies the property.

* `ApprovalBroker_proofs`: types alone do not give that a waiter is reachable. `IInv`
  adds that an entry of the map is a waiting call that nobody has answered and whose IDs
  are the key (`EntryIsUnanswered`), that an answer went to a call with its IDs
  (`TargetIsOwn`), that what is in a channel or received was sent to that channel
  (`ChannelIsOwn`), and where an answer that came in time can be (`InTimeIsKept`). From
  it follow the three safety properties, that the broker fails closed, and step by step
  the refinement of the slot.
* `AuditRunLock_proofs`: a live run is left alone because the owner holds the flock of
  the inode it opened (`HoldsOwn`) and a scanner that has not disturbed the start has
  that same inode open or none of its own (`PathIsOwn`, `TriesOwn`), which needs that
  inodes are never reused (`Fresh`). Nothing is removed unsent because what the scanner
  has drained stays sent (`DrainedIsSent`): a run whose lock was taken can only append if
  it is `early` or `late`.
* `AuditWAL_proofs`: what lies before the cursor has been delivered (`Confirmed`), since
  a cursor is written only after the batch it ends (`Stored`) and a batch leaves out no
  readable line. A scanner comes when the owner is dead (`ScannerIsAlone`), so nothing is
  appended behind a drain that has found nothing. The last readable line of a batch
  exists by the well-foundedness of the numbers, and with it each step of the log is one
  of `AuditLog` or a stutter.
* `AgentLoop_proofs`: from the end of a stream with a call to the result of the call the
  history and the audit log end in that call and are paired before it (`Handling`);
  otherwise they are paired. Each request is paid by a hop or a retry (`Paid`), the
  checks that a call has passed are those of the place it is at (`Checked`), and where a
  check of the answer is due nothing is shown before it (`Held`).
* `SessionHistory_proofs`: a chat that is not the heir of an unsound file has a history to
  which a user message can be added (`HistoryIsReady`), a history carries the turns that
  were said (`Remembered`), and a file with what its chat has yet to write is what
  `Recorded` says, up to a torn last line (`TornIsLast`). A sound file that nobody writes
  is again such a history (`SoundIsReady`), which is what a resume needs. That a new chat
  finds a session ID is a pigeonhole: each ID taken has cost a turn (`IDsSuffice`).
* `TerminalTurn_proofs`: a prompt that outlives its call is stale (`Agree`), what is
  typed at it reaches no channel, and each call has an empty channel of its own when it
  is offered (`ReplyIsOwn`). For the editor there is a lemma for each operator of
  `LineEditor`: it leaves a sound editor sound (`Sound`: the cursor, the length of the
  line, the places in the history and in a search) and a clean one clean (`Clean`: a
  character of a paste is in no line but by a placeholder that was expanded, and the
  placeholders stand for whole pastes). That the pastes are collected whole needs the
  bytes outside of the editor as well: what it has eaten of a paste, its remainder, what
  was pushed back, an escape sequence that is being collected and what is to come are one
  stream, in which every byte that only pastes have is at its place in a paste that is
  there in full (`StreamIsKept`, `Covered`). A turn passes bytes on in their order or
  takes an ESC or a Ctrl-C that is of no paste (`RemoveIsCovered`); the editor takes a
  marker, a character or the end of a paste from the front (`PasteStarts`, `PasteGrows`,
  `PasteEnds`); and a step that might take something else of a paste sets `bitten`.
* `ServiceCalls_proofs`. Batch: a call that was turned away, by the end of the context, a
  killed hook or the registry, is done and has not run (`TurnedAway`), and in a batch with
  a barrier all calls before one that has begun are done (`OneByOne`), so at most one is
  busy. MCP: IDs grow, so the request that is out has the newest one (`Newest`), and every
  line that carries it, in either pipe or with a goroutine, belongs to that request
  (`LinesAreOwn`). Providers: from a request to its end the log ends in the event of that
  request (`LogIsPaired`), so of the two writers of a response the first writes and the
  second finds it written (`WrittenOnce`); the wrapper and the loop keep the same call
  (`HeardIsNoted`).
  Calls: a reader has gathered of each call just the pieces that were sent
  (`ReaderGathers`), so what it puts into the outbox and what the loop has heard is a call
  as it was sent, and whole, since nothing is added once the server has finished
  (`OutboxHolds`, `IsTaken`; together `TakenIInv`). It comes back because the history is one
  in which every call has its result behind it (`IsHistory`, `ToldIInv`), and of such a
  history the payload of each of these clients has the calls with their results
  (`HistoryComesBack`); the arguments of a call of llama.cpp are valid JSON there, or
  `json.Marshal` would have refused the request.
  Pauses: a shift that leaves the width of a duration wraps to anything. `Fits` is what
  keeps a wrapped one from passing for a pause: the product of the first and the longest
  pause is at most 2^62 ns², or 2^u times that if the first is a multiple of 2^u ns, and then a
  wrapped pause is not positive or longer than the longest. The default of 200 ms up to 5 s
  is 10^18, and whole milliseconds, which the configuration counts in, are multiples of
  2^6 ns, which allows up to 295 s². Beyond that the theorem says nothing: a wrapped pause
  might be shorter than it should be.
* `ServiceState_proofs`. Billing: the totals of a session and of a day are the sums over
  the lines of this life, per name and not only in all (`SessionsMatch`, `DaysMatch`,
  `NamesMatch`), lines of later lives do not exist yet (`LivesAreOver`), and a request that
  was put back leaves the totals of before (`PutBackUndoes`). Limiter: of two keys that
  were seen the cache holds the one seen later (`HeldAreLast`), it holds all while it has
  room (`RoomIsUsed`), and no two keys have the same stamp (`StampsDiffer`); so what is held
  are the last ones seen, and what a bucket lacks is what its caller took (`SpentIsGone`).
  Chat: what the client was told and what the channel holds make up the pieces given so
  far (`RestIsComing`), and an error is the last event (`ErrorIsLast`). Memory: who is in a
  write holds the lock alone (`LockIsHeld`), its write was admitted (`WriteIsFit`), and a
  file is as its last settled write left it unless this one has emptied it
  (`FilesAreSettled`).

A step of `Services` is a step of one part; each proof shows what the invariant of its
part needs and that the steps of the others leave its variables alone. The modules state
what they assume of their constants (`ServiceAssumption`, `BoundsAssumption` and the
others), and TLC evaluates it in the runs.

Where a definition is a recursive function, as the sum of billing's lines, the powers of
two or the messages that a client keeps (`Power`, `Kept`), induction is replaced by the
least number at which two functions would differ, which exists by the well-foundedness of
the numbers. Lines, events and messages are told apart by position (`Nth`, `Stored`,
`SizeOf`), and the fragments of one line are added by call (`Accumulate`), and not by folds
or filters, which the prover cannot open.

Only model-checked: liveness (`AnsweredOrDoneReturns`, `ReadableIsDelivered`,
`TurnComesBack`, `QuitEnds`, `CancelledReturns`), since liveness under fairness is out of
the prover's reach. Every invariant and every action property that a run checks is stated
by a theorem.

## Findings

* An answer acknowledged with 204 may be thrown away (`approval.go:112-118`): the
  window is between the second receive and the cleanup. It fails closed.
  (`AcknowledgedIsReturned`)
* A WAL may be orphaned (`sender.go:297`): the session directories are listed before
  the locks are tried, and the lock that leads to the run is removed.
  (`AllWALsDrained`)
* Automatic call IDs repeat within a history after a compaction (`loop.go:790`), which
  the comment above excludes. (`CallIDsAreUnique`)
* `y` and Enter at an approval prompt of a raw terminal are not an answer
  (`rawmode.go:169`): Enter is CR there, and only LF ends the line. The call is denied at
  its deadline. (`YesIsApproved`)
* A streamed tool call of the OpenAI client reaches the loop as its last fragment
  (`openai/stream.go:95`). (`StreamedCallIsSent`)

Observations met while modelling that no run states:

* `audit/wal.go:150` says that a lock that can be taken belongs to a dead run. Between
  the open and the flock of its own start a live run's lock can be taken, and then all
  events of that process are dropped (`LockOwnFails`, `early`).
* When automatic web tools and added detail meet in one turn, a candidate that is
  rejected afterwards may have been shown (`loop.go:348`); `ShownIsFinal` therefore
  speaks of turns with one of the two checks.
* The validation budget is per call ID (`loop.go:405-409`), not for consecutive
  failures as `docs/design/05` says. Ollama and Gemini number calls from 1 in each
  response, so that different calls share a budget.
* A call cut by the token limit, or one of Anthropic with the `{}` that the reader puts
  in front of streamed arguments, stays in the turn's history as invalid JSON, and no
  later request of it can be marshalled.
* Broken or cancelled streams of OpenAI, Anthropic and Ollama end like complete ones
  (the scanner's error is not looked at) and are audited as success. Streams of
  Anthropic carry no usage that is billed.
* The totals of billing start empty in each process, so that a budget of a session or a
  day does not outlive it; a request whose usage is refused has been paid all the same.
  On 64 bits the sum at `accumulator.go:140` is formed in the width it is checked
  against. A line after a torn one is unreadable.
* The approval deadline may pass and the "y" with its LF come late: it is then type-ahead
  for the next prompt. A paste at an approval prompt or in a compaction loses its
  marker, which `bitten` excludes. A lone ESC at the prompt, and in the history search,
  waits for a letter; Ctrl-C in the search ends the chat (`terminal.go:876`) where
  `README.md:123` says that it cancels the search. Ctrl-C in a compaction cancels only
  the compaction.
* MCP: a line that the server sends unasked makes every later response arrive one call
  late, and each of these calls fails by its ID. A caller that waits for the mutex does
  not look at its context. `Client`, `ExecuteToolsParallel` and `ResolveWithFallback` are
  called from tests only.
* A pre hook whose payload cannot be marshalled lets the call pass.
* A note accepted after a torn one is glued to it and lost, and the two may make a line
  longer than the scanner reads, after which every search fails. An overwrite of a memory
  file that fails after its truncation has lost the old content.

## Not modelled

* Configuration, prompts, evaluation, observability, instructions and enrichment, the
  approval summary, the safety filters and model routing are parsing, formatting,
  pattern matching or library set-up. They hold no state that an order of events could
  break.
* File, shell and network tools with their sandbox are the environment of the loop:
  whatever they answer is covered. The read registry is one set per process that only
  grows; what another process writes between the read and the write of `fs_edit` is
  outside of what the code looks at.
* TLS and OAuth, which are library code, the headers of CORS, and the set of tools and
  their declarations.
* Truncation of texts, the ranking of notes, `/model`, `/cost` and the other commands
  that only print or set.
* The Windows variant of the lock, and `O_NOFOLLOW` where the platform lacks it.
* The length of timeouts. A timeout is an event that may happen at any time, so that the
  five seconds of `main.go:48`, counted from the start of the process, are seen only as a
  Shutdown that gives up.
* A request to an MCP server that does not fit into the pipe, and would block in the
  write with the mutex held.

## What is left

That the numbers of automatic calls are unique as long as nothing is compacted; what a
step of the parts in `Services` may never do, as action properties. The composition of
`AgentLoop` with `SessionHistory`, and of `ToolBatch` with an approval prompt, would need
larger instances than one run can take.
