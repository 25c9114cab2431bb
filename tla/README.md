# A verification of x16-emulator-MCP

The repository is a Python client (`x16dbg`) and an MCP server (`x16mcp`) that
drive the Commander X16 emulator through its text debugger: one command line in,
some lines out, a prompt, and event lines whenever the emulated CPU stops. The
TLA+ modules here model the parts of it whose correctness depends on order and
on failure. TLC checks them on small instances, TLAPS proves the safety properties for
every instance.

## The system

| Part | Source | State | Operations | What makes it correct |
|---|---|---|---|---|
| Prompt framing | `x16dbg/transport.py` `_readUntilPrompt` | `_buf` | read, split, time out, end of file | no byte lost or doubled; the bodies returned are the bodies written |
| Command layer | `x16dbg/transport.py` `send`, `command`, `waitPrompt`, `resumeCollectingEvents` | `_buf`, the call's frame | send a line, take records until the reply, wait for one more | a reply belongs to its command; no event lost, repeated or out of order |
| Transport lifecycle | `x16dbg/transport.py` `__init__`, `_handshake`, `close` | the process | spawn, handshake, quit, wait, kill | a process is always reaped, also when a step fails |
| Execution control | `x16dbg/commands/execution.py` | `last_event` | `cont`, `brk`, `step`, `stepOver`, `reset`, `runUntil` | what a reported stop says of the CPU, whatever it raced with |
| Memory | `x16dbg/commands/memory.py` | none | `readMemory`, `find`, `fill`: one command; `writeMemory`: one per 14 bytes | what a write that fails leaves; a read shows the writes before it |
| Break- and watchpoints | `x16dbg/commands/breakpoints.py`, `watchpoints.py` | none; the tables are the emulator's | set, clear, mute, list | an answer or an error tells what the tables hold |
| Screen capture | `x16dbg/commands/capture.py` | a temporary file | `screenshot` | the image asked for; no file left behind, also when it fails |
| Other commands | `x16dbg/commands/*.py` | none | one line each | the reply is its own |
| Parsers | `x16dbg/models.py` | none | one line to one value | a row is read as it was meant, or refused |
| Discovery | `x16dbg/config.py`, `_launchClient`, `_buildArgs` | environment, file system | first existing candidate; command line | priority of the candidates, on a disk that changes |
| Sessions | `x16mcp/server.py` `_sessions`, `create_session`, `close_session`, `boot_program`, `x16db`, `_closeAllSessions`, `main` | id to client | spawn, replace, end, shut down | every emulator has an owner until it is reaped |
| Tool wrappers | `x16mcp/server.py` | none | one client method, then a dict | a session feels nothing of another |
| Emulator | not in the repository | CPU, stdout | answer, announce, stop, exit | assumed, see below |

The caller and the emulator share two pipes and nothing else. The caller is
sequential (FastMCP runs its synchronous tools one at a time), the emulator runs
at the same time. What is hard: nothing in a reply names its command; events
arrive on their own, with a prompt of their own, at any place in the stream; a
read brings any number of bytes; calls time out while the answer is on its way;
a process dies or refuses to; a tool fails after it has done half of its work.
`PROJECT.json` lists these hazards one by one, at their lines, with the
properties that cover them.

## The modules

**PromptFraming** is `_readUntilPrompt` on bytes. `pipe` and `buf` are sequences,
`ReadSome` moves up to `ReadSize` bytes, `Split` is `partition` at the first
prompt, `TimedOut` and `EndOfFile` are its two errors. `WriteRecord` and `Exit`
are the emulator, which can end in the middle of a record. It implements
**RecordQueue**, a queue from which whole records are taken; that is what lets the
next module speak of records instead of bytes. (A byte here is a token: what counts
is that the prompt is made of several and can be cut.)

**Transport** is the command layer on records. A record is its terminator (`RDY`,
`ERR` or none) and its events; the data lines are left out, and in their place a
ghost field `answers` says which command the emulator wrote the record for. No guard
of the client reads it. `pc` is the place in the code: the loop of `command()`
(`"loop"`, or `"resumeLoop"` when called by `resumeCollectingEvents`) and the single
read of `waitPrompt` (`"wait"`, `"resumeWait"`). `Fill` is `os.read`, `Take...` are
the ways a record leaves the buffer, `Timeout` and `EndOfFile` the errors. The
emulator answers commands in order and writes event-only records, or bare prompts,
at any time. Timeouts have no clock: a call may give up whenever no whole record is
in `_buf`, which is when the code can (the deadline is tested before the pipe).

**CommandService** is what a caller may rely on: replies in command order, each to
one call at most; events in order, never twice; a call returns or raises. Transport
implements it with `handed <- taken`, `past <- delivered \cup dropped`, `busy <- pc`.
It deliberately does not promise that a reply is the reply to the command just sent.

**Execution** puts the methods of `ExecutionCommands` on `Transport` (by INSTANCE:
its variables are Transport's, its steps are Transport's steps joined with the
method's own) and gives the emulator a CPU that is stopped, running, or running over
a call. `FindStopEvent` is `_findStopEvent`, `UntilPrefix` the prefixes passed to
`resumeCollectingEvents`. `"query"` stands for every method that sends one command
and leaves the CPU alone. What the emulator does with each line (`WhenStopped`,
`WhenRunning`) is external, written from `tests/test_execution.py`,
`tests/test_server.py` and the byte streams of `tests/test_transport_offline.py`, and
is generous: `brk` on a stopped CPU may or may not report, a resume may stop at once, and a
leftover prompt with neither event nor terminator (`BarePrompt`) may come at any time.

**Memory** puts `MemoryCommands` on `Transport` in the same way. A call (`job`) is the
method, its bytes and how far it has come; `NextChunk` is one turn of `writeMemory`'s
loop, `OnlyLine` the single line of `fill`, `readMemory` and `find` (a find is a read
here). The bytes of different calls differ, so that the memory shows where each byte
comes from. The emulator obeys a line or refuses it and stores nothing; the CPU is
stopped. A call stays within the memory (`ChunkAssumption`).

**Launch** is `_launchClient` up to the process: the `discover` functions of `config.py`,
one look at the disk per step, then `_buildArgs` and `Popen`. A candidate for the emulator is
looked at twice, is it a file (`LookAtCandidate`) and is it executable (`LookIfExecutable`);
`ChangeDisk`, any other process, may come between the two. `found` is what the functions have returned, `args` the command line as options
with their operands. A path stands for the file it resolves to. What follows the
start of the process is in `Sessions`, where every failure of `Launch` is `LaunchFails`.

**Sessions** is the registry and the processes: one variable for `_sessions`, the
state of each emulator process, and the place of the tool in progress. `Transport.close`
is four steps (`Quit`, `WaitEnds`, `WaitTimesOut`, `WaitAfterKill`), with the processes
free to exit between them; `after` is what the caller of `close` does next (drop the
id, launch again, raise, go on to the next client). Launches and handshakes may fail, and so
may any step of a close (`CloseFails`): a tool ends with the error, `_closeAllSessions`
swallows it and goes on. The history variable `failed` keeps the clients whose last close
raised; of those nothing is promised, and nothing else may suffer from it.

**Points** is breakpoints and watchpoints as operators: the words of the command lines, the
two tables in the emulator, the rows of `lbp` and `lwp`, and `Breakpoint.parse` and
`Watchpoint.parse` on the words of a row. The tables (`Effects`) are external, written from
the docstrings of `breakpoints.py` and `watchpoints.py`, `docs/api` and the tests: a location
armed again is replaced in place, a full table or a missing point makes the emulator refuse,
`swp` takes any free slot. Two things are assumed of the emulator that no document states in
full: a refused line changes nothing, and a listing shows a muted point by the word "off" at
the end. Whether a muted breakpoint armed again stays muted is a constant (`KeepsMute`).

**Tools** is the server as its callers see it: the typed tools over several sessions.
`Methods` has one entry per tool, the debugger command it sends and what it does with the
data of the reply; `Begin`, `Replied`, `Refused`, `GiveUp` and the others are the stages of
a call. Of the reads and of the orders, which differ in nothing else, a run takes a few
(`ReadTools`, `OrderTools`). The client of each session is `CommandService`, one instance
per session (`S(s)`), with events left out; `UsesService` checks that every step of a client
is a step of it. The emulator of a session has a queue of lines and one of replies and goes
on when a call has given up. `BootProgram` and `CreateSession` are one step here; what
happens inside is in `Sessions`. Two variables are history: `view` is the table as a caller
computes it from what the tools returned, and `lost` says whether a call of the session has
given up since its emulator was started.

The definitions whose comment begins with "Mutant of" are no part of a specification:
each is a definition changed the way a bug would change it, and shows that a property
notices.

## The runs

| Run | Instance | What it shows |
|---|---|---|
| `transport` | 3 commands, 2 events of 2 kinds, 3 records in the pipe; 3.1 million states | `RepliesInOrder`, `DebtLaw`, `ReplyLag`, `OwnReply`, `EventsAccounted`, `EventsNewer`, refinement of CommandService |
| `transport_live` | 2 commands, 1 event, 2 records | `CallsEnd`: a call ends once the announcements end |
| `framing` | prompt of 2 tokens, 4 bodies, 3 records, reads of 1 to 4 | `BytesConserved`, `BodiesIntact`, refinement of RecordQueue, `ReadEnds` |
| `execution` | 3 methods of 7, 3 events, 2 records; 2.6 million states | `KnownMeansStopped`, `KnownGetsNextStop`, `NoStopMissed`, and that every step is a step of Transport |
| `sessions` | 2 sessions, 4 launches; 1.0 million states | `NoOrphan`, `OneEmulatorPerSession`, `ShutdownLeavesNone`, `SessionsEndReaped`, `ToolsEnd` |
| `memory` | 4 commands, 3 addresses, lines of 2 bytes; 3.3 million states | `WholeChunks`, `ReadsAreCurrent` |
| `launch` | 9 paths, 3 environments, 3 requests, 1 change of the disk; 2.0 million states | `FirstChoice`, `FsrootServed`, `StartsAsAsked` |
| `tools` | 2 sessions, 3 calls, 3 breakpoint locations, tables of 2; 3.3 million states | `SessionsApart`, `TablesAsTold`, `ListsAsTold`, `NoFileLeft`, `ShotIsOwn`, and that every client is a CommandService |
| `late_reply` | 2 commands | finding: after a timeout the next command gets the late reply |
| `broken_pipe` | 2 commands | finding: a dead emulator raises EOFError or BrokenPipeError, documented as X16dbgError |
| `run_until_stale` | 2 methods | finding: `runUntil` reports a stop from before the call, and the CPU runs on |
| `session_closed` | 2 sessions, 2 launches | finding: a failed `boot_program` leaves a session without an emulator |

Bounds. Three commands are the fewest in which a reply can be late by two and a
`waitPrompt` can repair one of them; two events are the fewest with an order; three
records are enough for a reply, a late reply and an announcement to be in the stream
together. In `execution`, three methods are one that stops the CPU, one that resumes it
and one that meets what that left behind; two records are a reply, or a prompt, and what
comes behind it (with three records in the pipe the run has 9.1 million states and passes
too). In `framing` the prompt has two tokens so that a
read can end inside it, a body may end as the prompt begins, and a read can bring a record
and a half. In `sessions`, two sessions and four launches let one of them be booted again
after a failure while the other lives. In `memory`, four commands are a write of two lines
and two calls more, and the ranges overlap and end inside a line. In `launch`, the
candidates that may exist include the first, one in the middle and the last of the
emulator's list, and one change of the disk is enough for a candidate to come, go or be
replaced between the look at it and its use. In `tools`, three calls are one that times
out, one that gets its reply and one that shows what that did, or two points and their
listing; the three locations are one of low memory and one address of the window in two
banks, of which a table holds two. The view of that run leaves out `result`, which no step
reads (the action properties are checked on every step all the same, since TLC computes
each step in full), and the two sessions are interchangeable. `MaxChanges`, `MaxCommands`,
`MaxEvents`, `MaxRecords`, `MaxClients` and `MaxCalls` are bounds of the model;
`MaxBreakpoints`, `MaxWatchpoints`, `MaxStream`, `ReadSize` are limits the system has too.

Fairness. Only for the thread of the code itself: it goes on until the call or tool is
over (`WF` of `Progress`, `Read`, `Work`). `_readUntilPrompt` polls with a limit of
50 ms and looks at its deadline, so it is never stuck in a read. Nothing is assumed of
the emulator, with one exception in `Sessions`: a process that was sent SIGKILL dies.
`CallsEnd` needs that unsolicited records stop at some time, because `command()` starts
a new deadline for each; without that premise it is false.

One more disagreement is visible in the model without a run: `docs/api/errors.md` (line 10)
and the docstring of `command` (`transport.py`, line 389) say that a prompt with no `RDY` or
`ERR` raises `X16dbgError`; the code skips it (`SkipUnterminated`), as
`tests/test_transport_offline.py` (line 120) wants, and ends in `TimeoutError` when no reply
follows.

What is found to hold, in words. As long as no command has timed out, a reply is the
caller's own, and a caller that began with `brk` and got an event from each later resume
knows that the CPU is stopped and that no old stop is in the stream, so its next resume
reports that resume's stop. Once commands have timed out, replies lag by exactly the
number of them not made up for by a `waitPrompt`. Events of calls that return are never
lost; those of calls that raise are. A timeout is felt by no other session and by no later
emulator of its own. A caller none of whose calls has given up can compute the breakpoints
and watchpoints from the answers and errors alone, and a listing agrees with that. A
screenshot of such a caller is of the screen when it was asked for, and leaves no file;
after a timeout it may be an older one of the same session, and the emulator may write the
temporary file again after it was removed. A `writeMemory` that raises has left whole
chunks from the first on, one more perhaps than were acknowledged, and nothing else; that,
too, only if no command had timed out before it. A launch never misses an input that was
there all along for one that comes later in the order. A close that raises costs no
emulator but its own.

## The proofs

Each proof module holds for every value of its component's constants under the named
assumptions there (`BoundsAssumption`, `FramingAssumption`, `ChunkAssumption`,
`LaunchAssumption`, `PathAssumption`, `PointsAssumption`, ...). Every inductive invariant
below was first checked by TLC on the bounds of the component's run.

**TransportProofs** proves the type invariant, `RepliesInOrder`, `DebtLaw`,
`ReplyLag`, `OwnReply`, `EventsAccounted`, `EventsNewer` and `ImplementsService`.
Two inductive invariants carry it. For replies: `TypeOK`, `RepliesInOrder`, `DebtLaw`
and `ReplyLag` together. `ReplyLag` is not inductive alone: when a reply is taken, its
`answers` is the smallest number in the stream, which `RepliesInOrder` says is
`taken + 1`, and `DebtLaw` turns that into the number of the command just sent minus
the debt. `OwnReply` follows from it because a debt needs an abandoned command. For
events: `TypeOK`, `EventsAccounted`, and that an idle transport has gathered nothing;
the five conjuncts of `EventsAccounted` need each other, since taking a record moves
events from the stream to the call and only the order of the stream says that they
are newer than all before. The refinement is proved action by action from both.

**PromptFramingProofs** proves the type invariant, `BytesConserved`, `BodiesIntact` and
`ImplementsQueue`. `BytesConserved` is inductive with the types. `BodiesIntact` needs
`FrameInv`: the bytes written are cut by increasing offsets into records, body and prompt
each, the last of them perhaps cut short by the end of the emulator, and what was consumed
ends at one of those offsets; so the first prompt in `buf` is the one that ends the oldest
record not returned. For the refinement, `CountInv` counts the prompts in `buf` and the pipe
and says that there is one for each record not returned. Two hypotheses are stated with
the theorems that use them. `BodiesClean`: no body makes a prompt before the one that ends it.
The last two theorems are about streams of such bodies only, and a dump whose ASCII column
shows the prompt is not one of them (see below); `BytesConserved` holds without it.
`PromptClean`: no end of the prompt is also its beginning. The program's prompt, `x16db> `,
is such, since its first byte occurs in it once; of a prompt that overlaps itself a read
could bring two occurrences where the emulator wrote one.

**ExecutionProofs** proves the type invariant, `UsesTransport`, `KnownMeansStopped`,
`KnownGetsNextStop` and `NoStopMissed`. `StepSimulates` shows that each step is a step of
`Transport`, so that the reply invariant of `TransportProofs` holds here too. `StopInv` then
says what the stream of a caller who is sure holds at each stage of a call, leftover prompts
(`Bare`) aside: nothing (`AtRest`, `Unanswered`), a reply at its end (`ReplyLast`), the
reply of a resume and at most the record of one stop behind it (`Resumed`), that record or the
stop already collected (`AwaitsStop`); and that all of it was written after the call began
(`Fresh`).
None of these is inductive alone, as each stage hands its stream on to the next.
`FirstStop` says which event `_findStopEvent` returns: the one with the smallest number.

**MemoryProofs** proves the type invariant, `WholeChunks` and `ReadsAreCurrent`, from
`Transport`'s reply invariant in the same way. `ChunkInv` follows a write: its offset is on
a boundary, the memory holds its bytes up to the offset or, while the line in progress is
not obeyed, up to where the line before ended, and a reply in the stream means that the line
was obeyed. `ReadInv` says that the only line not obeyed is the read's own, and that what
the emulator saw when it obeyed it is what the memory still holds.

**LaunchProofs** proves the type invariant, `FirstChoice`, `FsrootServed` and
`StartsAsAsked`. While a search goes on, the candidates still to look at are the end of its order, from some place on, and
none before that place has been there and good all along (`SearchInv`); the disk's history
only grows, so this survives every change of the disk (`PastGrows`). What is found has passed
each look, though perhaps not at the same moment. `RootInv` follows the
filesystem root into the command line, of which `CommandLine` says what options it can
have. It assumes that what is found is an absolute path (`PathAssumption`: the code resolves
each candidate), so that no path reads as an option. `StartsAsAsked` is about a disk that does
not change, and `SteadyInv` says what the launch has found of it at each step: the default
program once it is past the searches (`DefaultFound`; `GlobFindsDefault` for the choice among
`resources/*.prg`), and a root that is a directory once it is past that check. That the start
of the process cannot fail there follows from `FirstChoice`'s part of the invariant.

**SessionsProofs** proves the type invariant, `NoOrphan`, `OneEmulatorPerSession`,
`ShutdownLeavesNone` and `SessionsEndReaped`. `NoOrphan` says nothing of what the tool in
progress will do next, so its invariant `IInv` adds whose the held client is at each phase
(`ToolInv`), what the end of the server has closed so far (`ServerInv`), that only
launched clients are known (`LaunchedOnly`), and `Owned`, which is `NoOrphan` without its
premise. A client whose close has raised (`failed`) is excepted wherever a reaped
process is promised.

**ToolsProofs** proves all properties of `Tools`, for any number of sessions, tables of any
size and any set of read and order tools. `ClientStep` says what a step is to the client and
the emulator of one session (it sends, takes, leaves, obeys, stops or is replaced), and that
all others are left alone. From it come `ServiceInv` (the types, whose call is in progress,
and the order of a session's replies: those not read are numbered from the last one handed
out, and while no call has given up there is a reply or a line for the call in progress only)
and with it the type invariant, `SessionsApart` and `UsesService`. The others add to it one
invariant each, of a session none of whose calls has given up:

- `LineInv`: a line not yet obeyed is that of the tool in progress. `FileInv`, for
  `NoFileLeft`: a file is that of the tool in progress, or was written after a call gave up.
- `NameInv`, for `ShotIsOwn`: no name of a file is with two sessions, wherever it is, in
  `files`, in a line, in a reply or with the tool; this one holds after timeouts too.
  `ShotInv`: the reply of a screenshot in progress names its own file, which its own line wrote.
- `TableInv`, for `TablesAsTold`: with no reply to read the table is what the caller knows;
  with one, it is what the caller will know once the reply is parsed (`After`). The lemmas
  `BreakpointTold` and `WatchpointTold` compare each effect on the table with what its tool
  makes of the reply.
- `PointsInv`, for `ListsAsTold`: every flag and condition in a table, and in a line on its way
  to one, is such as a row can tell; this is where `PointsAssumption` on the last word of a
  condition is needed (`PeeledFacts`). `ListInv`: the reply to a tool that lists shows what the
  caller knows. `RankedFacts` says that the listing names each armed slot.

Model-checked only: liveness (`CallsEnd`, `ReadEnds`, `ToolsEnd`), which is out of TLAPS's
reach as is `ENABLED`.

## Not modelled

- The text of replies, except the rows of `lbp` and `lwp`; the header lines; the fields of
  events and of the parsed values. Of the other parsers of `models.py` a model knows only
  whether they accept a reply.
- Conditions that end in the word "off": a listing cannot tell them from a muted point, and
  the grammar of conditions is not in the repository. The count of hits.
- The argument `path` of `screenshot`, which no tool passes. `writeVram` sends all its bytes
  in one line; whether the emulator takes a line of any length is not in the repository.
- Lines of `x16db` other than reads and those that end a session: a line that changes the
  tables does so behind the typed tools, and one that is empty or has a newline in it is not
  one command.
- The keys of the dicts that the tools return, and the pass from Python to JSON.
- The argument `explicit` of the `discover` functions, which no caller passes, and
  symbolic links.
- Addresses past the end of the memory: what `wmm` does with them is not in the repository.
- The capacity of the pipes (stderr is one that nobody reads), and the time itself.
- A signal that ends the server without running `main`'s `finally` clause.
- A body that contains the prompt's text: `Bodies` is chosen without it.

## Plan

Done: framing, command layer, execution control, memory commands, launch, sessions, tools
with their points and captures; proofs of all their safety properties. Left: a run of
`PromptFraming` with `DumpBodies`, bodies that contain the prompt's text.
