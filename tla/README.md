# Pi and Pads in TLA+

This directory holds a TLA+ development of the debugger `pi` (`src/pi.linux`)
and of the window library it talks through, Pads (`src/pads`).  It says which
part of the program each module models, what TLC checks on small instances,
and what TLAPS proves for all instances.  `PROJECT.json` maps each definition
to source lines and lists the hazards, findings and theorems.

## The system

Pi is one Unix process with one thread.  It serves one event at a time: a menu
choice or key line of the user, a line the terminal asks for, or a `P_CYCLE`.
Two other actors run beside it:

* **the subject**, the debugged process, under `ptrace`.  It executes, hits
  breakpoint instructions, takes signals and dies at any moment;
* **the terminal** (`src/pads/term`), a second process at the other end of a
  pipe.  It draws the windows, and its clock answers alarms.

| Component | Source (`pi.linux` unless said) | State | Operations | Module |
|---|---|---|---|---|
| Breakpoint list | `bpts.c`, `hostcore.c` | `trap`, `Trap::saved`, `layed` | `set` `clr` `clearall` `lay` `lift` `hostclose` | `Bpts`, `BptsSession`, `Breakpoints` |
| Process window | `process.c` | `cycles`, `stoprequest`, status line | `go` `stop` `cycle` `docycle` `habeascorpus` `instrstep` `userclose` | `RunControl` |
| Ptrace layer | `hostfunc.c` | `Localproc`: state, signal mask | `procwait` `getstate` `readwrite` `step` `run` `stop` `waitstop` `destroy` `close` | `Inferior` |
| Process table | `hostproc.c`, `hostmaster.c` | list of processes | `open` `substitute` (take over) `destroy` | `BptsSession`, `RunControl` |
| Signals window | `sigmask.c` | mask of traced signals | `setsig` `clrsig` `clrcurrsig` | `RunControl` |
| Temporary traps | `core.c`, `hostcore.c`, `i686core.c` | a static `Trap`, the saved registers | `stepoverjsr` `popcallstack` `dostep` `stepinto` `stepprolog` `docall` | `Calls` |
| Call stack, frames | `process.c`, `frame.c` | `callstk`, the `Frame`s made on demand and their windows | `callstack` `frame` `merge` `open` `closeframes` | `Frames` |
| Expressions | `expr.c`, `phrase.c`, `frame.c`, `gram.y` | a graph of `Expr`s, the lines of a window and their spies | `kbd` `derive` `evaluate` `setspy` `changed` | `Exprs` |
| Journal | `journal.c` | ring of events | `insert` `linereq` | `Journal` |
| Pads line protocol | `pads/host/pad.c`, `padrcv.c`, `pads/term/pad.c`, `paint.c` | windows and their lines in the terminal, the line sent last on both sides, object identifiers | `P_PADDEF` `P_LINE` `P_NEXTLINE` `P_LINES` `P_CREATELINE` `P_DELETE` ..., `P_LINEREQ` `P_USERCLOSE` | `PadTerm`, `PadLines`, `Windows` |
| Pads alarms | `pads/host/pad.c`, `pads/term/pad.c` | `Pad.ticks` | `P_ALARM` `P_CYCLE` | `RunControl` |
| Menu caches | `pads/host/cache.c`, `menu.c`, `pads/term/cache.c`, `buttons.c` | items and cartes on both sides | `place` `take` `index`, picks | `Menus` |
| Remote channel | `pads/host/remote.c`, `term.c` | write buffer | `pktstart` `pktend` | none |

Symbol tables, the disassembler, the source, memory and globals windows,
drawing and the containers are sequential code over data of one stopped
process; they are listed in `PROJECT.json` as not modelled, each with the
reason.

### What is hard

* The subject moves between any two system calls of the debugger, so that what
  a handler read is old when it acts on it; the debugger's own `SIGSTOP`s mix
  with the user's and with breakpoints.
* A running subject is watched by a chain: `docycle` asks for an alarm, the
  terminal sends `P_CYCLE` at the next tick, `cycle` calls `docycle`.  There is
  one alarm per window and no identification of its answer; `cycles` counts the
  answers that are expected.
* Laying and lifting are a series of writes each of which can fail, on a
  subject that may be dead, may have called exec, or may be another one.
* Debugger and terminal each go on without an answer.  A call of `Pad` meets a
  window that the user has closed, cut or scrolled meanwhile; a request for a
  line, or the news of a closed window, meets an object whose window is gone or
  is another one.
* A line may be sent as `P_NEXTLINE`, without its window and key: both sides
  must mean the same line by "the last one".
* The program counter is moved back after a breakpoint and must not be moved
  after a step.
* A command that lets the subject run to a place (return, step over, a function
  call in an expression) must know the activation it stops in: a recursive
  subject comes to the same address deeper first.
* What the user has open outlives a stop: `Frame`s are carried over to a call
  stack that has changed, and spies are compared with a memory that has.
* `$` makes the expressions of a window a graph, and an evaluation leaves its
  results in nodes that other lines evaluate too.
* Menus are sent once and named by number afterwards; debugger and terminal
  number and count them independently.

For each component the properties that make it correct are: the text of the
subject is its own program plus the traps, all or none (breakpoint list); a
running subject stays polled, a window that nothing is about to change is right
about its subject, a user who waits for that skips no instruction, and stop
stops (process window and ptrace layer); a command ends in the
activation it is about and leaves no temporary trap (temporary traps); a window
stays with its activation (frames); a line shows what its text means now, and
spies are noticed exactly when they change (expressions); the journal shows the
latest events (journal); each call of `Pad` has its effect on its own window
only, and lines that are displayed come (Pads lines); what the terminal shows
as a menu entry is what the program put there (menu caches).

## Modules

    Breakpoints            what a breakpoint list promises
        ^ implemented by
    BptsSession  EXTENDS Bpts                 <- BptsSession_proofs, MCBptsSession
    RunControl   EXTENDS Bpts, INSTANCE Inferior
                                              <- RunControl_proofs, MCRunControl
    Calls        INSTANCE Inferior            <- Calls_proofs, MCCalls

    Windows                what the calls of class Pad promise
        ^ compared with, step by step
    PadLines     EXTENDS PadTerm              <- PadWindows_proofs, MCPadLines
                                                   ^ PadLines_proofs
    Journal      EXTENDS PadTerm                        <- Journal_proofs

    Menus                                     <- Menus_proofs, MCMenus
    Frames                                    <- Frames_proofs, MCFrames
    Exprs                                     <- MCExprs

**`Bpts`** is class `Bpts`.  `trap` is the set of statements with a live trap
(a dead trap, `stmt == 0`, stays on the C++ list and is looked at by nothing),
`saved` the saved bytes, `layed` the flag, `text` the subject's memory at the
addresses of instructions.  Each operation is an action that takes the set of
addresses at which ptrace succeeds; `Trap::liftorlay` forgets a trap whose
write fails.

**`BptsSession`** uses the list through the life of a subject: resume and stop,
death while running (found by the next poll) and death while stopped (which
nothing polls), take over and failed take over, exec, close.  `proc` joins what
the subject is with what `Hostfunc` believes.  One operation of the list is one
step here.

**`Breakpoints`** is the abstract specification: a set of breakpoints and the
set of addresses where the subject would meet a breakpoint instruction, which
is all of them or none.  `BptsSession!Abstract` is the refinement mapping.

**`Inferior`** is the ptrace layer joined with the kernel and the subject, as
operators on one record: the debugger's state (`st`), the kernel's (`run`), an
event not yet fetched by `waitpid` (`ev`), queued signals, the program counter
with its offset of one byte behind a breakpoint instruction.  Each operator is
a function of `Hostfunc`; those that stop and wait are one step, since the
debugger blocks in them.  Kernel and subject are external.

**`RunControl`** is the process window with its terminal.  A handler is one
action unless the subject's progress inside it matters; then `ctl` names the
part that comes next: before `docycle`, before the program counter is read
(`show`), the second of `stop` (`sleep`), before a conditional breakpoint runs
on (`runon`), between two steps, and in the `waitpid` of a step.  `alarmq`,
`ticks` and `cyc` are the alarms on their way, the terminal's counter for this
window and the `P_CYCLE`s on their way.

| Action | Code |
|---|---|
| `DoCycle`, `Show`, `RunOn` | `Process::docycle` and the branches of `habeascorpus` |
| `Cycle` | `Process::cycle` called by a `P_CYCLE` |
| `DeliverAlarm`, `Tick` | `PadOp` on `P_ALARM`, `Cycle()` of the terminal |
| `Go`, `ClearAndGo`, `ClearPending` | `Process::go`, `SigMask::clrcurrsig` |
| `Stop`, `Wake` | `Process::stop` before and after its sleep |
| `StepCmd`, `StepOne`, `StepWait`, `AfterStep` | `instrstep` and `HostCore::dostep` |
| `SetBpt`, `ClrBpt`, `ClearAll` | `Stmt::dobpt`, `Bpts::clearall` |
| `ReadMem`, `ToggleMask`, `Kill`, `Close` | a memory read, the signals window, `HostProcess::destroy`, `Process::userclose` |
| `SubjectMove`, `Die`, `SendSig` | the subject and other processes |

Abstractions: a statement step is a run of single steps (`dostep` of a range
without a call); whether a condition holds or a spy has changed is a free
choice; one signal stands for all but `SIGSTOP`; its delivery order is the
kernel's (lower numbers first); breakpoints on statements at the same address
are left to `BptsSession` (`SameAddrs`), and failing addresses of a live
subject too.  `hasty` is history: whether the user ever ran or stepped a window
that said `ACTIVE` or was about to change.  The properties that need a patient
user are about the behaviours in which it is false.

**`PadTerm`** is the terminal's side of the windows as operators on one record,
each a function of `pads/term/pad.c` or `paint.c`: the windows with their
lines, the line received last, and what was sent to the debugger.  A line that
is not there yet is a dummy line (`TILDE`), asked for or, with `FAKELINE`, to
be asked for when it is painted.

**`PadLines`** adds the debugger's side and both pipes.  One call of class
`Pad`, one message read, and one thing the user does is a step.

| Action | Code |
|---|---|
| `NewPad`, `HostClose` | `Pad::Pad` with the calls that follow it in each window's `open`; `~Pad` and `invalidate` in a window's `hostclose` |
| `insert` `removeline` `clear` `lines` `createline` `makegap` | the methods of `Pad` |
| `ServeLineReq`, `ServeUserClose`, `ServeStale` | `TermServe` with the `linereq` or `userclose` of the object, or with an identifier that has changed |
| `Receive` | `RCVServe` and `PadOp` |
| `UserClose`, `Cut`, `Paint` | `DeletePick`, `DoCut`, `ClipPaint` with `RequestLines` |

An object opens windows of the kinds it has in pi: with a number of lines and
`USERCLOSE` (source text, process), with lines made by `createline` (journal),
with gaps (frame).  `prevpad` is compared with `this` and used for nothing
else, so it is modelled as the object whose `Pad` it points to; whether a
new `Pad` may get the address of a deleted one is the constant `Reuses`.

**`Windows`** says what the manual promises: functions on a map from objects to
windows and from keys to lines, without messages.  `PadLines!KeepsPromise` is
the comparison.  `Drained` is the terminal as it will be when it has read what
is under way; each call must change the windows of `Drained` as the function of
`Windows` for that call does, the user's actions may only take lines from the
one window they are about, and reading messages must change nothing.  This is
stronger than a refinement, which a lost line would pass as a stutter.

Abstractions: a line's menu counts as one of its attributes and its object as
part of its text; the order of windows on the screen is left out, which
`ObjToPad` would only see if two windows had the same object (`WindowsAgree`:
they never have); what is on the screen is any piece of `Screen` lines.

**`Calls`** is one command at a time on a subject whose list traps are lifted
(`RunControl` says when): `step`, `step into`, `return`, and a call from an
expression.  The subject is a small program with one recursive function, the
return addresses and frames of its activations, and a top of stack that is
undefined where no call was made.  Each wait in `waitpid` is a place where the
subject and other processes' signals get on, and nothing else does.
`laytrap` and `lifttrap` are the static `Trap`; `docall` writes a call
instruction at `scratchaddr()` and puts back what was there.  Two assumptions
are about the subject's program, which the debugger makes too: it keeps frame
pointers (`FramePointers`; one built with `-fomit-frame-pointer` is outside the
model), and the statement that is a function's prologue calls nothing
(`PrologAssumption`).

**`Frames`** is the call stack of a process window.  `frame` makes a `Frame`
when a line is requested, a register is looked for in a newer activation, or a
window is opened; `merge` carries them over at a stop.  An activation has an
identity (history), which the code, knowing only functions and levels, does
not.  `NullAssumption` says that no `Frame` is the null pointer.

`merge` shows the values of a window anew before the window's `Frame` has its
new level and its entry (`process.c:244-249`), so that a spy on a register asks
`Frame`s from the new call stack at places counted from the old level.  `asked`
says for each level how far the spies of a window there ask, any choice of it
(`Asked`); `spies` makes those `Frame`s, and `give` then overwrites the entry.
A `Frame` that was in it is forgotten: nothing points to it any more and the
code does not delete it, so the model drops it.  `p.lost` records whether one
with a window was ever forgotten, and `FramesAgree` says that none is: `merge`
gives entries from the oldest to newer ones, and what is already given is older
than what is given next.

**`Exprs`** is one window's expressions.  `ns` is the graph of `Expr` nodes;
`eval` and the operators around it are the functions of `expr.c` on a record of
nodes, memory and error, and leave in the nodes what the code leaves there: the
symbol an identifier was bound to, types, values, addresses, and the pointer
that an array operand of `+` has become.  `makephrase` displays a line, `parse`
builds the nodes and takes the line's own for `$`, `Changes` looks at the
spies.  `Meaning` is the reference: C's semantics of the text, as a function of
text, activation and memory, without nodes.

| Action | Code |
|---|---|
| `Kbd`, `Derive` | `Frame::kbd` and `pickvar`; `Phrase::kbd`, `applyunary`, `applybinary` |
| `Evaluate`, `SetSpy` | the menu entries `eval $`, `spy on $`, `unspy $` |
| `Stop` | the subject has run or was polled: `Process::changes`, `Frame::changes`, `Phrase::changed` |
| `Poke` | another window stores into the memory |

Abstractions: memory is a row of words; integers, pointers and arrays of words
are the types; one unary and one binary operator stand for those that only
compute.  Outside the model are structures, casts, reals, formats, the `?`
forms and function calls (`Calls` has those).

**`Journal`** is the ring with its `linereq` and `insert` beside the terminal
of `PadTerm`; `log` is the history of all lines.  `Overrides` says whether
`Journal::linereq(int, Attrib)` overrides the library's virtual function, which
is a matter of the `pads.h` the program is built with (see Findings).

**`Menus`** is the program's `Menu` being filled, the two caches with their
numbers, the definitions on their way, and the terminal's copies.  `listMeans`
and `means` are the history of what the program meant.  The terminal's part
finds an entry as `buttons.c` does, by walking nested menus and counting again.

## Runs

| Run | Shows |
|---|---|
| `bpts_session` | `TextIsProgramPlusTraps`, `OneTrapPerAddress`, `SavedIsOwn`, `ClosedIsClean` and the refinement `AllOrNothing`, for a subject until it calls exec and again after a take over |
| `run_control` | any user, however hasty, signals traced or not: `TextOwned`, `Polled`, `SettledIsTrue`; as long as the user was patient `PatientNoSkip`, `EventNoticed`, and `CloseIsClean` of the program counter; a patient user's stop while the signals are traced, `TracedStopHonoured` |
| `hasty_skip` | violated: `NoSkip` with a hasty user; `step 2` between hit and poll |
| `stop_lost` | violated: `StopHonoured` with an untraced signal |
| `calls` | `CallStepped`, `ReturnStops`, `IntoReturns`: each command ends in the activation it promises, a return if its activation has a frame, though the function is recursive and other processes send signals; `TextRestored`: however it ends, no temporary trap and no scratch code stays; `DeathNoticed`: the subject's death ends the debugger's wait |
| `return_too_far` | violated: `TopReturns`, a return ends where the top activation returned; an instruction step onto a `ret`, then `return` |
| `frames` | `FramesAgree`: every `Frame` is that of the one activation at its level, and spies in the middle of `merge` make it lose no window; `WindowStays`: it stays with that activation where the functions tell the activations apart |
| `exprs` | `ShownIsMeant`: whatever nodes a line shares with others and whatever was evaluated before, it shows what its text means now and stores what it assigns; `SpiesAreTrue`: after a stop all spies show their values, and exactly those that changed are counted, but for lines that a comma evaluated |
| `journal` | where requests reach the journal (`Overrides`): `WindowIsRecent`, `LinesAreTrue`, `RequestsAreAnswered`, and that every line asked for comes or is removed (`LinesCome`) |
| `menus` | `MadeIsMeant`, `EntriesAreMeant`: an entry stands for the item the program put there, on both sides; `Defined`: nothing is named before it has come |
| `pad_lines` | `KeepsPromise`, `WindowsAgree`, `KeysInOrder` for two objects that share `prev` and `prevpad`; a new `Pad` gets a new address |
| `pad_requests` | `RequestsArePending`, `CallsAreMeant`, `WindowIsThere` and the liveness property `LinesCome`, for an object that opens one kind of window after the other, with two messages under way |

Bounds.  `bpts_session` has three addresses and four statements: two of them
share an address, one is at an address that the image does not have; two
images, for exec.  Every pair of traps that can disturb each other is there:
same address, both reachable, one unreachable.  The `RunControl` runs have a
loop of two instructions, either or both with a breakpoint, one with a
condition, which makes a step onto, off and over a trap, and a hit right after
a resume.  `CharMax` stands for 127.  `MaxCycles` is the value of
`cycles` at which `run` is not clicked any more, and `MaxAlarms` the number of
messages under way at which the user waits: with two of them an alarm can
overtake, replace and cancel another.  `MaxSteps = 2` gives a first and a last
step.  Deadlock is not checked: a closed window, or a dead subject whose
session is over, has nothing left to do.

In the `Pad` runs two keys make a line that follows another and one that does
not, and a window with fewer lines than before; `MaxSend` is the number of
messages under way at which no call is made (a call, or an answer, may put
more there), `MaxOut` the number at which the user waits, and `MaxUniq` lets
one object be closed by the debugger and opened again with a new identifier.
`Cushion = 0` stands for 10 or 1000, so that lines are dropped and requested
again.  The two programs only have these messages to exchange, and may have
none: deadlock is not checked.

`calls` has one recursive function whose statements are before the call, and
around it and the return, depth four, and two signals: enough for a deeper
activation to reach the trap first, for a signal to take the place of the stop,
and for the subject to die in every wait.  `frames` has three functions, three
activations and a call stack of three, so that recursion and two `Frame`s of
one function occur together, and a window can have changed its level when spies
ask; the cut of the oldest activations at `StackLimit` (1000) is not reached in
the run, only in the theorems, which hold for every depth and limit.  `exprs`
has five nodes and three lines: a spy, an expression derived from it and one
derived from both; the words and what is typed are chosen so that a pointer can
become null, an array decays, a line assigns to a variable another line shows,
`{i}b` fails, `b` being no active function, and a comma, `$,7`, evaluates the
text of a line that may be spied on.  `journal` has a ring of two for three
lines, and an event is counted up to three, so that a count could be two
behind.  `menus` starts its caches at size two with three items, so that they
grow, and has two texts that are equal when cut.  The subject of `calls` and
`frames` may be dead, a journal or a menu at its bound: deadlock is not checked
there.

Three assumptions stand in the properties of `run_control`, and each is
needed:  that the user is patient (`~hasty`), that signals are traced
(`host.mask`), and `Prompt`.  `hasty_skip`, `stop_lost` and the wait of
`Process::stop`, which sleeps one second and polls once, are their
counterexamples.  A hasty step can block in `waitpid` for a subject that runs,
and nothing is served then: nothing is said of what such a user gets in the
end.  `Prompt` says that a subject which is scheduled takes its `SIGSTOP` in
that second.

Fairness of `PadLines`: the terminal polls the pipe all the time (`Receive`,
weak); the debugger returns to `TermServe` after each handler, but a handler
may fill the pipe any number of times before (strong).

Fairness of `Journal` is that of `PadLines`.  Fairness of `Calls`: the debugger
goes on with a command it has begun, since it serves nothing else meanwhile;
the subject is not assumed to do anything.

Fairness (`RunControl!Fairness`).  The debugger finishes a handler it has
begun; the terminal's clock and the pipe work; the subject is scheduled.
`Cycle` is strongly fair: a `P_CYCLE` waits in the same pipe as the user's
commands and is served in its turn, but the handlers before it disable it again
and again.  No user action is fair.

## Findings

Three places where the code does otherwise than its documentation says, each
with a run that shows it; `PROJECT.json` has the quotations.

* A step, or run, between a hit and the poll that notices it executes the
  breakpoint instruction again; the program's own instruction is then skipped.
* An untraced signal next to the user's `SIGSTOP` makes `readwrite` take the
  user's stop for its own and run the subject again.
* A return given at an instruction where the frame pointer is still, or again,
  the caller's (before a function has made its frame, or at its `ret`) runs the
  subject one activation too far (`core.c:293`).

Other divergences met while modelling.  The models exclude them by the bounds
and conditions named here:

* `cycles` is a `char` and gains a surplus whenever an alarm replaces one that
  is set; when it wraps, polling ends (`MaxCycles`).
* Closing a window after exec writes bytes of the old image (`Own`); taking
  over from a process that died unnoticed loses all breakpoints.
* A line for a new window whose `Pad` has the address of the one inserted into
  last, and was deleted, can be sent as its next line and get lost (`Reuses`).
  With `Reuses = TRUE` TLC finds `KeepsPromise` violated: a line is inserted,
  its window closed, a `Pad` gets the address, and its first line goes as
  `P_NEXTLINE`.
* A subject that is killed while it is stopped is not found dead before the
  next command, and its window says `BREAKED`, `HALTED` or `STEPPED` until
  then, where `help.pi:950-955` has "ERROR STATE" for a process that died
  (`SettledIsTrue`).
* The library declares `virtual void linereq(long, Attrib)` (`pads/pads.h:216`)
  and calls it with a `long` (`pads/host/term.c:257`).  The windows of
  `pi.linux` declare `linereq(int, Attrib)` (`journal.h:18`, `process.h:57`,
  `srctext.h:45`, `sigmask.h:28`, `help.c:20`), which hides it and does not
  override it: with that `pads.h` a request ends in `PadRcv::linereq`
  (`padrcv.c:33`), which complains, and the line never comes.  The makefile
  (`pi.linux/makefile:24`) takes Pads from outside the repository, and
  `pi.solaris` declares `long`.  So `Journal` says what its requests get only
  where they arrive (`Overrides`); `RequestsArePending` and `LinesCome` of
  `PadLines` are about objects that do override it, and `Frames!linereq` is a
  step which only such a window takes.
* In `merge` a spy on a register may be computed from the `Frame`s of other
  activations (its level is still the old one), and the `Frame`s it has had
  made may be overwritten in their entries and leak.  They have no window, so
  nothing on the screen gets lost (`FramesAgree`); what the spy shows then is
  not modelled.
* `merge` knows functions, not activations: when the inner one of two recursive
  activations returns and only it had a window, the window is given to the
  outer one, where `help.pi` says that it is closed (the condition of
  `WindowStays`).
* `waitstop` sets no alarm, so that the 15 seconds after which `help.pi` lets a
  return or a step over end never pass.
* The journal sends a repeated line before it counts it, so that the count on
  the screen is one behind (`LinesAreTrue` says so).
* `PickOp` reads a short where the host sends a long (`pads/term/pad.c:557`),
  and numeric menus are written through a pointer that was never set
  (`cache.c:181`).
* In `{$}f` the `$` keeps the symbol of the window's own function; a comma over
  a spied line updates the text that the spy is compared with but not its line,
  and a spied comma is redisplayed when a spy on one of its operands comes or
  goes; a spy that cannot be evaluated once is none any more although its line
  keeps `>>>`; `$=$` of an array stores its address into it; an integer is
  assigned a real without conversion (`expr.c:1048` tests the same operand
  twice).  `Typed` and `Derived` in `MCExprs` leave the first and the fourth
  out, and `SpiesAreTrue` says nothing of a spy whose text has no value, nor of
  one that a comma joins with another line (`Entangled`).
* Items longer than 64 characters are cut and not found again, and a search can
  miss an item: each use enters a double (`cache.c:101`).  Nothing depends on
  it but the size of the caches.
* Closing the memory window leaves `Memory::changes` a null `pad` to call.
* Quitting pi leaves the traps in the text of its subjects; `open child` never
  finds the parent (`hostfunc.c:533` reads what only core files fill).

## Proofs

`BptsSession_proofs` proves about `BptsSession`, for every set of statements,
addresses, bytes and images:

* `TypeCorrect`: `Spec => []TypeOK`;
* `TextIsOwned`, `TrapsAreApart`, `SavedIsRight`, `ClosedRight`: the four
  invariants of `bpts_session`;
* `Refinement`: the session implements `Breakpoints!Spec`.

What they say of the subject's text holds while it runs the program its window
was opened with (`Own`); closing a window after exec is among the divergences
above.

The assumptions are those of the modules: statements have addresses, there is a
breakpoint byte, images have text everywhere, and no program contains the
breakpoint instruction itself (`OwnCodeAssumption`; with one, `laid` and `own`
could not be told apart, and only the refinement needs it).

The inductive invariant `IInv` adds `SavedIsOwn` to the text property: that the
text is right now does not say that lifting makes it right, unless what was
saved is right and can be written.  `OneTrapPerAddress` is needed because with
two traps at one address the second would save a breakpoint instruction.  A
closed session must not be `layed`, or death and closing could not be told
apart afterwards.  TLC checks each part of `IInv` in `bpts_session`.  The proof
has one lemma per operation (`SetBptKeeps`, `ClearKeeps`, `LayKeeps`,
`LiftKeeps`, `TakeOverKeeps`, `TakeOverFailsKeeps`) over one lemma on what
lifting restores (`LiftRestores`), and the refinement follows from the
invariant before and after a step.

`RunControl_proofs` proves about `RunControl`, for every program (`Succ`,
`Code`), condition, bound and kind of user:

* `TypeCorrect`: `Spec => []TypeOK`;
* `TextIsOwned`: `Spec => []TextOwned`, while the subject lives its text is its
  program with the breakpoint instruction at each trap exactly while `layed`;
* `ClosedHasOwnText`: a subject whose window was closed has its own text, the
  half of `CloseIsClean` that does not need a patient user.

The inductive invariant is `TypeOK`; `HostOK`, which relates what `Hostfunc`
believes to the subject (an unfetched event of a dead subject is its exit, only
the dead have exited, and only they are believed dead); the text property for a
live subject; and that a closed window is not `layed`.  `HostOK` is needed
because every write is skipped for a subject that is believed dead: if a live
one could be, the lift of a step would leave its traps.  There is one lemma per
operator of `Inferior` (what it keeps, and that no subject comes to life),
`OneListStep` says that each action of the window does at most one thing to the
list, and `OwnStep`, `HostStep`, `WindowStep` and `ClosedStep` prove one part
of the invariant each.

The second half of the module goes on from there:

* `IsPolled`: `Spec => []Polled`, and `SettledTrue`: `Spec => []SettledIsTrue`,
  for every user who stops clicking `run` before the `char` that counts the
  polls wraps (`MaxCycles <= CharMax`; what happens then is among the
  divergences above);
* `NothingSkipped`: `Spec => []PatientNoSkip`, and `ClosedClean`:  `Spec =>
  []CloseIsClean`, if moreover the program has no breakpoint instruction of its
  own (`NoTrapInCode`).  `hasty_skip` shows that "as long as the user was
  patient" is needed in them.

The invariant for polling adds to `HostOK` that the subject runs, or has an
event that was not fetched, only while `Hostfunc` takes it for `ACTIVE`
(`Good`), and says for each place where a handler can be interrupted what is
left to do (`PollInv`): whatever the debugger has to come back to is due, which
means that a `P_CYCLE` is expected and on its way, and a handler that is about
to poll again has room in the `char` to count it.  The status line may be wrong
only while something is due, and a subject that runs, or has something to tell,
makes something due.  For `PatientNoSkip` it adds that the program counter is
one byte behind a breakpoint instruction only until the trap's event is fetched
(`Fixed`), which a hasty command between the two would break.

`Calls_proofs` proves about `Calls`, for every program, stack and bound:

* `TypeCorrect`: `Spec => []TypeOK`, the local variables of the interrupted
  commands included;
* `TextIsRestored`: `Spec => []TextRestored`;
* `CallIsStepped`, `ReturnsStop`, `IntoReturnsAgain`: the three action
  properties of `calls`; `ReturnsStop` for a return from an activation that has
  its frame, which `return_too_far` shows is needed.

Its inductive invariant is `HostInv` (the subject is still unless a trap is
laid and the debugger waits; it is one byte behind an instruction only with a
trap's event not fetched), `TextInv` (the text is the program with the one
trap, over the scratch code while `docall` lasts, and what the trap saved is
right), `PathInv`, `IntoInv` and `IdleInv`.  `PathInv` carries the argument of
the action properties: while a command waits for its activation to come back,
the subject is either there, or above it on the stack in an activation whose
return address leads there, with everything below as it was (`OnWay`).  A trap
that is reached deeper keeps `OnWay`, so only the comparison of frame pointers
can end the wait, and it ends it in the right activation; that comparison needs
`FramePointers`.

`Menus_proofs` proves about `Menus`, for every vocabulary, every way of cutting
texts (`Cut[Cut[t]] = Cut[t]`) and every bound: `MadeMeant` (`[]MadeIsMeant`)
and `AllDefined` (`[]Defined`).  The inductive invariant `MInv` relates the
four places where a menu is:

* `HostInv`: the caches; a menu has only bins that were there before it;
* `MeansInv`, `LaidInv`: the histories are what the bins say, and the entries
  of a menu are those of its bins, one after the other;
* `PipeInv`: each message under way says what the caches hold and names only
  what the terminal has or gets before it, and each entry comes once, after a
  table that is large enough.  It is needed because the terminal asks for
  nothing: what it is told too early is lost;
* `TermInv`: the terminal's tables are what the caches say.

The last part proves `EntriesMeant` (`[]EntriesAreMeant`) on top of it.
`CarteEntry` is a walk that goes on to the next bin or down into a menu; `LET`
defines it as a recursive function, and that there is such a function must be
proved first.  `WalksEnd` does so for any walk with a rank, and the rank here
is a menu's number, since its bins are older, before the place in it.  Then the
entry at the end of the walk is the one that `LaidInv` puts there.

`Frames_proofs` proves about `Frames`, for every set of functions, depth and
limit of the call stack: `FramesAlwaysAgree` (`[]FramesAgree`) and
`WindowsStay` (`Spec => WindowStays`).  The inductive invariant `IInv` (TLC has
checked it on the instance of `frames`) adds to `FramesAgree` that an entry
which points to a `Frame` is at the level that the `Frame` has, and two things
about stacks: the subject's activations tell their places, and a call stack is
a piece of a stack, of which, if one of its activations is still there, all
older ones are (`ChainIn`).  `FoldLeft` is unfolded into the turns of `merge`
(`MergeLoop`, with `MergeAt` as the loop's invariant) and of `regloc`.
`MergeAt` says of the entries that are newer than the last one given that their
`Frame`s, if any, have no window: they were made by the spies of this very
`merge`, and only such a one is ever overwritten.  For `WindowStays` a second
loop invariant, `StayAt`, says that as long as both call stacks have the same
functions above their oldest entries, and those of one function all have
`Frame`s, no `Frame` has been given to an entry that is too new, whatever
happened to the other functions; `ChainIn` provides the same functions.

`Journal_proofs` proves about `Journal`, for every set of texts, every length
of the ring and every bound: `Recently` (`[]WindowIsRecent`), `Truly`
(`[]LinesAreTrue`) and `Answered` (`[]RequestsAreAnswered`, which is about an
object that `Overrides`).  The three are about the window that the terminal
will have when it has read all messages under way, which is a fold of `PadOp`.
The inductive invariant `JInv` (TLC has checked it on the instance of
`journal`) is about the window it has now:

* `Ring`: the places of the ring hold the latest lines of the history;
* every line of the window, and every message about a line, is recent, or there
  is a message behind it that removes the line (`Recent`); what it says is
  right, or the line will be sent or asked for again (`Right`); and a line that
  waits is in a request under way, or will be replaced or removed (`LineOK`,
  `MessageOK`);
* the window is there, or the message that defines it is the next one
  (`Defines`).

`Received` shows that reading the next message, whichever it is, keeps this
with one message fewer to come, so that `Drained` concludes by induction over
the messages: behind the last one nothing is left that could put a line right,
hence all are right.  `MoreSent` is the other half: what `insert` and `linereq`
send keeps it, if the journal's new lines do (`Keeps`).  The loops of
`CreateLine`, `CRequestLines`, `TermServe` and `PadOp` are folds, each unfolded
into the function of its turns (`Turns`).  `JournalAssumption` says that
`TILDE`, the text of a dummy line, is none that a line can have: in this window
the terminal makes it empty (`NO_TILDE`), and `Journal::insert` returns early
on an empty text.

`PadLines_proofs` proves about `PadLines`, for every set of objects, every kind
of windows that `KindsAssumption` allows and every bound: `Ordered`
(`[]KeysInOrder`), `Agreement` (`[]WindowsAgree`), `Meaningful`
(`[]CallsAreMeant`), `Finding` (`[]WindowIsThere`) and, if a new `Pad` never
gets the address of a deleted one (`~Reuses`, as in the runs), `NotForgotten`
(`[]RequestsArePending`) and `PromisesKept` (`KeepsPromise`).  The inductive
invariant `PInv` (TLC has checked it on the instances of the runs and on one
with three kinds of windows) has three parts:

* `TypesOK`: the values of the library's variables and of the messages;
* `PipeOK`: the terminal as it is, and as it will be after each of the messages
  under way, is right (`TermOK`: one window of an object, lines in order), and
  each message fits the terminal that will read it (`Fits`).  What has to fit
  differs: `P_PADDEF` needs that there is no window, or a window would be bound
  to a new object; `P_MAKEGAP` and `P_CREATELINE` need one; `P_LINES` needs
  that no lines are there but those of an earlier `P_LINES`; `P_DELETE` that
  the window is not the one of the object as it is now, or its owner would be
  told; `P_NEXTLINE` that the key it counts to is one;
* `Agree`: the terminal that has read all agrees with the `Pad`s (`PadOK`),
  with the line inserted last (`PrevOK`), and with what it has sent itself
  (`OutOK`, `AskedOK`).

A call of the library adds one message: it must fit the last terminal
(`Sending`), which `Agree` is needed for.  A message that is read takes the
first terminal away (`ReadingOne`).  The user's doings are what makes it hard:
they change the first terminal under messages that were sent before, and every
later one with it.  `Taking` shows by induction over the messages that each
terminal stays behind the one it was to be in nothing but some lines, or the
whole, of one window (`Behind`), and that all messages still fit.  Messages of
the terminal are treated in the same way: a request that is read
(`LineReqKeeps`) sends a line for each key it answers, turn by turn, and
whatever it does not answer is not asked for any more.

`PromisesKept` (`~Reuses => (Spec => KeepsPromise)`) compares, for each step,
what the last terminal shows before and after it with the function that
`Windows` has for the call.  For a call of the library this is what the one
message more does to the last terminal (`CallShown`); that a line is written
exactly where the promise says needs `KeysInOrder` of the last terminal, and
for `P_NEXTLINE` that `prev` and `LINEobj` agree on both sides (`PrevOK`).  For
the user's doings it follows from `Behind`: the last terminal stays behind the
one it was to be, so what is missing are lines of that window, or the window;
and of a line that is cut, that no message under way turns one line less into
two (`SoleStep`).

`KindsAssumption` says of the attributes what the sources do: `DONT_CLOSE` is
set by a demonstration only, `FAKELINE` by the terminal only, and the two
windows that use `createline` and `makegap`, the journal and the frames
(`journal.c:48`, `frame.c:103`), are not told when the user closes them.
`PadWindows_proofs` has the invariant and the lemmas about messages,
`PadLines_proofs` those about steps.

Induction over numbers is done in these modules with sets in place of
predicates (`Induct`, from the well-foundedness of `<` on the naturals): the
library's theorems take an operator, which no prover here can instantiate.

Only model-checked:

* liveness under fairness (`EventNoticed`, `TracedStopHonoured`,
  `DeathNoticed`, `LinesCome`), which is out of the prover's reach, as ENABLED
  is;
* everything of `Exprs`, whose operators are recursive.

## Not modelled

See the components of status `not_modelled` in `PROJECT.json`.  Inside the
modelled ones: core files (never online), a subject opened twice (`opencnt`),
slaves (`slavedriver` is never called) and children, and what the process
window shows beyond the status line; of Pads lines, `SORTED` windows, folding,
selection, names, banners and tabs, `DONT_CLOSE`, which no window of pi uses,
and the wrap of the 16 bit identifiers; of `Calls`, breakpoints of the list met
during a command (they are lifted), several statements of one step command, and
programs whose function prologues the code does not recognize; of `Frames`,
stops at places where the newest activation has no frame and the values that a
window shows (what spies ask for before `merge`, `process.c:402,421,449,472`,
is `regloc` while the subject counts as running); of `Exprs`, what is listed
with the module.

## Plan

1. `Processes`: the list of processes, `opencnt` and hang, with several
windows.  2. `Exprs`: structures and casts; the memory window's cells and their
spies.
