# Verification of the MP3.3 kernel

TLA+ models, TLC runs and TLAPS proofs for the kernel in `src/`: a small
single-processor x86 kernel (C and assembly) that boots into a shell, runs up
to six programs, each executed by the one before, and drives a text screen, a
keyboard, a real-time clock (RTC) and a read-only file system in memory.

## 1. The system

### Components, their state and operations

| component | files | state | operations |
|---|---|---|---|
| Boot | `boot.S`, `kernel.c` | order of initialisation | `entry`: IDT, operation tables, file system, 8259, paging, keyboard, RTC, `sti`, `execute("shell")` |
| System call entry, IDT | `syscall.S`, `idt.c` | IDT | `systemcall` (numbers 1..10, else -1); `e0`..`e19` print and loop for ever |
| Process management | `process.c` | `pid_check`, `cur_pid`, `new_pid`, `cur_process_ptr`, `filed_array`, PCBs, `tss.esp0`, page directory entry 32 | `execute`, `halt`, `open`, `close`, `read`, `write`, four stubs |
| File operation tables | `fileoptable.c` | `file_operation_table[4]` | RTC, directory, file, terminal entries |
| File system | `filesystem.c` | boot block, inodes, data blocks, `curdentry` | `read_dentry_by_name`, `read_dentry_by_index`, `read_data`, file and directory drivers |
| Paging | `paging.c` | `DT`, `PT`, TLB | `paging_init`, the switch in `execute` and `halt` |
| Screen, terminal driver | `lib.c`, `terminal.c` | `screen_x`, `screen_y`, video page | `putc`, `vertical_scrolling`, `backspace_handler`, `clean_screen`, `terminal_write`, `terminal_read`; string functions, `printf` |
| Hardware cursor | `cursor.c` | index and data registers of the CRT controller | `update_cursor` |
| Keyboard | `keyboard.c`, `Keyboard_Interrupt_wrapper.S` | `keyboard_buffer`, `buffer_position`, modifier flags | `handle_keyboard_irq`, `handle_special_key`, `clean_buffer` |
| RTC | `RTC.c` | `rtc_interrupt`, `issue.rtc_freq` | `rtc_init`, handler, `rtc_open`, `rtc_read`, `rtc_write`, `getRate` |
| 8259 controllers | `i8259.c` | `master_mask`, `slave_mask`; IMR, ISR, IRR | `i8259_init`, `enable_irq`, `disable_irq`, `send_eoi` |

### How they interact

There is one processor and no scheduler. A program enters the kernel through
`int 0x80`, a *trap* gate: interrupts stay on in a system call, except in
`execute` and `halt`, which begin with `cli`. The keyboard and the RTC enter
through *interrupt* gates: a handler runs to its end with interrupts off. So
the only concurrency is (a) a handler between any two instructions of a system
call, with `screen_x`, `screen_y`, the CRT controller's index register,
`keyboard_buffer` and `rtc_interrupt` shared, and (b) the devices, which may
raise a line at any time. A child process runs on top of its parent's `execute`
call; the parent waits on its own kernel stack until the child halts.

Components also meet in memory: `curdentry` points at the boot block itself, so
a dentry copied through it overwrites the directory's counters, and `open` uses
an uninitialised pointer whose value was left on the kernel stack by whatever
ran before.

### What is hard, and what makes each part correct

* **Process management.** Three variables say which process runs, and the TSS,
  the page directory and the TLB have to agree with them. `halt` frees a slot
  before it can fail; the root shell is replaced from inside its own kernel
  stack; a slot is reused without being cleared. Correct: the context is one
  process's (`UserContext`), the processes form a chain (`ProcessChain`),
  descriptors and memory do not change behind a process's back (`Isolation`,
  `DescriptorsPersist`, `StandardStreams`), and all of it is a stack of program
  images (`ImplementsStack`).
* **Screen and keyboard.** `putc` is a dozen loads and stores that a key may
  separate. Correct: the cursor comes back to the screen, programs write on
  the screen, the line holds only its own characters, the hardware cursor ends
  where the text cursor is, writes end.
* **Keyboard and reader.** One buffer is both the line being edited and the
  line handed over, two shift keys share a flag, and a read waits for nothing.
  Correct: the buffer is a line editor (`ImplementsLineEditor`), and a line that
  was entered can be read until the next one is begun (`ReadsEnteredLine`).
* **Interrupts.** Edge-triggered devices stay silent until they are read and
  controllers block lines until they are told the interrupt is over. Correct:
  no request is lost or left in service, keys are read, `rtc_read` neither
  returns much too early nor never.
* **File system.** Counters that a lookup overwrites; unterminated names;
  lengths that wrap around; offsets within a block. Correct: a name finds its
  own dentry (`OwnDentry`), the counters still cover the files (`CountCovers`,
  `LongNameReads`), data is the file's (`AlignedRead`), reads end.
* **Paging.** Code that lives in a page turns paging on; a switch is three stores
  and a flush; the processor may cache any translation meanwhile. Correct: the
  kernel stays mapped, a program reaches its own frame and nothing else.

The full list of hazards, with lines, is in `PROJECT.json`.

## 2. The modules

| module | models | states of its run |
|---|---|---|
| `Process` | `process.c` with the parts of `filesystem.c`, `fileoptable.c`, `syscall.S`, `idt.c`, `kernel.c` it needs | |
| `ProcessStack` | abstract specification: a stack of program images | |
| `MCProcess` | the directory for TLC | 59 770 |
| `Process_proofs` | theorems about `Process` | |
| `ProcessStack_proofs` | that `Process` implements `ProcessStack` | |
| `Console` | `putc` and its helpers in `lib.c`, `terminal_write`, `update_cursor`, what the keyboard's handler prints | 172 642 |
| `Console_proofs` | theorems about `Console` | |
| `Interrupts` | `i8259.c`, the boot order of `kernel.c`, both handlers' hardware protocol, `RTC.c` | 9 075 |
| `Interrupts_proofs` | theorems about `Interrupts` | |
| `FileSystem` | `filesystem.c` on the bytes of the boot block; the name that `execute` cuts off a command and its lookup | |
| `Lib` | `strlen`, `strncmp`, `strcpy`, `strrev`, `itoa`, `%d` of `printf` | |
| `BootBlock` | what `Process` takes for granted of the file system, against the bytes | |
| `MCFileSystem` | the image for TLC | 2 109 |
| `FileSystem_proofs` | theorems about `FileSystem`, `Lib` and `BootBlock` | |
| `Terminal` | scancode map, modifiers and line buffer of `keyboard.c`, `terminal_read`, `read` of descriptor 0 | 648 384 |
| `LineEditor` | abstract specification: a line that is edited and handed over | |
| `Terminal_proofs` | theorems about `Terminal`, and that it implements `LineEditor` | |
| `Paging` | `paging.c`, the page switches of `execute` and `halt`, the TLB | 320 |
| `Paging_proofs` | theorems about `Paging` | |
| `DataLemmas` | sequences given as functions, smallest numbers, recursion on the naturals, for the proofs | |

### Process

One action per system call and outcome. A system call of this module can be
one action: `execute` and `halt` run with interrupts off, and the handlers
share none of its state except the dead words below the kernel stack pointer
(`stale`).

* A PCB, a kernel stack top and a 4 MB user frame are fixed functions of the
  pid, so pointers to them are pids and NULL is `None`. Hence
  `cur_process_ptr`, `filed_array`, `tss_esp0`, `DT` and `tlb` are pids, and
  "they agree" is an equation.
* `Launch` is `execute` from the slot search to `IRET`; `ExecuteFails` is every
  early return; `HaltRoot` is `execute("shell")` called from `halt`. `HaltChild`
  ends in `close`; the statements of `halt` behind that call are never reached,
  in the code or in the model.
* `close` never returns, whatever it is given (`CloseSearch`). Its search first
  copies the dentries again and again through a pointer it never set, and then
  calls through `filed_array[FDARRAY_MAX]`, the word after the array, which is
  the pid. In the compiled kernel the pointer is what the calls before left on
  the stack, so there are three outcomes: it is not mapped and the first copy
  faults; it lies in user memory, whose image is overwritten (the halting
  program's parent's, as `halt` has switched the page by then) before the call
  faults; or it lies in the kernel, and nothing is known from there on.
* `stale` is what `open` will find in its uninitialised local, decided by the
  last thing that used that stack word: `"bad"` (an unmapped address), `"text"`
  (the code of a driver, left by `write`) or `"user"` (user memory, left by a
  failed `execute`). Which call leaves what was read off the compiled kernel
  (`src/bootimg`); it is undefined behaviour in C and another build may differ.
* `fs` is the boot block as far as lookups can tell: whether the dentry count is
  intact, too large or zero, and whether the inode count still covers the
  files. `ClobberedBy` says what a dentry copied over the block leaves, by the
  length of its name (`class`).
* An action that ends in `Hang` is one that enters an exception handler, whose
  loop (`Stopped`) never ends. `"wild"` is a kernel whose own memory was
  overwritten, by `open` or `close`: the variables then keep the values of the
  moment before, and the properties say nothing about that state.
* A frame whose image was overwritten holds `Missing`, the name of no program.

`ProcessStack` is what all this is for: programs are pushed on a stack, only
the top runs, only the top is removed, the images below stay as they were. When
the machine stops, at most the top has gone, and only the last image left may
have been harmed.
`Process!Stack` is the refinement mapping.

### Console

The system call takes one step per load or store of `screen_x` and `screen_y`,
in the order the compiled code makes them (`pc` names the next step, `rx` and
`ry` are the registers); the character and its attribute byte are one store.
The handler is a key action followed by `Echo` steps, one per character it
prints; while `echo > 0` the system call does not run. Characters are left out:
a cell of the line buffer records only whose line it belongs to, and a store to
video memory only whether it hits the one page that `PT_init` maps.

`update_cursor` is the last part of `putc`: its two arguments are loaded, then
index, low byte, index, high byte go to the CRT controller, in five more steps,
between which a handler may do all of it itself. `torn` remembers that one did:
then the system call's late bytes may overwrite the handler's, and the cursor is
wrong until the next character (nobody promises otherwise). `CursorFollows` is
what is left: in every other interleaving the cursor ends at the right cell. It
needs each update to select both registers, since the controller has one index.

### FileSystem

A lookup is one action, the loop of `read_data` takes a step per block. Only
the first bytes of the boot block, which `curdentry` overlays, are state
(`header`); they are kept as bytes because a *name* is what ends up in the two
counters. The dentries behind them and the index nodes are constants.
`ThroughCurdentry` is every driver's lookup; `Load` is `execute`'s, which copies
into a dentry of its own. `Word` reads a counter back as the next lookup does.
A cell of the buffer is the block and the position its byte came from, so that
"the file's bytes" is an equation. `call`, `rd` and `printed` remember what was
asked for and printed.

`file_command` is the name that `execute` looks up. The loop at process.c:62
tests `command[cmd_curindex]`, which never changes, so everything behind the
leading blanks is copied, blanks and arguments included; a program is found all
the same because names are compared as prefixes (`OwnDentry` covers that). It
follows that `arg_start` is the command's end and no argument is ever copied.

Three facts of the image are assumptions (`ImageAssumption`): names are ASCII
without blanks and come first, what is not used is zero, and a character of
a name is larger than any index and the fifth, if there is one, than any inode,
so that a name's bytes in a counter make it large. `src/filesys_img` is such an
image: its characters are 46 and more, it has 17 files, the largest inode is 55
and no name has a fifth character below that (`.` is 46, but is never the fifth).
What programs pass is a C string (`RequestAssumption`).

`BootBlock` instantiates `Process` with the names of the image and states, step
by step (`ProcessAbstraction`), that `Found`, `Lookup`, `ClobberedBy` and
`Loads` of that module are what the bytes do. The reads of `Process` leave the
data out; `FileSystem` is that part. `Process` knows a name only if a string can
be equal to it and no other name begins it; `NamesAssumption` says that the other
names of the image are those that fill their dentry (one of the image's does),
that no request holds the control characters 1 and 2 that stand behind such a
name, and that programs have an inode of their own.

`Lib` holds the functions of `lib.c` that these lookups use, on functions from
addresses to bytes.

### Terminal

A scancode is one action, as its handler is atomic. A character is a key and
whether it is the upper one, so the four columns of the map are four values;
two rows of the table differ from the rule and are kept as they are (keyboard.c:70
gives `V` for `b` under Caps Lock, keyboard.c:61 `:` for `;`). A read copies a
byte per step and does so twice, as `read` calls the driver twice
(process.c:474 and 506). `held` (the keys that are down), `dropped` (one of two
held shift keys was released and none pressed since), `entered` and `whole` are
history variables.

The two shift keys share `Shift_pressed`, so the release of one clears the flag
while the other is down. `ModifiersFollowKeys` says when exactly the flag and the
keys differ: from such a release (`dropped`) to the next press or repeat, and at
no other time.

`LineEditor` says what the buffer is for. `entered` is one line or none: there is
no queue, and the first character of the next line takes the entered one away.
The refinement maps `line` to the first `buffer_position` cells.

### Paging

An entry is a record of its bits and a frame number. Loops take a step per
entry and a switch a step per store, although interrupts are off there: the
processor may cache a translation (`Fill`) of whatever the tables say at that
moment, of half-written entries too. `Walk` is the hardware's translation. Of
processes only what chooses the frame is kept (`pid_check`, `parent`,
`cur_pid`). `HaltRootFails` is the restart of the root shell that fails: `halt`
goes on with parent -1, reads the "control block" at 0x800000, which the hole
behind the kernel's page turns into a fault; were that page present, the next
switch would map frame 2 + -1 = 1, the kernel's, for programs. The G bit
is left out: `CR4.PGE` is never set.

### Interrupts

The model starts at `i8259_init`, with devices silent until the controllers are
set up. `pic` holds the driver's two masks and the registers IMR, ISR, IRR over
all sixteen lines; `Enable`, `Disable`, `Eoi` are the driver's functions, so
that a call made of two calls is a composition. Handlers take a step per access
to controller or device, and the devices may signal between any two. `rtc_read`
takes a step per test, `cli`, store and `sti`. The controller's arbitration
(`Requested`, `Take`) and the devices (`Tick`, `Key`) are external: they are
what the code assumes of the hardware. A system call through the descriptor
layer always passes 2 to `rtc_write`; the model lets every frequency the driver
accepts be set, as `tests.c` does.

## 3. The runs

| run | shows | result |
|---|---|---|
| `process` | type, context, chain, streams, isolation, descriptors, refinement of `ProcessStack` | passes |
| `halt` | `HaltResumesParent`: process.c:328 "deal with the return value to execute" | violated |
| `open` | `OpenReturns`: process.c:369-370 "file array filled with entry", "-1 for failure" | violated |
| `console` | type, text cursor, hardware cursor, visible writes, line, writes end | passes |
| `console_crash` | `NeverFaults`: Buglog.txt:45-48, scrolling crash "Solved by: Edit the keyboard buffer size" | violated |
| `interrupts` | type, in-service, no silent device, rtc_read not too early, keys served, rtc_read returns | passes |
| `rtc_early` | `ReadWaitsAll`: RTC.c:97 "return when 1024/freq times interrupt happened" | violated |
| `pic_mask` | `DisableMasks`: i8259.c:85 "Disable (mask) the specified IRQ" | violated |
| `filesystem` | type, own dentry, counters, reads within the request, aligned reads, directory reads, printed numbers, reads end, what `Process` assumes | passes |
| `fs_offset` | `ReadsAtOffset`: filesystem.c:82 "offset, into the inode;", :97 "fetching all content after offset" | violated |
| `terminal` | type, modifiers, entered lines are read, refinement of `LineEditor`, reads end | passes |
| `paging` | type, kernel mapped, nothing else mapped (tests.c:141-172), own frame, kernel private, no stale translation | passes |

The six violations are disagreements between the code and what it says:

* **halt**: a child's `halt` frees its slot, switches TSS and page directory,
  then `close(2)` runs its loop to index 8 and calls through the pid. The parent
  never runs again, and its memory may have been overwritten by the search. As
  long as the kernel's memory is not, the table stays consistent: `ProcessChain`
  holds in the hung state too.
* **open**: on the first `open` of a program the local points nowhere and the
  copy faults; after a `write` it points at kernel code.
* **console_crash**: on the last row, a key taken after `screen_y++` and before
  `screen_x = 0` is echoed at row `NUM_ROWS`. Of the 96 bytes (48 cells) behind
  the screen in the mapped page, a column of 48 or more is past the end.
* **rtc_early**: `rtc_interrupt` is set by every tick, also when nobody reads.
  `NotTooEarly` says that the error is never more than one interrupt.
* **pic_mask**: the only caller is `rtc_init`, which runs before `sti`, so
  nothing follows from it today.
* **fs_offset**: `starting` is the block of the offset, but `memcpy` starts at the
  block's first byte. A read at offset 1 returns the bytes from 0 on. Programs
  do not notice today: `position` of a descriptor stays 0, as nothing advances it.

### Bounds, and why they are enough

* `process`: three slots (the code has 6), so that there is a root, a middle and
  a last process and a full table; three descriptors (8), so that there are the
  two standard ones and one to take, and "no descriptor free" happens.
  `RW_LIMIT` is 3; in the code it is 7, one below the array size, which makes
  descriptor 7 unusable. With three descriptors that off-by-one would leave none
  to read, so the run lets read and write reach every descriptor; the theorems
  hold for every `RW_LIMIT` up to `FDARRAY_MAX`. The directory has one name of
  every kind that matters: a directory, the RTC, a program whose name is four
  characters (it clears the low byte of the inode count) and one whose name is
  longer.
* `console`: a 3 by 2 screen with two cells to spare in its page (80 by 25 with
  48), so that wrap, scroll and a column beyond the slack all happen; a line of
  4 (127), so that TAB fills it exactly or partly.
* `interrupts`: base frequency 6 (1024), which gives reads of one, two and three
  rounds. The count of interrupts during a read stops at the base frequency,
  above any number of rounds.

* `filesystem`: names of 8 bytes (32) and blocks of 2 (4096), with 32-bit
  words of which lengths and offsets use 5 bits, so that lengths of one, two and
  three blocks, a wrap-around and every alignment happen. The image has a name
  of each length that matters: one, four (its 0 byte falls on the number of
  inodes), five, and eight (no 0 byte in its dentry), besides a name that is not
  there, one that extends another, and a command with blanks and an argument.
* `terminal`: a line of 2 (127), one letter, Enter, TAB, Backspace, Ctrl-L, and
  all modifiers. Longer lines add no new relation between the reader's cell and
  the editor's; two cells are what TAB overflows and Backspace empties.
* `paging`: 8 entries (1024) with the video page, the user's entry and a hole
  apart from each other; three processes (6), so that a switch up, down and to a
  grandchild happens.

### Fairness

* `Process` needs none; its properties are safety properties.
* `Console`: WF on `Echo`, since a handler waits for nothing; SF on the system
  call, because a key only suspends it and keys come further apart than
  instructions. Nothing is assumed of keys or of programs that write.
* `Interrupts`: WF on boot steps, handler steps and the RTC's period; SF on
  taking an interrupt and on the steps of `rtc_read`, which are disabled now and
  then by `cli` and by handlers, but not for good. The line of the keyboard has
  priority, so `ReadReturns` is stated for runs in which keys leave a gap again
  and again.

* `FileSystem`: WF on the loop of `read_data`, which waits for nothing.
* `Terminal`: WF on the steps of a read, which waits for nothing either; keys
  leave it enabled. Nothing is assumed of keys or of programs that read.
* `Paging` needs none.

Deadlock is checked in all passing runs: a hung machine loops (`Stopped`,
`Hung`), as the exception handlers do.

## 4. What is proved

For every value of the constants, from the assumptions named in the modules
(`SizesAssumption`, `DirectoryAssumption`, `ScreenAssumption`,
`BaseAssumption`, `LayoutAssumption`, `BufferAssumption`, `ImageAssumption`,
`RequestAssumption`, `NamesAssumption`), all of them also evaluated by TLC:

* `Process_proofs`: `Typing`, `ContextAgrees`, `Chain`, `Streams`
  (`Spec => []` of `TypeOK`, `UserContext`, `ProcessChain`, `StandardStreams`)
  and the action properties `Isolated` (`Spec => Isolation`) and `Persistent`
  (`Spec => DescriptorsPersist`). `Isolation` is about descriptors as long as the
  kernel's memory is intact and about images as long as programs run, as a `close`
  that stops the machine may overwrite an image. `DescriptorsPersist` has two
  halves: a program starts without descriptors of its slot's former owner, where
  the shell that replaces the root starts too though its slot is never free
  (`Starts`), and in every other step an open descriptor keeps its entry. They
  follow from the slot of each launch (`ExecuteSlot`, `RootSlot`) and from what
  `initialize_PCB` makes of a PCB (`InitializedType`). `ProcessChain` is
  not inductive: it does not say which slot the next process gets. `IInv` adds
  that the live slots are exactly those up to some pid, and that the parent of
  slot p is slot p - 1 (`ChainBySlot`, `Running`): the first free slot is then
  the one above the running process, `LaunchInv` shows that a launch keeps
  this, and `InvChain` that it implies the chain.
* `ProcessStack_proofs`: `Implements` (`Spec => ImplementsStack`), from the same
  invariant. The mapping makes a stack of the live slots, which only the chain by
  slot allows: a launch is then an `Append` of the new image, a halt a `SubSeq`
  without the last, and the images below are the same ones because nobody writes
  another process's frame. Where `halt` or `close` stops the machine, `LastHarmed`
  shows that the image that may be overwritten is the last one left.
* `Console_proofs`: `Typing`, `OnScreen`, `Visible`, `Line`, `Follows`. `CursorOnScreen`
  needs `Loaded`: what the system call holds in its registers between a load
  and a store was on the screen. `Line` needs only the types. `Follows` needs
  `Drawn`: at each step of `update_cursor` that no key has torn, which registers
  hold which bytes of the text cursor, and that the handler leaves both right.
* `Interrupts_proofs`: `Typing`, `Served`, `NoneSilent`, `EarlyByOne`.
  `IInv` adds that nothing happens before its time in the boot sequence
  (`Quiet`), that handlers run with interrupts off (`Gated`), and that every
  round of `rtc_read` and a set flag is paid for by an interrupt but one
  (`Paid`).
* `Paging_proofs`: `Typing`, `Reachable`, `Only`, `NoStale`, `Own`, `Private`,
  which are all safety properties of that run. `IInv` adds what the loops of
  `paging_init` have done so far (`Building`, `Built`), which slots are in use
  (`InSlots`, the chain of `Process` by slot again), what the entry of programs
  is after each store of a switch (`HalfWritten`), and what the TLB may hold
  (`Kept`). The half-written entry is why `Kept` is needed: during a switch the
  TLB may hold a program's translation of frame 0, and it is the flush, before
  anything runs with it, that makes `OwnFrame` true. `Reach` computes the
  translations the tables of each step make.

* `Terminal_proofs`: `Typing`, `Modified`, `Delivered`, and `Edits`
  (`Spec => ImplementsLineEditor`). `ReadsEnteredLine` needs more than itself: an
  entered line stands in the cells, newline included, until the next one is begun
  (`Intact`), the position is 0 as long as it does (`Untouched`), and nothing is
  left of an earlier read (`Copied`). For the refinement a key is one `Append` of
  the abstract line or, for TAB, several up to the limit (`Extended`).
* `FileSystem_proofs`: `Typing`, `Covered`, `FindsOwn`, `LongNames`, `Bounded`,
  `Aligns`, `Lists`, `Printing`, which are all invariants of that run, and
  `Abstracts` (`Spec => ProcessAbstraction`). After any sequence of lookups the
  first byte of each counter is 0 or a character or what the image said
  (`HeaderInv`): hence the counters are zero or large, from which `Covered`,
  `FindsOwn` and `LongNames` follow. `BufferInv` and `LoopInv` say where the loop of
  `read_data` stands: what is copied so far is the file from the offset on, as
  many whole blocks as rounds were made, unless the length ends first.
  `Strncmp`, `StrlenType`, `DecimalValue` and their neighbours say what the
  functions of `Lib` return for every input: a comparison with a dentry's name is
  "begins with", the digits of a number have its value. `Abstracts` relates
  the two models of the boot block: a request begins with at most one name that
  `Process` knows (`BegunOnce`), a lookup finds that one or, once the count is
  too large, an empty dentry (`Finds`), and what its copy leaves depends on the
  length of the name alone (`Clobbers`).
* `DataLemmas` is what these rest on where data is built step by step. The
  library's induction theorems take an operator as parameter and cannot be
  instantiated here, so what would be an induction is an argument by the
  smallest counterexample (`Least`), and that a recursive function exists is
  proved from its initial segments (`Recursion`).

Each module's `IInv` was also model-checked, as an invariant of its run's
instance, before it was proved; the runs list only the properties themselves.

## 5. Only model-checked, and not modelled

Only checked by TLC: the liveness properties `WriteEnds`, `KeyServed`,
`ReadReturns` and the two `ReadEnds`. They rest on fairness and ENABLED, which
are out of the prover's reach. Every invariant and every action property that a
passing run checks, and both refinements, are also theorems.

Not modelled, and why:

* the 32-byte buffers on `execute`'s stack (process.c:41-42) as memory: what a
  longer command overwrites depends on the compiler;
* the other conversions of `printf`, and `memset`, `memmove`, `strncpy`: none of
  the kernel's decisions depends on them;
* `getRate`: its only caller passes 1024 (for some other frequencies it would
  never end);
* `enable_cursor`, `disable_cursor`, `clear`, `test_interrupts`,
  `terminal_close`: never called, or called once before anything else runs
  (`terminal_close` is in the terminal's table, but `close` calls through the
  word behind the descriptor array instead);
* multiboot parsing, the GDT, TSS and IDT descriptors: constant data;
* `tests.c` is not called by the kernel and `new_rw` is not compiled.

The devices are assumed silent before `i8259_init`.

## 6. Plan

What is left, in order of importance:

1. For the loops whose ends are only model-checked, that every step of them
   comes nearer to the end: `read_data` by its block index, `terminal_read` by its
   byte count, `putc` by its step and the characters to echo.
2. `getRate` of `RTC.c` as a function, with the frequencies for which it ends.
3. An abstract specification of `rtc_read` (a number of interrupts waited for)
   that `Interrupts` implements up to one interrupt.
