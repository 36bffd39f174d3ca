# Verification of the CSC209 programs

The repository holds the exercises and assignments of a course on systems
programming in C. Its largest program is `a4`, a job server: clients connect
over TCP and ask it to run programs, list them and kill them. This directory
holds TLA+ models of the programs, runs of the model checker TLC on small
instances, and proofs that the TLA+ proof system TLAPS checks for every
instance. `PROJECT.json` is the index: it maps every definition to the lines
of C it models, and lists the runs, the faulty variants, the hazards, the
findings and the theorems.

## 1. The parts of the system

| part | source | state | operations | models |
|---|---|---|---|---|
| job table | `a4/jobprotocol.c`, reap loop of `a4/jobserver.c` | `job_list`, the children, what the kernel has under each pid | run, kill, jobs, the reap loop before each command | `JobPool`, `JobTable` |
| client loop | `main` of `a4/jobserver.c`, `setup_new_client`, `a4/socket.c` | `client_list`, `allfds`, `maxfd`, the open descriptors, the snapshot of `select` | select, accept, scan, read, handle, drop a client | `JobServer` |
| line framing | `t10/bufserver.c`, the same loop in `a4/jobserver.c` | the buffer, `inbuf`, `room` | read, find a newline, hand on a line, move the rest | `LineBuffer` |
| reply packing | `print_active_jobs` | the array `pid_list` while it is filled | pids into at most 256 bytes | `PidList` |
| chat server | `t11/chat_server.c`, `t11/socket.c` | `usernames`, `all_fds`, `max_fd`, the snapshot of `select`, the place in a broadcast | accept or refuse, first message is the name, broadcast, leave | `Connection`, `ChatServer` |
| chat client | `t11/chat_client.c` | one buffer for both sides, the snapshot of `select` | name, select, read and print, read and send | `ChatClient`; a peer in `ChatServer` |
| sieve pipeline | `a3` | a chain of processes, the descriptors of each, the pipes between them, the list each has | count, make a stage, take, pass on, filter, wait, report | `Pfact` |
| process tree | `a2` | the nodes linked so far, the activations of the recursion; underneath, processes that come and go | look a process up in `/proc`, read its children, link them, print | `Ptree` |
| SIN validation | `a1/part2` | the number, its reversal, the digits | reverse, split, check sum | `Sin` |
| count_large | `a1/part1` | what the last `scanf` left in the variables | scan, compare, count | `CountLarge` |
| password checking | `t08/validate.c` | two chunks from a pipe | read, read, look up | `Validate` |
| fork exercises | `t07` | processes, the unwritten part of each one's `stdout` | fork, print, wait, exit | `Forks` |
| `t01` to `t04`, `t06`, `t09`, `randclient`, `readserver`, `checkpasswd`, the jobs | | | | not modelled, section 9 |

How they interact. A client's bytes pass through the framing (`LineBuffer`) and
become commands; the client loop (`JobServer`) takes one command at a time from
one client at a time and runs the handler, which is a step-by-step operation on
the job table (`JobTable`). The table's steps are system calls about child
processes, and the children write to the client's connection directly, since
`start_job` gives them the socket as their standard output. The server has no
threads: what runs beside it are its jobs, the peers, the network, and the
other processes of the machine, which share the space of pids.

The chat server is built like the client loop (the assignment grew out of it),
but reads each ready user once in a pass and writes to all users inside the
scan. Both servers meet the same TCP: the states of a connection and what a
write does to it are in `Connection`.

`a2` and `a3` are programs of their own. `pfact` is a chain of processes that
share every descriptor they inherit and talk through pipes; `ptree` reads the
tree of processes of the machine, which does not hold still for it.

What is hard in it: children that end between any two calls and pids that come
back; a `select` snapshot used while clients come and go; a blocking read inside
a loop that was meant to multiplex; peers that close, reset or fall silent at
any point; descriptors, slots and buffers that are reused with their old
contents; limits (32 jobs, 20 clients, 256 bytes) that are reached; pipes that
two processes read from, or that nobody will write to any more; processes that
end between the check that they exist and the use of their files; reads that cut
messages, and `scanf` that takes words wherever lines end; output that a process
has printed, not yet written, and forked a copy of.

What makes each part correct:

- job table: a job is listed exactly once, from its first instant until it ends
  or is killed on request; nothing that was not named is killed; ended jobs
  leave the table.
- client loop: the four records of a client agree; a ready client can be read
  without blocking; commands are handled once, in order, all of them; a patient
  client is served.
- chat server: slots, descriptors and names agree; a read never blocks; every
  user hears everything the others say, in one order; what a user says is what
  it sent, without gap or repetition; no user keeps another one waiting, except by
  not reading what it is sent, or by connections that are refused without end.
- framing: the lines handed on are the lines sent, however the bytes are cut
  into reads; the end of the stream is not confused with a full buffer.
- reply packing: the array is never left, and no list with room for all pids is cut.
- chat client: what is on the screen is what the server sent, in order, without
  padding; the client ends when its user or its server does.
- sieve: whichever process gets to the end of the loops and whatever it lost on
  the way, there is one verdict, and the right one of those the program knows;
  no process exits before its child; a read is never ended by a stream that ends.
- process tree: whoever stays is shown, once and in its place; the structure has
  no cycle; what is missing is the fault of a process that has gone, and so is a
  crash, unless the descriptors are used up.
- SIN, count_large, validate: the answer is the one to be worked out from the input,
  however that is cut into reads or words, as far as the code gets it right (what a
  cut can change is said in the property).
- fork exercises: the number of lines is the one to be worked out from the program;
  nobody exits before its children.

## 2. Modules

- `JobPool` is the abstract specification of the job table: a set of listed
  pids, a set of living ones and one pending request. It has no slots, no
  `waitpid` and no signals.
- `JobTable` is the table and the handlers, one action for each system call
  that the outside can get in between. `MCJobTable` is its instance for TLC,
  `JobTableProofs` its theorems.
- `JobServer` EXTENDS `JobTable` and composes it with the client loop: its
  actions conjoin the table's actions with what the loop does around them.
  `MCJobServer`, `JobServerProofs`.
- `LineBuffer` is the framing, down to the stale bytes in the buffer.
- `PidList`, `ChatClient`, `Sin`, `CountLarge`, `Validate` and `Forks` are the small
  programs, each a state machine of its own with its own variables.
- `MCPrograms` is the instance of `LineBuffer` and of these six, in one run. A
  behaviour chooses a `program` and runs it from any of its initial states; the
  others stay in one fixed state (`Idle`), so that the states are those of each
  program, added and not multiplied. The programs do not interact, and each property
  speaks of one program's variables only. Its inputs for `LineBuffer` are those of
  `MCLineBuffer`, which is an instance of its own as well. `ProgramsProofs` has the
  theorems of `LineBuffer`, `PidList`, `Sin`, `CountLarge`, `Validate` and `Forks`, and
  of all of them side by side; `ChatClientProofs` has those of `ChatClient`.
- `Connection` holds what the two servers have in common of TCP: the states of a
  connection as the server's kernel sees it, those at the end of the stream, and
  the effect of a write. It models no code of the repository (it is marked
  external in the map).
- `ChatServer` is `t11/chat_server.c`, with `MCChatServer` and
  `ChatServerProofs`.
- `Pfact` is the sieve of `a3`, with `MCPfact` and `PfactProofs`.
- `Ptree` is `a2`, with `MCPtree` and `PtreeProofs`.
- `Minimum` holds the lemmas about `Min` of a set that the proofs share.

Definitions whose comment begins with "Faulty variant of" are not used by the
specifications: each is a plausible bug, and putting it in the place of the
definition named makes one of the properties fail (`mutants` in `PROJECT.json`).

### 2.1 JobTable and the code

| model | code |
|---|---|
| `job_list` | the array of `JobNode *`; a node is its pid, the only field read again (`spot` is its index) |
| `proc` | the kernel's process table: free, running, doomed (SIGKILL sent), zombie, or a stranger's |
| `step`, `cursor`, `cmd` | where the handler is: jobserver.c:145-180 and the `i` of its loop |
| `victim` | `job->pid` in `kill_job`, after the node was unlisted and before `kill` |
| `SkipSlot`, `WaitFirst`, `WaitSecondRunning`, `WaitSecondEnded` | the reap loop. It calls `waitpid` twice for every job: the first call may collect the child and its result is thrown away, the second then returns -1, which is as true as a pid |
| `kill_job`, `kill_pid` | two steps, since the outside can act between them |
| `start_job` | `create_jobnode` and `start_job`: first free slot, fork, pid stored |
| `RunRefused`, `ForkFails`, `KillListed`, `KillUnknown`, `print_active_jobs`, `Ignore` | the other branches of the switch |
| `JobEnds`, `StrangerStarts`, `StrangerEnds` | the environment |

A kill command names any pid, or none (`NULL`), which also stands for the
uninitialised `jobname` of a "kill" without an argument. The mode of an empty
line is whatever the stack held (`get_mode` reads an uninitialised
`command_name`), so it is one of `Commands`, chosen by whoever sends it. Command
words have fewer than ten letters, as those the supplied client lets through.

The code never waits for a job it has killed on request: the process stays a
zombie and its pid stays taken. That is in the model (`proc` stays "zombie" and
no action collects it), and it is why in the end `start_job` may be impossible
and `ForkFails` the only step left.

### 2.2 JobServer and the code

| model | code |
|---|---|
| `open`, `client_list`, `allfds`, `maxfd`, `listenfds` | the descriptor table, and the variables of those names in `main` |
| `pc`, `index` | the position in the loop jobserver.c:84-196, and how the server ended |
| `link`, `inbox` | a connection as the server's kernel sees it, and the data it holds |
| `buffer` | the complete commands of the last read that were not handled yet |
| `Select` ... `EndScan` | one pass: select, accept or not, scan of the slots |
| `ReadData`, `ReadEOF`, `ReadError`, `BeginCommand`, `Handle...` | the inner loop jobserver.c:111-190, up to the handlers |
| `AcceptFails` | `setup_new_client` returns NULL and main dereferences it |
| `HandleAndReply` | a handler that writes: a write to a reset connection raises SIGPIPE |
| `Interrupt` | SIGINT. The code installs the wrong structure, whose handler was never assigned |
| `sent`, `handled` | history, for the properties only |

`select` never returns with EINTR here. It can only block while `maxfd` is the
listening socket, before the first client; there are no children then. Later
`maxfd` covers the write end of a pipe that main adds to the set and that is
always writable, so `select` returns at once, and the loop is a busy one
(`Select` is enabled with nothing readable, as in the code).

The model abstracts the bytes: what travels is whole commands, cut into reads
at any boundary between commands. Reads that end inside a command are the
subject of `LineBuffer`. A peer's actions before it is accepted are not told
apart from the same actions after. Writes never block.

### 2.3 LineBuffer and the code

`buf`, `inbuf`, `room` are the code's. `Read` takes any number of bytes that
fit. `ReadZero` is a read that returns 0, at the end of the stream or with no
room. `TakeLine` marks the newline, hands the line on and moves the rest to the
front, leaving behind it what was there. `find_network_newline` looks at
`buf[i + 1]` for every `i < inbuf`, so it can see one byte that is not input;
`TakeLine` then ends in a `memmove` of negative size, and a search that runs off
a full buffer reads outside it. Both servers are built with AddressSanitizer
(see their Makefiles), which ends the program: the state "aborted".

What a peer sends is one of `Streams`, a constant that stands for the protocol and not
for code: CR and LF are sent together (`Paired`), and the last line may have no end.

### 2.4 ChatServer and the code

| model | code |
|---|---|
| `link`, `open` | the connections and the descriptor table, in the kernel |
| `sock_fd`, `username` | the array `usernames` of `main`, -1 and `NULL` in a free slot |
| `all_fds`, `listen_fds`, `max_fd` | the variables of those names |
| `pc`, `index` | the place in the loop of `main`, and how the server ended |
| `i` | the loop variable of `read_from`, whose writes are separate steps |
| `Select` | chat_server.c:134-150; the clients' descriptors are also in the set to write to, so that with a client `select` returns at once |
| `Accept`, `Refuse`, `AcceptFails` | `setup_new_client` and what main does with its result; a client too many, or a failed `accept`, skips the scan of that pass. A connection whose `accept` failed may still be there; one that was refused can be made again |
| `ReadName`, `NoName`, `NameFails` | `read_user` and `remove_newline`, by what `read` returns |
| `ReadMessage`, `ReadFails` | the read of `read_from`; `StartBroadcast` stands for the composition of the message |
| `SkipSlot`, `WriteMessage`, `WriteToBroken`, `EndBroadcast` | the loop of `read_from` |
| `Leave` | `read_from` returns the descriptor, and main forgets the user |
| `Connect`, `Send`, `PeerEvent` | the clients (`chat_client.c`) and the network |
| `said`, `heard`, `joined`, `named` | history, for the properties only |

A client's writes are numbered chunks; what the server reads is any number of
those that have arrived, so `taken` and `sent` are numbers. The texts, their
truncation to the buffers and the prompts are left out. A name is whose it is:
`GARBAGE` is what the uninitialised buffer holds after a read that failed.
The bytes in a connection are not counted: a write to a user who is connected may
take for ever (`WriteMayBlock`). `ClientFds` has one descriptor more than there are slots,
for the connection that is accepted only to be closed.

### 2.5 Pfact and the code

| model | code |
|---|---|
| `pc` | where each process is: in the loops of `main`, in `make_stage` as parent or child, reporting |
| `fd` | its table of descriptors; `fd1` and `fds2` are the numbers that `main` has in `fd1` and `fd2` |
| `main` | `i`, `j`, `factor_list` (its length is `factors`) and `filters` |
| `list` | the array of characters, as the set of numbers that were blanked out in it |
| `queue` | what is in each pipe; every write is of one whole list |
| `NextNumber`, `NextMultiple`, `Factor` | the two loops, pfact.c:81-101 |
| `make_stage`, `ForkFails`, `PipeMade` | `pipe` and `fork`, neither of which is checked |
| `Take`, `Pass`, `FilterRead`, `FilterWrite`, `FreeAborts`, `CloseAll`, `WaitForChild` | the parent: pipeline_stage.c:14-20, filter.c and the `wait` and `exit` of main |
| `ChildCloses`, `Get`, `Put` | the child: pipeline_stage.c:26, pfact.c:113-114 |
| `Report` | pfact.c:121-149 |

What is not obvious in it, and in the model:

- The child closes `read_fd`, which is 3, and the next `pipe` is given 3 again. So
  from the second stage on a stage reads its list from the pipe it has just made,
  which is empty, and whose end to write to it holds itself: it waits for ever, and
  so do all the processes above it. The shell gets its prompt back only for numbers
  that need at most one stage (up to 3), or when the first process aborts (see
  below), but the verdict is printed.
- The first stage writes the list to the new pipe and reads it back to filter it,
  and its child reads from the same pipe. If the child is first, the parent waits
  for ever too, and the child goes on with an unfiltered list.
- `filter` moves `cmp` to the number that it has found in the list, and frees it at
  the end. That is the beginning of a block only for 2, with which the list begins;
  for any other number `free` aborts the process (`FreeAborts`), after it has written
  the list. The first process strikes 2 first if the number is odd, and 3 or more if
  it is even: so it aborts for 4, 6, 8 and so on, as soon as it gets its list back,
  and the child goes on, without a parent, to the verdict (`AbortsOnlyEven`, `ExitsAfterVerdict`). Later stages do not filter: the
  list that they wait for never comes.
- Lists that go to the first pipe are taken out by the first stage only. When that
  one is through, or has aborted, the last end to read from is closed, and further
  writes fail, which does no harm. If it lost its list it keeps that end and waits:
  the pipe holds four lists (64 KiB are 16 pages, and a list of 15000 bytes takes 4),
  the next write waits for ever, and there is no verdict.
- `fork` may fail at any stage, and -1 is taken for the child's 0. At a later stage
  the verdict comes all the same, from the process that could not fork. At the first
  stage the process goes on with two pipes that only it can write, and waits for ever
  for a list in the second.
- `pipe` may fail, and the numbers in `fds2` are those of the pipe before, which this
  process may have closed: a read from it fails, and what the memory held is taken
  for the list (one of `Unwritten`; on the stack of `make_stage` and from `malloc` it
  may be anything). The verdict may then be wrong, or may not come.
- `VerdictComes` says that these three are the ways to lose it: the full first pipe,
  a first fork that fails, a pipe that could not be made.
- As long as pipes can be made no divisor is ever struck (`DivisorsStay`), so the
  verdict is always the same: "prime" without a divisor, otherwise the two smallest divisors, whether
  they are the two primes or not ("8 2 4"). The third answer of the program, "not
  the product of two primes", is never given. 0 and 1 are called prime.
- `is_in_list` looks for a blank and the digits, which also begin longer numbers;
  `filter` looks for a blank after them too, so it never finds the last number.
- `make_list` appends to memory that was never cleared. The process has freed
  nothing, so the memory is fresh and zeroed; the model starts from that.
- A write of 15000 bytes to a pipe with room for it is one step: the kernel holds
  the pipe's lock while it copies.

`add_factors` is never called. A process with a child has that one only. Descriptors
are numbers below `FdLimit`, and a pipe needs two of them (`RoomForPipe`): without
them, or for any other reason, it is not made. How often that happens is bounded by
`PipeFailures`.

### 2.6 Ptree and the code

| model | code |
|---|---|
| `status`, `kids` | the processes of the machine, and the children file of each: those that have not been reaped, oldest first |
| `tree` | the nodes, in the order of their addresses; an array of children is allocated at once, and nothing is freed |
| `stack` | the activations of `generate_ptree` with their `pid`, `cmd_err`, `c_in_int`, `child` and `i` |
| `StatProcess` ... `Name` | ptree.c:83-148, one step for each file that is looked at |
| `left`, `Opens` | the descriptors that are left to open files with: no file is ever closed |
| `Visit`, `LinkOver`, `Break`, `LinkSibling`, `LastSibling` | the loop ptree.c:151-189 |
| `Segv` | `fgets` from a file that could not be opened |
| `print_ptree` | `print_ptree`, whose recursion is the function `Printed`; it touches memory only, so nothing can get in between |
| `Fork`, `Exit`, `Reap`, `Family` | the environment: what processes do, and how they are related to begin with |
| `born`, `steady` | history, for the properties only |

Two `lstat` calls in a row on files of the same process, with the same
consequence, are one step: a process that is gone stays gone, so what the second
finds decides. A process that has ended is a zombie until it is reaped; its files
are there meanwhile, its children have gone to init. No pid is used twice: the
kernel goes through all pids before it uses one again, which takes longer than
`ptree` does. A name is there or not, its text is left out. `malloc` gives zeroed
memory, as long as nothing has been freed: an unfilled node has pid 0, no name and
no pointers.

Of each process that is looked at two files are opened and stay open, its children
file and its command line. With the usual limit of 1024 descriptors, three of which
are in use to begin with, 510 processes can be read; at the next one `fopen`
returns a null pointer and `fgets` crashes. `Limits` are the numbers of descriptors
that there may be.

### 2.7 The small programs and the code

| model | code |
|---|---|
| `PidList`: `next`, `active`, `length` | `i` and `active_jobs` of `print_active_jobs`, and `strlen(pid_list)` |
| `NoJob`, `AppendPid`, `SendReply` | the loop over the slots, with the room that is left in the array; the newline put at the end and the write |
| `ChatClient`: `frames`, `received`, `typed`, `written` | the two streams, by the positions of their bytes and chunks |
| `text` | what a `printf` of the buffer prints: the buffer is used for both sides and its bytes stay there |
| `ReadName`, `Select`, `ReadSocket`, `ReadChunk`, `StdinEnds`, `SocketEnds`, `SocketFails` | the read before the loop, and the loop, chat_client.c:60-100, by what `read` returns |
| `UserActs`, `ServerWrites`, `ConnectionFails` | the user, the server, the network |
| `Sin`: `sin`, `reversed_sin`, `sin_array`, `sum` | the variables of those names; `ToInt` is the width of an `int` |
| `ReverseDigit`, `SplitDigit`, `SplitEnds`, `CheckDigit`, `CheckEnds` | the loops of `populate_array` and `check_sin`, and `main`, one round each |
| `CountLarge`: `given_permissions`, `size_file`, `size_counter` | the variables that `scanf` fills or leaves, and the counter |
| `ScanLine`, `ScanWord`, `ScanEnds` | one call of `scanf` that takes a line, or a further word of a name; and the end |
| `Validate`: `Chunk`, `TextOf` | what a read brings of the bytes that have been written, and the string that is left of it at the newline |
| `ReadUserid`, `ReadPassword`, `ReadNothing`, `Lookup`, `NoFile` | the two reads and the look-up, by what they find; `Writer` is the other end of the pipe |
| `Forks`: `procs[p].at`, `.i`, `.n`, `.stdout` | where the process is, its `i` and `n`, and the lines in its `stdout` that are not written |
| `SimplePrint`, `Test`, `Fork`, `ForkFails`, `PrintLine`, `Wait`, `Exit` | the statements of the four programs; `Forks` is the test that decides who forks |

What is not obvious in them:

- The server of the chat sends frames of 258 bytes, padded with NULs; the client
  reads at most 128 at a time and prints up to the first NUL. A read that has the
  end of one frame and the beginning of the next loses the latter. `MessagesAreShown`
  says that it is lost only if two frames were under way at once.
- A failed read (-1) of the client is not told from a length, and what the buffer
  holds is printed again (`SocketFails`). Its `username` array has no room for the
  terminator of a name of 128 bytes (chat_client.c:46); the model counts chunks and
  does not have it.
- `print_active_jobs` leaves room for the terminator but not for the newline. With
  pids of five digits 32 of them fit. With seven digits (a `pid_max` above a
  million) they do not, and the sanitized server can end (`reply = "aborted"`).
- A number that ends in 0 loses digits in the reversal (sin_helpers.c:15-19): one of
  nine digits then makes an array of fewer, and is called invalid whatever its check
  sum, though sin_helpers.c:36 promises "true iff the given sin_array is a valid SIN".
  Numbers of more than nine digits can overflow; `VerdictIsRight` excludes both.
- `validate` does not know where the chunks end. If both are written before the first
  read, that one takes a part of the password too, and loses it; the second read has
  the rest, which may be another user's password, or what the file has for this one:
  "user" and "xxxxxpass", each with its newline, are read as "user" and "pass". A
  longer user id or password is compared by its first ten bytes. `StatusIsRight` says
  what remains: the documented status if the chunks fit and the first read takes the
  first one only, and whether the user is known also if it takes more.
- A plain mode ("-rw-r--r--") has ten characters, as many as `given_permissions`, and
  `scanf` writes its terminator behind the array; with a mark after it
  ("-rw-r--r--@") it overruns by one byte more. What lies there is another array's;
  the model has the first byte behind `given_permissions` as one more cell, since it
  is read again, and leaves out the next, which is not (`Stored`). `check_permissions` compares the terminators too, so a file with
  a mark is never counted if permissions are asked for.
- A word in a file's name after the first is taken for the mode of the next line;
  `CountLarge` follows `scanf` through that, for words that are no numbers.
- `stdout` is line-buffered on a terminal only; elsewhere `forkloop` writes what was
  printed before a fork once for each descendant too.

## 3. The runs

| run | configuration | question | result |
|---|---|---|---|
| `job_table` | 3 pids, 3 slots, fair | do the safety properties hold, does the table implement `JobPool`, are ended jobs struck off, does a kill end its job? | holds, 48064 states |
| `stray_signal` | 2 pids, 1 slot | is only a job ever signalled? | no, finding |
| `job_server` | 3 clients, 2 slots, 3 commands, 1 pid | do the records agree, is the snapshot good, are commands in order? | holds, 2272159 states |
| `job_server_live` | 2 clients, 2 slots, 2 commands, fair | are patient clients served? | holds, 80048 states |
| `starvation` | 2 clients, fair | is every client heard? | no, finding |
| `chat_server` | 3 clients, 2 slots, 3 chunks, fair | do the records agree, do reads not block, do all see one conversation, is everybody read? | holds, 608667 states |
| `chat_server_echo` | 1 client, 1 slot, 2 chunks | is who sends a message sent its echo? | no, finding |
| `nameless_leaver` | 1 client, 1 slot, 2 chunks | does the server survive a user that leaves without a name? | no, finding |
| `programs` | the small programs, each with bounds of its own; the chat client fair | are the lines handed on the lines sent, the messages shown those sent, the answers right, the outputs complete, whatever the reads cut and whoever runs first? | holds, 525185 states |
| `line_buffer_over` | buffer of 4, one letter | does the search look at input only? | no, finding |
| `sieve` | the numbers 0 to 10, 4 processes, 2 lists in a pipe, forks that fail anywhere and one pipe that can not be made, fair | is there one verdict and the right one, whoever wins the races; who ends before it; does it come? | holds, 334865 states |
| `process_tree` | 5 processes in 3 families, any of which fork and end, limits -1, 0 and 2, descriptors for 3, 4 or 10 files, fair | is the structure sound, is everybody who stays in it, does the program end? | holds, 889378 states |

The bounds are named constants, and why they are enough:

- `Pids`, `MAX_JOBS`. Three slots with three pids let the table fill up, be
  emptied in the middle and be refilled in another order than it was filled; a
  killed job that lingers or a stranger takes one of the pids. Two jobs
  interact only through slots and pids, so pairs are what matters.
- `Clients`, `MAX_CLIENTS`. Three connections on two slots reuse both slots and
  descriptors, in orders in which slot and descriptor do not match, and reach
  the full list.
- `MaxSent` bounds the commands on all connections together. With three, one
  read can bring two commands and leave one, or each client send one.
- For the chat server, three clients on two slots again reuse slots and
  descriptors and bring a client too many. `MaxSent` counts names too: with
  three, one user names itself and says two things, in one read or two, or two
  users name themselves and one speaks. With two slots there is never an empty
  slot between the sender and a reader; the theorems cover every number of slots.
- `BUFSIZE = 4` with lines of 0 to 3 bytes: two short lines fit in the buffer at
  once, one line fits exactly, one does not fit. The larger constants of the
  programs (30 and 256) change none of the comparisons.
- `BUF_SIZE = 3` for the chat client makes frames of 8 bytes: a text that ends in the
  first read, one that takes part of the second and one that fills the frame. Two
  frames let one read have a part of each, and two chunks are a name and a message.
- `PidList` has the real sizes, 256 bytes and 32 slots, with pids of up to 5 and of
  up to 7 digits.
- `DIGITS = 3` with `INT_MAX = 2047` is the relation of nine digits to 32 bits: any
  number of that many digits fits when reversed, and not every one of one digit
  more. Three digits have both weights, and doubled digits above 9.
- Two files of two permissions, with and without a mark, with names of one to three
  words: a name can run into the next file, and the other file can have the mode
  that it leaves behind.
- Password chunks for reads of 3 bytes: short, exact, too long, with a newline and
  without one, so that a rest or a beginning of one can stand in the file. Files of
  two lines have a user once, twice or never.
- `forkloop` with up to two rounds makes four processes, two of them forked by
  different parents; the other two programs have up to four rounds. (`forkloop` with
  three rounds was run once, with 3.9 million states, and `LinesAddUp` holds.)
- `Targets` are the numbers to 10: primes, squares, products of two primes, a number
  with more factors (8), odd and even ones, 0 and 1. Numbers of two digits begin with
  numbers of one, so that `is_in_list` is deceived. `PipeLists = 2` lets the first
  pipe fill up with the lists of two stages. With `ProcessLimit = 4` fork may fail at
  each of three stages and fails at the fourth, any number of times. The four lists
  that a pipe really holds take longer chains to fill it, and nothing else depends on
  their number. The theorems cover any numbers and limits.
- `FdLimit = 32` is more than four processes can use: pipes fail by `PipeFailures`
  only, once in a run. `Unwritten` is a list without numbers and one that has lost
  some of them.
- `MaxPid = 5`: four siblings of which two or three in a row can be gone, a family
  whose elder child has children of its own, and three generations with a process
  yet to be forked. `Depths` has no limit, a limit that cuts, and one below 0,
  which only the stack can have held. `Limits` of 3 and 4 descriptors run out at the
  command line of the second process and at the children file of the third; 10 are
  enough for all.

The theorems of section 6 need none of these bounds for what they cover.

`CHECK_DEADLOCK FALSE` is set where the system may stop: the server may have
exited, may wait for ever in a read, or a connection has ended.

## 4. Fairness

- `FairTableSpec`: weak fairness of `HandleCommand` (the server is a process
  that runs; none of the steps of a handler blocks, `waitpid` being called with
  WNOHANG) and of the death of a process that was sent SIGKILL, which it cannot
  refuse. Nothing is assumed of commands arriving or of jobs ending.
  `EndedJobsAreStruck` is therefore conditional on commands going on.
- `FairSpec`: weak fairness of `ServerStep` as a whole. That is exact for a
  sequential process: when it is blocked in `read` or `select`, no server step
  is enabled. (Replies are short, and writes of the job server are taken not to block.)
  Nothing is assumed of clients, jobs or the network:
  `PatientClientsAreServed` has the departure of clients as its hypothesis, and
  `EveryClientIsHeard`, without it, fails.

- `FairSpec` of `ChatServer`: weak fairness of `ServerStep` where it is no write to a
  user who is connected (`WriteMayBlock`): no read of this server blocks, but such a
  write waits for a user who does not read, once the connection's buffers are full.
  Nothing is assumed of the clients. `EveryUserIsRead` therefore has two exceptions
  besides: the server is in one write for ever, or connections are refused or fail
  without end, each of which skips the scan of its pass (chat_server.c:156-157).

- `FairSpec` of `Pfact`: weak fairness of each process's `Step`. A process that
  waits in `read`, `write` or `wait` has no step enabled, so nothing is assumed of
  it; the pipes' readers and writers are processes of the chain themselves.
- `ProgramsSpec`: weak fairness of `ClientStep`, the chat client's own steps, and of
  no other program. It is one process that blocks in `read` and `select` only, and
  then has no step enabled. Nothing is assumed of the user or the server. `ClientEnds`
  has an exception because the code has it: the read of the name, before the loop,
  does not notice that the server has ended.
- `FairSpec` of `Ptree`: weak fairness of `ptree`, one sequential program that never
  blocks. Nothing is assumed of the other processes.

The liveness runs use no symmetry.

## 5. What the code does and its documents do not say

Each is a run whose property states the document, and which TLC refutes; the
texts, quoted with their lines, are in `PROJECT.json` under `findings`.

- `NoStraySignal`. The reap loop signals pids of children it has collected.
- `EveryClientIsHeard`. One silent client keeps every other one waiting.
- `SurvivesNamelessLeaver`. The chat server's main does not look at what
  `read_user` returns: a user who connects and leaves without a name makes it
  call `strlen` on a null pointer.
- `SearchesInputOnly`. A stale LF completes a CR: with a buffer of 4, the lines
  "", "" in one read and then "aa" with only its CR.
- `EchoedToSender`. The comments of the chat server and of its client both speak of an
  echo to who sent the message; `read_from` writes to everybody else only.

Not findings, since no document says otherwise, but in the models: the client after
the last slot ends the job server (`AcceptFails`), and so does a reply to a client that
has reset its connection (`HandleAndReply`); the verdicts of the sieve for
numbers that are not products of two primes, the abort of its first process for even
ones, and the ways in which it never comes to a verdict (section 2.5); the crash of
`ptree` when a process ends between `lstat` and `fopen` or when its descriptors are
used up, and its empty lines for children that were gone (`OnlyTheGoneAreMissed`
says that there is no other reason for either); the cut passwords and the lost digits
(section 2.7).

## 6. The proofs

`JobTableProofs`, `JobServerProofs`, `ChatServerProofs`, `PfactProofs`, `PtreeProofs`,
`ChatClientProofs` and `ProgramsProofs`, with the lemmas of `Minimum`, are checked by
`tlapm` without any assumption besides those named in the modules:

- `TableAssumption`: NULL is no pid, there is at least one slot.
- `ServerAssumption`, `DescriptorAssumption`: NULL is no connection and no descriptor;
  the commands are commands.
- `ChatAssumption`: there is a slot; NULL and GARBAGE are no clients.
- `PfactAssumption`: targets are natural numbers, there is a process, a pipe holds a
  list, a process has descriptors for two pipes, and what stands in unwritten memory
  is read as a set of numbers.
- `PtreeAssumption`: there is a process, its children are processes, and the processes
  are a `Family` to begin with: nobody is the child of two, everybody with children
  but init is somebody's child, and there is an order in which init comes first and
  parents come before their children (the order in which they were forked); the
  numbers of descriptors are natural numbers.
- `ClientAssumption`: the buffer is not empty, texts fit in frames.
- `BufferAssumption`: the buffer is not empty, and peers keep to the protocol.
- `CountAssumption`: what is listed has the form of `ls -l`; no letter of a mode is that
  of a directory.
- `SinAssumption`: an `int` holds every number of `DIGITS` digits, and not every one
  with a digit more.
- `ValidateAssumption`: chunks are not empty strings of characters, and the files have
  lines of a user and a password.
- `ForksAssumption`: the programs are those of `t07`.
- `PidListAssumption`: the array is longer than what stands in it.

**The table.** `TableTypeOK`, `EntriesAreSound` and `NoLostJob` are not inductive.
The strengthening `IInv` adds what the position of the handler says about the
processes: which entry may be free (the one at the cursor between the two
waitpids), that the victim is not listed, and what the victim can be (a job
that has ended, or the one asked for). The crux is that a listed pid other than
that entry is a zombie at worst, so that neither fork nor a stranger can take
it: this is what makes pids in the table distinct although the kernel reuses
them. `Inductive` proves `TableSpec => []IInv`, with one step for each action;
the other theorems follow from it. `TableImplementsPool` proves the step
simulation: `WaitSecondEnded` and `KillListed` are the abstract `Retire` and
`Kill`, `start_job` is `Launch` (which needs that the pid is neither listed nor
alive, and that a free slot means fewer than `MAX_JOBS` listed pids, a counting
lemma), `JobEnds` is `Finish`, and the rest stutter or drop the request.

**The server.** Its actions are written so that each one is a table step or leaves the
table alone (the lemma `TableInServer`, which says no more than that). So whatever
holds of the table holds in the server (`ServerKeepsJobs`, `ServerImplementsPool`),
without proving it again. `ServerInductive` proves the conjunction of three parts:

- `Core`, types and the agreement of the records, together with where the scan
  is. `RecordsAgree` needs the descriptors of listed clients to be distinct,
  which needs `accept` to return one that is not open.
- `Snapshot`, that the connections in the snapshot which the scan has yet to
  visit can be read. It needs that no step takes readability away from another
  connection than the one being served, and that a descriptor accepted in this
  pass is not in the snapshot.
- `CommandsInOrder`, for any number of commands: `MaxSent` is a constant, and
  the proof does not depend on it.

**The chat server.** `ChatInductive` proves the conjunction of three parts, each
with the help of the one before:

- `Core`: types; `TableAgrees`; where the scan and the broadcast can be
  (`Control`: the slot of the sender is taken and named while its message goes
  round); and that the connections behind descriptors are distinct and linked.
  `Accept` needs a descriptor to be free when a slot is, which is a counting
  argument (there are more descriptors than slots, and each open one has a slot).
- `ReadsDoNotBlock`, as in the job server, here also across the broadcast, whose
  writes can change the state of connections that the scan has yet to visit.
- The conversation: a client that is not connected has neither heard nor said
  anything, nobody joined after what was said, and then `HeardByAll` and
  `OwnWords`. When a broadcast starts, every user but the sender is `Pending`;
  each write strikes one off; at the end nobody is left.

**The sieve.** `Chain` is the inductive invariant of the processes: they are forked
in order, a process with a child only waits, and who exits without having waited has
given the verdict, or was set free by one that aborted. It is stated for any two
processes of the chain, not for neighbours, since a process that ends has to know
about all those behind it. Five more invariants stand on it (`SieveInvariant`):

- `Descriptors`, for `ReadersHoldWriters`: whoever holds an end of a pipe holds its end
  to write to, until it closes its own to wait. It is inductive because the only
  number a child closes is 3, which `pipe` never gives to an end to write to. It holds
  whatever pipes fail.
- `Flow` says where lists can be as long as all pipes were made: only the first process
  ever takes one; its children find 3 closed, or open to a pipe of their own which is
  empty, and get no further. So only the first process comes to filter (`OrderlyEnd`),
  and no read fails but the one that leaves the list as it was.
- `Sieved`, for `DivisorsAlwaysStay` and the types: main goes on to the multiples of
  a number only if that is no divisor of the target, whatever list it has. A divisor
  is in every list (that is the property itself), so main finds it and leaves the
  loop; and a multiple that divided the target would make the number divide it
  (`DivisorOfFactor`).
- `Divided`, for `RightVerdict`: what every copy of the loops has found begins with the
  least divisor below its number, and then comes that again, if it is the square root,
  or the next one (`FoundSoFar`).
- `Counted`, for the number of filters in the verdict: only the first process counts,
  while its list is whole, so it stops at the first number that is no divisor, which
  is 2 if the target is odd (hence `AbortsOnlyEven`); the children inherit its count. (`Tally` is both, as long as pipes can be made.)

`FactorsDivide`, that only divisors are ever entered, holds with or without pipes and
is what the types of a verdict need.

**The tree.** `Linked` adds to `LinksGoForward` that the array of the children of
each activation lies behind the node that it fills in, and inside the memory that is
allocated. With that each of the four places where a pointer is set leads forward
(`ChildLink`, `SiblingLink`, `NewArray`), and the recursion keeps it for the
activations that wait (`CallsAnother`, `GoesBack`). That the printing ends for every
tree follows on paper: along a path of pointers the addresses grow.

What is printed needs more. A node does not say which process it is meant for before
it is filled in, nor in whose array it stands, and for a process that is gone it never
will. `Placed` says that there are functions on the nodes which do: `who` gives every
node a process of its own, `owner` the node whose array it is in, `anc` all the nodes
above it, and `age` orders the processes that have not been reaped. They are found
step by step (`GeneratePlaced`; only `Name` extends them, with the array that it
allocates), and carry the argument:

- `Related` is about the machine alone: a process stands in one children file at most,
  that of its parent, or of init once the parent has ended.
- `Nested` and `Left`: each activation below the innermost one waits in the middle of
  its array, and `Left` are the nodes that some activation has yet to look at. A node is
  visited once, since a visit takes it out of `Left` for good.
- `Fresh` is the crux for "nobody is printed twice". A process can move from one
  children file to another, when its parent ends and init takes it over; so it could
  be read in two of them. But whoever stands in the file of a process p, and has a
  node already, has p looked at already too: the move only ever leads to init, whose
  file is read before all others or not at all (`age` excludes that it is met
  further down).
- `Skipped`: a node that has no pid and is not in `Left` was meant for a process that
  is gone.

`Shown` then says of the lines what `print_ptree` makes of such a tree: they are
those of different nodes, and each one below the first hangs on the last line above it
that is one level higher, which is that of the owner of its node. It is proved without
the induction theorems of the library: the recursion has a solution since pointers lead
forward (`Recursion`), and the greatest node for which `Shown` failed would have
links for which it holds (`AllShown`). `Sound` is the whole invariant, from which
`PtreeTypes`, `NobodyElseIsMissed`, `AlwaysBelowParent` and `TheSteadyAreShown` follow.

The last of them, that whoever has run all the time is printed (`SteadyShown`), is the
converse of the rest: not that every line is somebody's, but that everybody has one.
It needs three things more:

- `Kept`: the children file of a steady process always has its steady children, in the
  order in which they were forked, and a list read early still has them later
  (`Holding`): the others that come and go do not move them past each other.
- `Steadily`: a fourth ghost, the set `on` of the nodes that can be reached from the first
  one by the pointers. No node filled in for a steady process is outside it
  (`Chained`), and those of its children are in its array (`Families`). What the
  activations still have to link is in `AtWork`: a sibling whose process is gone is
  linked over (`LinkOverSteadily`), and must not cut off those behind it.
- `LeadsOn` and `Led`: whatever the node of a line leads to has a line too, the first
  child in the next one and the sibling behind all that is deeper, and siblings stand
  in the order of their nodes. `JoinedLeads` puts the lines of a node together from
  those of its child and of its sibling.

**The chat client.** `MessagesAreShown` becomes inductive with two facts: what a
server that waits has sent and the client has not read is of one frame
(`OneFrameLeft`), and what is on the screen are positions in the stream
(`Positions`). Within one frame the text comes before the padding, so what a read
prints up to the first NUL is all the text it brought (`LastFrame`); a new frame
does not change what stands at the positions before it (`TextStays`).

**The lines.** `LineInv` relates the buffer to the stream: the first `inbuf` bytes are
those that follow the ones consumed, and these end where a line ends (`Buffered`);
before a read it has a CR as its last byte at most, and not even there if it is full
(`Searched`); the lines handed on are those that end in what is consumed (`HandedOn`).
The crux is the stale byte behind the input that the search looks at: since streams
are `Paired`, a CR of the input that is followed by a stale LF begins a newline of the
stream all the same (`FirstNewline`), so the line handed on is right even where the
`memmove` after it is not.

**The small programs.** For `PidList`, `Packed` bounds the list by the pids appended, each
with its blank; a pid that is left out would have passed the end, so the bound for
all slots passes it too. For `Validate`, `ReadsKnown` says how many bytes the first
read can have taken, when the user id is the one sent although the read took more
(`WholeId`: a newline stands between), and when the second read has the password
whole. For `CountLarge`, `Placed` says
which word `scanf` is at and what the variables hold, and `CountedSoFar` counts the
large files of the lines begun; the types and the order of the words matter because
a word of a name overwrites the mode. For `Forks`, `ProcsKnown`, `Kin` and `Rounds` say
that a process has at most the one child that it forked in its present round, and
that as long as no fork fails there are exactly the children that were meant: who
forks is left to `getppid` and `getpid`, so `WhoForks` needs that parents are alive,
which needs that they wait, which is the property.

**Numbers and sums.** Two properties of the small programs are about what a loop or a bag
adds up to. The library's induction theorems take an operator as a parameter and
cannot be used here, but induction over a set can: a set of naturals that has 0 and
with each number the next is all of them (`AllNaturals`, by the least number that is
not in it), and from that a function that is defined by recursion exists
(`Recursion`) and a set of subsets of a finite set has all of them (`AllSubsets`).

- `VerdictIsRight` of `Sin`. `SinInv` says after each round what the variables hold as
  parts of `arg`: what is left of it, and the reversal of what was taken off
  (`Reversals`), which does not overflow (`ReversalFits`) and whose last digits are the
  first of `arg` again (`ReversalEnds`). It has as many digits as `arg` just if that
  does not end in 0, which is what the property says.
  Powers of ten are the function `power`, for any number of `DIGITS`.
- `LinesAddUp` of `Forks`. `Due` is what a process and all those that it will fork have
  still to write, by where it is and what its buffer has: in `forkloop` twice as much
  with each round that is left (`LoopUnrolls`), in the two programs that wait one line
  more for the child and its copy of the buffer (`WaitUnrolls`). `Accounted` is the
  invariant: what is written and what is due of all processes together is `Lines`, as
  long as no fork failed. A `printf` or an exit moves lines from one to the other
  (`Settles`); a fork divides what is due between parent and child, each with its copy
  of the buffer (`ForkShares`, `SharedSum`), which needs that the child is a new process
  (`Descent`) and that the right one goes on forking (`Rounds`, from above). At the
  end nothing is due. The sums are `SumFunction` of the community modules, unfolded in
  `SumsThere` and shown not to depend on the order of its choices in `SumTakes`.

**Side by side.** `ProgramsAlwaysTyped` and `ProgramsAlwaysRight` carry all of this over to the
specification that the run `programs` checks: a step of `ProgramsNext` is one of a single
program and leaves the others alone (`EachSteps`), so the conjunction of the invariants
is one (`ProgramsInv`).

Model-checked only:

- the liveness properties (`EndedJobsAreStruck`, `KillTakesEffect`,
  `PatientClientsAreServed`, `EveryUserIsRead`, `VerdictComes`, `PtreeEnds`,
  `ClientEnds`), which need reasoning about ENABLED that the installed provers do not
  do.

With that every invariant that a run checks is also the subject of a theorem. The
runs that expect a violation have properties that do not hold.

## 7. Faulty variants

Every property of a passing run has at least one faulty variant that violates
it, among them: a SIGCHLD handler that collects children (pids then appear
twice), a result of `waitpid` that is ignored, a reap loop that waits once, a
`maxfd` that follows the newest descriptor or none at all, a client that is dropped with its
last commands unread, a buffer that is emptied after each line; in the chat server, a slot without a name that is taken for a free
one, a full table that is not noticed, a scan that starts one slot late, a
broadcast that starts at the sender, a buffer that is not cleared between
messages; in the sieve, a square root that is entered once, a number too many that is struck,
an exit without the wait, a child that closes both ends, a read that is tried again; in the tree, a link that is
set one place too late, a last sibling that leads back to the first, an array of pids
that is static; in the small programs, padding that is printed, an end of input that
is not noticed, a room that is asked for too early, a look-up of user and password
on different lines, weights that start at the wrong digit, directories counted, a
`wait` that does not block, an exit that writes nothing.

## 8. Plan

In this order, the most important behaviour first:

1. `JobPool`, `JobTable`, proofs: done.
2. `JobServer`, proofs: done.
3. `LineBuffer`, proofs: done.
4. `ChatServer`, proofs: done.
5. `Pfact`, proofs: done.
6. `Ptree`, proofs: done.
7. `ChatClient`, `PidList`, `Sin`, `CountLarge`, `Validate` and `Forks`, proofs: done.

What is next: an abstract chat, a sequence of messages that everyone reads from where
they joined, as the specification that `ChatServer` implements.

## 9. Not modelled

- Texts, logging and formatting of the replies in `a4`, and the parsing of commands
  (`get_mode`, `pid_to_job` on texts): a command is a value of `Commands`. The one
  reply with a limit is `PidList`.
- `a4/jobs`: the programs run by the server. The server's model has that they
  write and end.
- The job client: its source is not in the repository.
- `a4/jobserver_skeleton.c` and `a4/jobprotocol_sample.h`: starting material that
  no Makefile builds, used as documentation.
- The code after the loop of `a4/jobserver.c`: unreachable, since no handler
  that ends the loop is installed.
- The set-up of sockets (`socket`, `bind`, `listen`, `connect`): a sequence of calls
  each of which ends the program if it fails.
- `t10/readserver.c` prints what each read returns and keeps nothing; the pieces
  that `randclient.c` writes are reads of any size in `LineBuffer`.
- `t08/checkpasswd.c` stops before it does anything: the exercise was not completed.
- `t09` counts reads until an alarm; `t06` writes and reads an array; `t01` to `t04`
  are exercises of a few lines on strings, lists and arithmetic. None of them
  keeps a state that more than one step depends on.
- Lengths that the models do not have: the user's name in the chat client, the text
  of the list in `a3` (which runs over its array for targets of some thousands,
  pfact.c:17), the text of a children file in `a2` (a hazard with its reason in
  `PROJECT.json`).
