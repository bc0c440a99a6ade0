# Verification of Code-Library

Code-Library is a collection of C programs and libraries (with two mobile applications in Java and Objective-C). Its
largest program is the PAM module for one-time codes in `google-authenticator/libpam`, and it is the one in which
several processes share state; it is modelled first and proved about. This directory holds the TLA+ modules, the TLC
configurations that check them on small instances, and the TLAPS proofs.

    tlc -config MCPamCounter.cfg MCPamCounter      # one of the runs of PROJECT.json
    tlapm PamLoginProofs.tla                       # the proofs about one-time codes

## The system

| component | state | operations | what is hard |
| --- | --- | --- | --- |
| PAM module, `libpam/pam_google_authenticator.c` | the state file `~/.google_authenticator`, the temporary file `~/.google_authenticator~`, a private copy per login | one login: copy the file, rate limit, up to four attempts with a code, replace the file | any number of logins at once; the copy is old when it is written back; processes are killed; clocks differ |
| setup command, `libpam/google-authenticator.c` | the same two files | parse options, ask, write a new file | replaces the file without looking at it; cleans up the wrong file |
| base32 (`libpam`) | a buffer of bits | encode, decode in place | the result overwrites the text; mistyped characters |
| SHA1, SHA2, HMAC, HOTP (`libpam`, `hotp`, `hmac`) | a context: chaining value, block, lengths | init, update, final, reinit | pieces of any size, padding, length words, contexts that are used again |
| directory watcher, `inotify` | kernel watches and queue, a linked queue of events, a counter | watch, read, queue, handle, end | kernel queue overflows; a signal races with `select()`; the counter has to agree with the kernel |
| TCP proxy, `proxy` | one thread per connection, two sockets and an epoll set each | connect, forward both ways, close | partial sends on non-blocking sockets; errors of calls that are not checked |
| descriptor helpers, `utils` | none | read or write n bytes | partial transfers, `errno` left over from an earlier call |
| rotating log, `log` and buffered log, `c-log-master` | a file, a buffer, a mutex | write, rotate, flush, close | the mutex covers only a part |
| hash tables `sfghash` and `hash`, red-black tree `rbtree`, list `list`, heaps `heap` | linked nodes | insert, find, remove, iterate | long sequences of operations; iteration while removing |
| `kmp`, `acbm`, `java/ACBM.java` | tables built from the patterns | search | shift tables that skip a match |
| `http_chunk` | a decoder that is fed with pieces | feed, take the result | a header split anywhere |
| mobile applications | account data base, counters, screens, update task | add, delete, next code, check for update | callbacks after the screen is gone; a counter that is shown and not saved |
| `cjson`, `timer`, editor and build scripts | – | – | vendored, demonstrations, no program logic |

Components interact in one place only: PAM logins and the setup command share the state file and the temporary file.
Everything else is a library of its own; the logins use base32 and HMAC as pure functions.

What makes the PAM module correct: a scratch code or a counter value lets at most one login in; nothing a login has
recorded is undone by a slower one; a time-based code is used once if the user asked for that; the rate limit holds
for concurrent logins too; a login always ends.

## The modules

**SecretFile** is the state file as a value and what one login does with its copy of it: `rate_limit`,
`check_scratch_codes`, `check_timebased_code` with `invalidate_timebased_code` and `check_time_skew`,
`check_counterbased_code`, `window_size` and `advance_counter`, each an operator that returns the outcome and the new
copy, as the C functions return a code and change the buffer. Computing a code from secret and step is the constant
operator `compute_code`, so nothing depends on SHA1. `FileSize` is the length of the file in bytes, line by line,
because the code compares it.

**PamLogin** is any number of processes that run `google_authenticator()`. `pc` follows the function: `rate`, `loop`
(with the mode of the attempt), `conclude`, and the steps of `write_file_contents()`: `create` (open with O_EXCL),
`stat`, `write`, `rename`. Every system call that another process can observe is a step of its own; what happens in
between, on private data, belongs to the step. `Kill` ends a process anywhere. Waiting for the user is the time that
passes before `TryCode`. Reading the file is one step: it is only ever replaced by `rename()`, so an open descriptor
sees one version. The write to the temporary file sets the modification time that `rename` then gives to the file.
`version`, `seen`, `logins` and `grants` record history and guard nothing.

**OneTimeAccess** is the abstract specification: a code is checked and consumed in one step. PamLogin implements it
(`Atomic`) with the scratch codes and the counter of the file in force, as long as no two versions of the file have
the same size and modification time (`FreshStamps`). That condition is what the code relies on, and
`pam_same_second` shows what happens without it.

**Setup** is the setup command: `ParseOption` takes the options one by one, `Prepare` draws the secret, asks what is
left open and builds the file, and `SetupCreate` to `SetupRename` write it. Options -s, -l, -q, -Q and -h do not reach
the file and are left out. **Account** composes it with PamLogin over the shared variables.

**EventQueue** is `event_queue.c` on a heap of entries (`Queued` is the list as `queue_destroy()` walks it),
**EventFifo** what a queue promises, and **DirWatch** the watcher around it, from `main()` of `inotify_test.c` down to
`handle_event()`. The kernel (`Push`, `Happen`, `Vanish`) is modelled from what the program uses: one watch per item,
a bounded queue, IN_IGNORED when an item is gone, IN_Q_OVERFLOW when events are dropped.

**Proxy** is `proxy.c`: `Accept` for the listening thread, and for each connection thread `Connect`, `EpollWait`, `Recv`,
the turns of the loop of `Send`, and the way out (`Broken`, `EpollFails`, `CloseAll`). Errors that the code passes over
are states of a socket ("bad", "connecting", "failed"). Bytes are their positions in the sender's stream, so that what
arrives can be compared with what was sent. **FullIO** is the four transfer functions of `utils.c`, which differ in
direction and in what they do with `errno`; `errno` starts with any value and is set by failing calls only. **CLog** is
the log writer of `c-log-master`: threads in `_write()`, the mutex, and the stream as a number that counts the calls of
`fopen()`.

**RotatingLog** is `vp_log.c`. A call of `vzlog()` is cut where another thread can get in between: taking the mutex and
testing the size, the two halves of `zlog_rotate()`, unlocking and loading `fp`, `fprintf()`, the store of `fsize +=`,
`fflush()`. Files are numbered in the order of their creation; the disk is the current file and the archive of each
second. `fprintf()` with a stream that is closed is undefined and may crash or lose the record. `raced`, `unopened` and
`clobbered` record what the code does not protect itself against.

**Dechunk** is `dechunk.c` with the loop of `main()` that feeds it: `Receive` takes a piece of any length, and
`SkipHeader`, `SizeLine`, `Copy` and `LookForEnd` are the calls that follow. Bytes are their codes, sizes wrap around at
`SIZE_MOD`, and leaving a buffer is the state "wild". The code takes the announced size to count the line end after the
data ("exclude the terminate"). HTTP does not, and `Answer` is an answer as HTTP has it: the decoder then takes two bytes
off the data of every chunk, and what comes after them for the line end.

**RedBlackTree** is `rbtree.c` with the operations of `myrbtree.c`. The code is written out for both sides; the model
has the side as a parameter. Ways down the tree and walks are recursive functions, and every turn of the loops of
`rb_insert_color()` and `__rb_erase_color()` is a step, so that the order of the tree is checked in between.
**SfgHash** is `sfghash.c`: rows of doubly linked nodes, the cursor that runs one node ahead of an iteration, and
splaying. A node is named by its key, and a pointer to a freed node is the value `Freed`. `map` and `iter` record what
the caller may expect.

**LinkedList** and **HashList** are the two kinds of lists of `mylist.h` on a heap of `next`, `prev` and `pprev`
pointers, every function and every kind of loop; the sequences that the lists stand for are history. The body of a
safe loop may delete the entry it is at. **AddrHash** is `hash.c` with the keys and the hash function of `addr_hash.c`
(where a shift binds tighter than the mask), **Heap** the two heaps that keep the N smallest or largest numbers.

**Kmp**, **AcBm** and **MultiKeyMatch** are the searches. A step is one turn of an inner loop of `kmp.c` and `ac_bm.c`
(a character is compared, the pattern falls back, the tree is entered or moved) and of the outer loop of
`multikeymatch.cpp`; the shift tables of the last two are functions that follow the code that fills them (`BCshift`,
`PairShifts` and `GSshift`, `Spaces`). The tree of AcBm is built character by character (`AddCharacter`, `LabelLast`):
every pattern has its own `case_sen`, as in the code, nodes are shared by patterns that differ in it (`child` says which
node a character leads to), and the shifts are computed with the flag of the first pattern for all.

**Digest** is the buffering of SHA-1 and of the four SHA-2 algorithms: what is kept between the pieces, the padding
and the length words, with their width. A cell stands for a byte; compressing a block is a free function (the sequence
of blocks compressed), so two digests are equal only if the same blocks were compressed. **Hmac** builds on it, with
the contexts that `_reinit()` goes back to. **Hotp** takes any MAC and cuts it down to a code, as `compute_code()`,
`generateCode()` and `generateOTP()` do each in its own way, with the check digit of the last. **Base32** encodes a
secret or refuses its length, lets the user retype it, and decodes it in place, as `get_shared_secret()` does.

**MCPrograms** puts DirWatch, Proxy, FullIO, CLog, RotatingLog and Dechunk side by side, **MCLibrary** the other
thirteen parts; a behaviour is about one of them, and the others keep their initial state.

Definitions named `<operation>_<fault>` are faulty variants of the operation that follows them; the properties are
shown to notice them. Nothing else uses them.

## The runs

| run | question | instance |
| --- | --- | --- |
| `pam_counter` | Are codes single use, and updates kept, when logins overlap and one is killed? | two processes, either of which may be killed, three logins, a counter-based account with a scratch code, two seconds |
| `pam_atomic` | Do logins implement OneTimeAccess, and does each end unless its user does not answer? | two logins, one of which may be killed, under `FreshFairSpec` |
| `pam_totp` | Do DISALLOW_REUSE, RATE_LIMIT and the skew hold over several time steps? | two processes, three logins, three steps of one second, accounts with and without a rate limit and accounts whose owner has entered two codes that run ahead or are behind |
| `pam_skew_reuse` | Is a time-based code accepted once, as FILEFORMAT says? Violated. | two logins with the third code of such an owner |
| `pam_same_second` | Does the comparison of size and time protect scratch codes, as its comment says? Violated. | a scratch code beside a time-based code, three logins in one second |
| `account` | What happens to logins while the account is set up again? | one login, two commands, the first with up to two options |
| `account_minimal_window` | Does -W give a file that can be used? Violated. | the commands alone |
| `programs` | Does the watcher count right, keep the order, free its memory and end when it should; does the proxy forward in order and end with its peers; do the transfer functions move what they say; is a log file that is gone reopened once; does a rotating log keep its records; what does the decoder make of a chunked answer, however it is cut? | watcher: two items, four command lines, kernel queue of four, reads of three, two ordinary events; proxy: one connection with 4 and 2 bytes and a buffer of 3; calls for up to 3 bytes; log: three threads with two records each, a file that is gone twice; rotating log: two threads, three records, a file that is full after one, two seconds, opened twice; decoder: seven answers of up to two chunks, a buffer of 10 bytes |
| `dirwatch_twice` | Does the watcher end when all items are gone, whatever the command line? Violated. | two command lines that name an item twice, and a kernel queue too long to overflow |
| `clog_thread_safe` | Is the log thread-safe, as its README says? Violated. | as `programs` |
| `library` | Do tree, hash tables, lists and heaps hold what was put in, through every sequence of calls; do the searches find every occurrence; does a digest depend on the message only; do three programs make the same code of it; does a secret come back? | seven numbers; four keys, three of which share a row, an empty row between the others, two data values; three entries and two lists; three nodes in four buckets with keys that collide; heaps of four numbers out of four, two insertions; every pattern of up to four letters in every text of six; every pair of case-sensitive patterns of one to three letters, pairs of shorter ones in both cases of letters with each combination of `case_sen`, in texts of five; blocks of 4 and 8 cells, messages of up to 17, pieces of up to 9, keys of up to 9; sixteen MACs, codes of 1, 6 and 8 digits; secrets of up to six bytes, two lengths out of range |
| `sfghash_splay` | Is a key still in the table after it was moved to the front? Violated. | as `library` |

Why the bounds are enough: a lost update needs two logins that overlap and one that follows; a coincidence of stamps
needs one second and, to be avoided, two. The third login of `pam_totp` is the first that can find a code of the list
pruned, and a skew is taught by the third code of a sequence, so that the accounts start with pairs of earlier ones
that differ from it by one on either side or from each other, positive ones and negative ones (the sum of -2, -2 and
-1 is not divisible by three, so the direction of rounding shows). Reads of three events give a queue with a middle
entry; four events fill the kernel queue, the fifth overflows it. A buffer of three bytes is the smallest that `Send`
can lose a byte of; a second buffer follows it, so that a gap in the middle would be seen. Three threads let two find
the file gone together while a third writes. Trees of seven numbers reach every case of both loops (TLC reports that
every disjunct is taken). A row of three keys has a first, a middle and a last node, and so has a list of three
entries. One record fills a log file, so that two threads rotate it in a row, in the same second or not. An answer is
longer than the receive buffer, so that pieces end everywhere in it and a piece may hold two chunks, and there are
chunks of one byte and of two, which the decoder takes for empty or less. The lists of AcBm have capitals, small
letters and mixed flags in either order, so that nodes are shared and overwritten. Patterns of three letters out of
two have all the borders that shift tables distinguish, and a text of twice their length has overlapping occurrences.
A message of 17 cells is longer than two blocks of the larger size and, with 7 bits for a length word, passes the
carry of SHA-1; a key of 9 is longer than every block. In `account` the codes of different secrets coincide, so that
no property rests on codes being different by luck.

Fairness. `LoginEnds` assumes weak fairness of each login's own steps: the operating system runs every process, and
`open(O_EXCL)` on an existing file fails at once, so there is always a step that is enabled. The steps at a prompt
(`AtPrompt`) are left out: there the code waits in `converse()` for a user who may never answer, so `LoginEnds` says
that a login ends or stays at a prompt for ever. Nothing is assumed of `Open`, `Kill` or the clock either.
`EndsAsSaid` assumes weak fairness of the watcher's own steps only; `select()` with an empty queue is not one of them.
`EndWithPeers` and `LogsEnd` assume weak fairness of the steps of each thread, and for the transfer functions that
`write()` to a peer that has closed fails (EPIPE, `WriteToClosed`); no peer, no interrupt and no failure of a call is
assumed to happen, and a blocked `read()` or a mutex that is held is a step that is not enabled. Deadlock is not
checked in these runs: a finite number of logins, the bound on the clock, and a watcher that waits for ever are all
states in which nothing has to happen.

Several properties of a part are conjunctions of named ones, which the proofs and the comments refer to: `Accounted`
(types, `CountExact`, `NoLeak`), `EndsAsSaid` (`EndsWhenGone`, `EndsWhenInterrupted`), `ForwardsInOrder` (types,
`Forwarded`), `MovedOrFailed` (`ReturnsMoved`, `ShortMeansError`), `EndWithPeers` (`EndsWithPeer`, `EndsAtEof`), `LogsEnd`
(`LogEnds`, `ZlogEnds`), `OneStream` (with `ReopenedOnce`), `RedBlack` (`InOrder`, `Balanced`), `HoldsKeys` (`MapsKeys`,
`VisitsAll`), `ListsHold` (`ListsAgree`, `LoopVisits`), `DigestsAndMacs` (`DigestsMessage`, `MacsMessage`).

## What the runs found

* Two saves in the same second with the same size are taken for one: a pending login then puts back a scratch code
  that was used (`pam_same_second`).
* The login that teaches a time skew does not record its step, so its code is good once more although DISALLOW_REUSE
  is set (`pam_skew_reuse`).
* `google-authenticator -t -W` writes `WINDOW_SIZE -1`, which logins reject (`account_minimal_window`).
* A save of the setup command that fails removes the account's file and leaves the temporary one, after which nobody
  can write a file (`LostForGood`, checked in `account`); the same lock follows a login that is killed while it writes
  (`OrphanLocks`).
* The directory watcher never ends if an item was given twice (`dirwatch_twice`).
* A thread of the log may write to a stream that another has closed, once the file has been moved away
  (`clog_thread_safe`); until then it may not (`SafeInPlace`).
* `movetofront()` of the hash table does not change the row, so a node that is "moved to the front" is lost
  (`sfghash_splay`).
* `Send` of the proxy subtracts its running total from what is left on every turn, so after two short sends of one
  buffer it stops early and bytes are missing. `Forwarded` states what remains true: order always, completeness except
  after two short sends.
* `readn_nonblock` looks at `errno` after `read()` has returned 0: if EAGAIN is left over from an earlier call it
  reads the end of the stream again and again. `EndsAtEof` says so: each of the four functions returns when its peer
  has closed, except that one, which stays there (`Spins`) until another error sets `errno`.
* `vzlog()` writes after it has released the mutex: a rotation by another thread closes the stream in between. Two
  rotations in one second give one archive the name of the other. A file that cannot be opened leaves `fp` at NULL
  with `ZLOG_FILE` set. `fsize` starts at 0 when a file that has records is opened again. `KeepsRecords` states what
  holds otherwise.
* `dechunk()` takes two off the size of a chunk for the line end behind the data (line 132), but the size in a chunked
  answer never counts that line end. So a chunk comes out without its last two bytes, what follows it is read at the
  wrong place, and no answer that has data comes out whole. It does not survive a size line or a header that is cut
  either, nor a `realloc()` that moves the buffer while `g_buff_pt` stays, and its search for a line end may read past
  the buffer. `DecodesData` states all of it: what is always right (the beginning of the first chunk), what is right
  with which cuts, and that the whole never is.
* A case-sensitive tree of `ac_bm.c` whose patterns begin with a capital letter has no shifts below it: a search that
  gets there and finds no bad character starts again at the same place for ever. `MovesOn` says that it does so there
  (`Stuck`), and nowhere else.
* `ac_bm.c` has a `case_sen` per pattern, but patterns that differ in it share nodes, and `pattern_list[0]` decides
  how the shifts are computed: in such a list patterns match that should not and others are missed. `FindsAll`
  promises completeness for lists with one `case_sen`, and for the others that a match is right up to the case of
  letters.
* `MatchByte()` of `multikeymatch.cpp` may read in front of the text and report an occurrence that begins there;
  `EndsFound` sets these results apart.
* `generateOTP()` fills a short code up with zeros behind its digits, so 123 becomes 123000. Its check digit does not
  notice a 0 and a 9 that change places, although the comment says that it detects every transposition. `CodesAgree`
  excepts both.
* `sha2.c` keeps the length of a message in one 32-bit word of bits, so digests are right up to 512 MB
  (`DigestsMessage`); `sha1.c` carries into a second word.

## The proofs

Every theorem holds for all values of the constants that satisfy the ASSUMEs of the modules: any number of logins,
threads or connections, any files, codes, streams and sizes, any bounds. TLC evaluates the ASSUMEs, and checks the
properties that the theorems state on small instances.

| module | proves | of |
| --- | --- | --- |
| `PamLoginProofs` | `TypeOK`, `TmpExclusive`, `NoLostUpdate`, `OopsUnreachable`, `SingleUse`, `OnlyConsumed`, `OrphanLocks`, `Atomic`, with lemmas about the checks: types, what they consume and what they leave alone | SecretFile, PamLogin |
| `OneTimeAccessProofs` | the abstract specification keeps its promise | OneTimeAccess |
| `OptionProofs` | `StepSingleUse`, `RateBound`, `SkewAgrees` | PamLogin |
| `AccountProofs` | `OneWriter`, `LostForGood`, `NoStaleSecret`, `WrittenUsable` | Account |
| `ProgramProofs` | `OneStream`, `KeepsRecords`, what holds of c-log while its file stays, `MovedOrFailed`, `ForwardsInOrder`, `SpinsOn` (of `EndsAtEof`) | CLog, RotatingLog, FullIO, Proxy |
| `WatchProofs` | `Accounted`, `NoEarlyEnd`, `InOrder` | EventQueue, DirWatch |
| `ListProofs` | `ListsHold`, `HListsAgree`, `LastInserted`, `HoldsKeys` | LinkedList, HashList, AddrHash, SfgHash |
| `SearchProofs` | `ShiftsExact`, `FindsAll`, `MovesOn`, `EndsFound` | Kmp, AcBm, MultiKeyMatch |

**One-time codes** (`PamLoginProofs`). The lemmas of the first part show that every check keeps the copy a well-formed
file (`CheckSound` and the lemmas it combines), removes a scratch code or advances the counter when it accepts one,
and never the reverse. `SingleUse` alone is not inductive. What carries it is the chain in `IInv`: a login that has
got past `stat` has read the version in force (`NoLostUpdate`, which needs the exclusive temporary file, the recorded
stamps `Current` and `HasRead`, and `FreshStamps`); its copy differs from that version only by consumption
(`Derived`); a one-time code is never accepted without marking the copy for saving (`Marked`); and what let somebody
in is no longer in the file (`Consumed`). `LoginsAreAtomic` shows that `FreshSpec` implements OneTimeAccess, step by
step: every step but a saving one is a stutter or a `Forfeit`, and a `Rename` that lets somebody in is an
`AdmitScratch` or an `AdmitCounter`.

**The options** (`OptionProofs`), on top of `IInv`:

* DISALLOW_REUSE. The list of used steps is pruned, so a step that has let somebody in may be missing from it.
  `StepInv` says that it is then behind the window (`OutOfReach`), and never ahead of it, so that the clock only takes
  it further away; a login that has read the version in force has added one step to the list, namely one of the window
  at some time since that version was written (`StepTaken`).
* RATE_LIMIT. Any number of logins may pass `rate_limit()` with the same copy, and each of them may try a code: the
  codes that are tried have no bound. What bounds the logins that are let in is that each has to save its attempt
  first. `RateInv` says that the list in the file is sorted, counts every grant of the interval (`Counted`), and that
  a login with the version in force has what `rate_limit()` makes of that version (`RateTaken`). `StampAssumption`,
  that the list of an initial file is sorted, holds for every list the code writes.
* TIME_SKEW. `SkewIsLearnt` is about the step that teaches a skew: the mean, truncated towards zero, is within one
  step of each of the three skews, that of the login's own code among them. `SkewInv` carries the two others on to the
  rename: the file that is replaced then still has them on record.

**The account** (`AccountProofs`). The setup command replaces the file without looking at it, so `IInv` does not hold as
it stands: codes come back and logins work on files that are gone. `AccountInv` keeps of it what does hold, and adds
that a file that is lost has left a temporary file behind whose owner has failed. `DrawAssumption` says what the
command can draw: scratch codes and secrets of the types that SecretFile asks for.

**The logs** (`ProgramProofs`). `CLogInv` adds to mutual exclusion that the stream in use is the open one except for the
holder of the mutex (`InUse`) and that, while the file is gone, one reopening less has been done than is due (`Due`),
without which `ReopenedOnce` is not inductive. `RotInv`: the mutex is held by the thread that tests and rotates; while no
rotation has fallen on a writer and no file was refused, `fp` is the stream of the file with the log's name except
between the two halves of a rotation, nobody writes meanwhile, and a writer has loaded that very stream (`StreamInv`).

**Transfers** (`ProgramProofs`). `IOInv` relates `ptr`, `nleft` and the bytes moved. `ProxyInv` follows a byte from the
sender's stream through the buffer (`BufferInv`) to the receiver (`DeliveryInv`): what has arrived, what is pending and
what has been dropped after two short sends make up what was received, in its order. `EndIsReadAgain` is the half of
`EndsAtEof` that is about steps: at the end of the stream with `errno` left over nothing but another error leads out.

**The watcher** (`WatchProofs`). `Queued`, the list as the program walks it, is a recursive function of the memory.
`TheList` shows by a least counterexample that it is the only sequence of entries that the pointers spell out
(`IsList`), and `Enqueued` and `Dequeued` that the operations append to it and take its head. `WatchInv` adds where
the queue and the buffer may be nonempty, that the entry in hand is not in the queue, and that `watched_items` is
never less than `Outstanding`: the watches and the IN_IGNOREDs in the kernel queue, the buffer, the queue and in hand.
The inequality holds whatever is lost and however often an item is given, and with it `NoEarlyEnd`; equality
(`CountExact`) needs distinct items and no loss. `EventsStayInOrder` is the refinement: every step is one of
EventFifo, with `Reports` as its items, or leaves the queue alone.

**The lists** (`ListProofs`), for any number of heads, nodes, keys and records.

* `ListsHold`. `Sound` says that the list of every head that may be used is a circle (`Circle`: `next` and `prev` of
  neighbours agree, all the way round), that no entry is on two lists or twice on one (`Apart`), and that a head which
  has to be initialised has no entries. Each assignment of pointers has its lemma: `Added`, `Deleted`, `Replaced`,
  `HeadReplaced`, `CutOff`, `SplicedIn`; the calls of the interface are put together from these, as in the code
  (`list_move()` deletes and adds). `OneChanged` and `TwoChanged` say that the other circles keep their pointers. An
  empty head that is replaced is a case of its own: `old->prev` has been overwritten by then. For a loop `LInv` adds
  where it is on the circle in its direction (`Turn`, `LoopAt`) and that the entries seen and the ones from there on
  make up those it began with; a safe loop has read its next spot before the body takes the entry away.
* `HListsAgree`. `HInv` says the same of lists that end in NULL: `pprev` is the spot in front, and the two calls that
  put a node in (`PutIn`) or take it out (`TakenOut`) shift the spots behind.
* `LastInserted`. A row of the table holds the records of each key in the order of insertion, latest first (`Tracks`:
  the positions of a key in its row are ascending and their records are those kept for it), every node is in the row
  of its key, and an iteration has visited what is in front of its cursor (`UpTo`).
* `HoldsKeys`. `SfgInv` explains the pointers of `sfghash.c` by the ages of the nodes: the head of a row is its
  youngest node, `next` leads to the next older and `prev` to the next younger one of the row (`Headed`, `Forward`,
  `Backward`). That the walk along a row is defined at all, and comes to the nodes of that row, follows by least
  counterexamples (`ChainDefined`, `ChainIs`). What an iteration has not returned is what is at and behind its cursor
  (`Pending`), so the node that is removed, having been returned, is never the one at the cursor. The invariant ends
  where `movetofront()` moves a node, and the run about `SplayKeeps` shows why.

**The searches** (`SearchProofs`), for any patterns and texts.

* `ShiftsExact`. What the function `next[]` holds for an index is the longest border (`LongestKept`), and the fallback
  of the loop takes away no candidate (`GoesOn`).
* `FindsAll` and `MovesOn`, for every list of patterns. `AcInv` follows the tree while it is built (`TreeOK`,
  `BuildPath`: nodes are the patterns up to the case of letters) and the search through it (`OnPath`); in a list with
  one `case_sen` the nodes are the prefixes of the patterns (`OneFlagTree`), the shift at a state is no longer than
  the distance to the next place where a pattern can occur (`ShiftsSet` and `ShiftSafe`), and everything in front of
  the window has been reported (`Passed`, `Returned`). `ShiftMoves` says when a shift is positive: unless the search
  is `Stuck`.
* `EndsFound`. `MkInv`: every occurrence that ends before the current position is among the results, because a step is
  bounded by the least space of the pair of bytes at its end (`SpaceBounds`).

Only model-checked: the liveness properties (the prover has no fairness). `DecodesData`: the decoder's result is a
fold over the pieces of an answer, and comparing it with the answer takes induction over data. `RedBlack`: black heights
and ways down the tree are recursive functions of the pointers that branch. `KeepsExtremes`,
`DigestsAndMacs`, `CodesAgree` and `SecretComesBack` compare a result with a definition over all inputs (a sorted
sequence, a padded message, the digits of a number, regrouped bits), which again is induction over data; some of these
modules declare RECURSIVE operators, which the prover does not support. The violated properties are shown by TLC's
counterexamples.

## Not modelled

The rounds of the cryptographic digests; memory exhaustion other than in `dechunk()`; changing and restoring the user
id (its failure is `OpenFails`); the wording of prompts and logs; vendored code (cJSON) and the generated table of
primes; `main()` of the demonstrations, the PAM demo and its unit test, the timers, editor and build files.
`ignore_wd()` of the watcher has no caller; neither have `rb_replace_node()`, `sfghash_findfirst1()`,
`sfghash_findnext1()` and `acbmback_init()`, for whose tree there is no search. `java/ACBM.java` and the mobile
applications in Java and Objective-C rest on their platforms. A hash table is not followed beyond the point where
`movetofront()` has broken a row, a log not beyond a crash. `zlog_close()` frees the mutex, so the model calls it only
while no thread logs.

## Plan

1. Done: SecretFile, PamLogin, OneTimeAccess and their proofs; Setup and Account; EventQueue and DirWatch.
2. Done: FullIO, Proxy and CLog with its proofs; RedBlackTree and SfgHash.
3. Done: RotatingLog and Dechunk; LinkedList, HashList, AddrHash and Heap; Kmp, AcBm and MultiKeyMatch; Digest, Hmac,
   Hotp and Base32.
4. Done: the proofs about the options, the account, both logs, the transfers and the watcher.
5. Done: the proofs about the lists, both hash tables and the searches.
6. Open: the order of the red-black tree; the account data base and the update task of the mobile applications, with
   their platforms as external parts.
