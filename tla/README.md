# A verification of barco

barco (`src/src/barco.c`) starts one command in a container: it reads its
command line, makes a socket pair and a pair of virtual interfaces, clones a
process into new namespaces, sets limits and an identity map for it, waits for
it and cleans up. This directory models that program in TLA+, checks the models
with TLC, and proves their central properties with TLAPS.

Sections 1 and 2 describe the system and its models, 3 what TLC checks, 4 what
is proved, 5 what this has shown about the code, 6 what is left out, 7 the plan.

## 1. The system

### Components

| Component | Source | State it keeps | Operations |
|---|---|---|---|
| launcher | `barco.c` main() | exit code, `veth_created`, `nat_applied`, the two socket numbers, the container's pid | the start-up sequence, `goto cleanup` from a dozen places, the cleanup sequence |
| container set-up | `container.c` | descriptor of its socket, rounds waited | `container_init` (clone), `container_start` (the child), `container_stop` |
| user namespace handshake | `user.c` | the two packets between the processes, the files `setgroups`, `uid_map`, `gid_map` | `user_namespace_init` (child), `user_namespace_prepare_mappings` (launcher) |
| cgroups | `cgroups.c` | the directory `/sys/fs/cgroup/<hostname>`, its control files | `cgroups_init`, `cgroups_free` |
| NAT | `barco.c` 88-150 | three iptables rules of the host | `setup_nat`, `cleanup_nat` |
| netlink | `netlink.c` | sockets; the kernel's interfaces, addresses, routes | `nl_create_veth`, `nl_del_link`, `nl_set_up`, `nl_add_addr`, `nl_add_route`, `nl_move_to_ns`, `nl_rename_link` |
| interface names | `barco.c` 41-51, 235-330 | random suffix, the peer's and the temporary name | generation, truncation, deletion of left-overs |
| mount | `mount.c` | the mount namespace, temporary directories | `mount_set` |
| capabilities, seccomp | `sec.c` | capability sets, filter | `sec_set_caps`, `sec_set_seccomp` |
| command line | `barco.c` 165-235, `argtable3.c` | the copied `argv`, the values and errors of each entry | `arg_parse`, `getopt_long`, the scan and check functions |
| messages | `argtable3.c` | a dynamic string on the heap | `arg_print_errors`, `arg_print_syntax`, `arg_print_glossary`, `arg_dstr_*` |
| log | `lib/log` | | vendored, not modelled |

### How they interact

Two processes run at the same time after `clone()`. They share

* a `SOCK_SEQPACKET` socket pair: the child writes one integer ("I have
  unshared"), the launcher answers with one (0, or -1 when a map could not be
  written). Each process inherits or keeps copies of both ends, so that who
  sees end of file depends on who has closed what;
* the container end of the veth pair: the launcher moves it into the child's
  network namespace while the child polls for it;
* `/proc/<pid>/{setgroups,uid_map,gid_map}` and the cgroup, written by the
  launcher for the child;
* the life of the child: the launcher kills it, waits for it, and takes over
  its status.

Several runs of barco share the host: one cgroup directory (the host name is a
constant, `barco.c:221`), with `--nat` on one subnet the same iptables rules,
with equal or truncated words the same interface names, and with one `--mnt`
the same root file system.

### What is hard

* Any call may fail, on either side, and the failure of one process must
  neither block the other nor let the command through half-isolated.
* Either process may be killed at any point; the launcher installs no handler.
* Cleanup runs from every stage and must undo exactly what was done, after the
  container is gone.
* `sockets[1]` is closed once by `container_init()` and again in cleanup; in
  between its number is used for another descriptor.
* The move of the interface races a poll with a timeout; the kernel's answer
  to a request may be lost after it has been carried out.
* Several launchers interleave on shared names between a check and its use.
* The order of mounts, of capabilities and filter decides what they protect.
* `getopt_long()` moves operands about while it scans with indices into them.
* The messages go through three kinds of buffers, each with its own limit.

### What makes each part correct

* launcher: an honest exit code, nothing left behind, no use of a pid that may
  belong to somebody else, no wait that never ends.
* set-up and handshake: the command runs only when fully isolated; the child
  never waits for a launcher that lives; the launcher never waits for a child
  that is gone.
* cgroups: limits are in place before the command; the directory goes away; a
  directory left by a killed launcher is replaced.
* NAT: additions and deletions balance.
* netlink: a result says what has happened; no socket is left; calls return.
* names: a running container is connected to its own pair.
* mount, capabilities, filter: no way back to the host's files, and nothing
  given back by `execve()`.
* command line: what main() goes on with is what was written.
* messages: all of it is printed, in buffers that are large enough.

## 2. The modules

| Module | Models | Source |
|---|---|---|
| `Kernel` | the operating-system objects the two processes share, faults, kills | external, `container.h` |
| `ContainerStart` | the child: `container_start`, `user_namespace_init` | `container.c` 102-246, `user.c` 21-58 |
| `BarcoMain` | the launcher: `main`, `container_init`, `container_stop`, `cgroups_*`, `user_namespace_prepare_mappings` | `barco.c` 153-520, `container.c` 251-312, `cgroups.c`, `user.c` 67-148 |
| `Barco` | both processes composed; fairness; the properties | |
| `Lifecycle` | abstract: what one run promises | |
| `BarcoLifecycle` | the refinement mapping from `Barco` to `Lifecycle` | |
| `Cgroups` | several launchers in `cgroups_init`/`cgroups_free` on one directory | `cgroups.c` |
| `SharedNat` | several launchers in `setup_nat`/`cleanup_nat` on one subnet | `barco.c` 88-150, 342-371, 466-480 |
| `Netlink` | several processes in the seven `nl_*()` functions | `netlink.c` |
| `Interfaces` | several launchers and the names of their interfaces | `barco.c` 41-51, 235-330, 481-487, `container.c` 134-168 |
| `Isolation` | files, mounts, capabilities and filter of several containers | `mount.c`, `sec.c`, `container.c` 28-80, 108-220 |
| `Options` | the option table that parser and messages read | `barco.c` 170-202, constructors of `argtable3.c` |
| `CommandLine` | `arg_parse` with its `getopt_long`, then main() | `argtable3.c`, `barco.c` 183-260 |
| `Dstr` | the dynamic string, its heap, the `vsnprintf` loop | `argtable3.c` 982-1210 |
| `Messages` | the error functions, syntax and glossary, over `Dstr` | `argtable3.c` |
| `MC*` | values of the constants for TLC | |
| `BarcoProofs` | theorems about `Barco` and its refinement of `Lifecycle` | |
| `CgroupsProofs`, `SharedNatProofs`, `NetlinkProofs`, `InterfacesProofs`, `IsolationProofs`, `CommandLineProofs`, `MessagesProofs` | theorems about these modules | |

### State and code

**`Barco`.** `mpc` and `cpc` name the next call of the launcher and of the
child; each action is one call of the source with the branches that follow it.
In `BarcoMain`, `MustMain` is the pattern `exitcode = 1; goto cleanup`,
`StopAndBail` the one with `container_stop()` before it, `Setting` a call whose
failure is only logged; in `ContainerStart`, `Must` is `goto fail` and `Try` a
logged failure. A failing call is chosen from the constant `Faults`, and
`failed` remembers it. `main0` and `main1` say what is open in the launcher at
the numbers `sockets[0]` and `sockets[1]`. `open()` of the network namespace
takes the lowest free number, which is `sockets[1]` once `container_init()` has
closed it: `main1` is then "ns". `initFd` are the ends open in the child, which
inherits both. The veth pair and the cgroup directory start in states an
earlier run may have left (`stale`) or another run holds (`busy`). Two calls
may fail after having worked, because only the kernel's answer was lost:
`nl_create_veth()` and `nl_move_to_ns()`. `waitpid()` has one reason to fail, no
child to report (ECHILD), which arises only in a process started with SIGCHLD
ignored: it then waits for the end and returns -1. `WaitContainer` takes that
branch (`Bail` with exit code 1) with the child gone and reaped by the kernel, so
cleanup is not entered with a live or unreaped child here either. A gateway that
cannot be cut out of the host's address (`container.c:175-178`) fails the child
like any other call ("gateway").

**`Lifecycle`** says of one container: it is idle, preparing, running or ended;
resources of the host are acquired while it does not run and released when it
has ended; it starts only with the network it needs; without its command it
never ends with 0; the launcher answers with 1 or with its status. The mapping
of `BarcoLifecycle` takes the phase from the child's process, the resources
from the kernel objects and the answer from `exitcode`.

**`Cgroups`** refines the few steps that `BarcoMain` takes for one launcher into
the single system calls, since only several launchers can tell them apart:
files are opened by path, so a write goes to whatever directory has the name by
then. `rmdir()` fails while a process is inside. A launcher is `GiveUp` when a
step before `cgroups_init()` fails, which runs `cgroups_free()` all the same.
Each call of a launcher in `Failing` may fail for other reasons, once per
launcher (`Breaks`): both `mkdir()`, the `rmdir()` between them, the writes, and
the `rmdir()` of `cgroups_free()`, after which the launcher is at "left" instead
of "returned".

**`SharedNat`** counts copies of a rule, because iptables does. `-C` and `-A` are
two steps. The first rule decides the result of `setup_nat()`; the other two are
only logged. `-D` removes one copy. Any of the three may fail for a launcher in
`Failing`, with the rule present too, since iptables is called without `-w` and
gives up when another process holds the lock of the tables: a failed `-C` leads
to a second copy, a failed `-D` is ignored and leaves its copy. `kept` remembers
which launcher could not delete which rule.

**`Netlink`.** A process picks a call, opens a socket, looks the interface up
(`if_nametoindex()`), sends and receives; `wait_for_interface()` is one step
per round. `Effects` is the kernel: what a request does to the interfaces, none
when it is refused. `Answers` says what `recvmsg()` will find: an
acknowledgement only if NLM_F_ACK was set, an error otherwise, or nothing; a
lost answer reads as nothing. Lookup and request are two steps, so that other
processes rename, move and delete in between. Bytes of attributes are left out:
a request is its type, its flag and what it names. An interface carries its
prefix length and, in `asked`, the number of the address that has set it;
`Means` says, without `parse_cidr()`, which length a number stands for.

**`Interfaces`.** A generated name is its word and as many characters of the
suffix as the 15 of an interface name leave; two runs with the same pair of
them use the same name. Deletion of left-overs, creation, move, renaming and
the deletion in cleanup each act on whatever has the name. The suffix is eight
random characters, then seven bytes that `generate_random_suffix()` never
writes ("junk"). A word of nine or more characters leaves nothing of the suffix:
the generated name is then plain text (`cut`), which an interface of the host may
have as well. The three deletions (`DelLink`) may fail without effect for a
launcher in `Failing`, which main() ignores or logs; `failed` remembers which
have. The `created` of the code and the answer that was lost are kept apart.

**`Isolation`.** The ten steps of `mount_set()`, the two of `setup_dns()`, the
ping range, the loop of `sec_set_caps()` and the filter, each of which may fail
or be cut short by a kill. `seen` is what propagates to the host, `outer` and
`inner` the two temporary directories, `root`, `cwd` and `old` what the process
can still reach. The kernel's rules for capabilities at `unshare()` and
`execve()` are external. What `setup_dns()` writes is complete or it is not: the
case of more than 256 characters, where it writes more than its buffer holds
(`container.c:61-69`), is data and left out.

**`CommandLine`.** A token is a sequence of symbols, where a symbol is a
character only where the parser looks at single characters. Each call of
`getopt_internal()` is a step, with `permute_args()`; then the untagged
operands, the checks for mandatory entries, and what main() does with the
result. The environment is one without POSIXLY_CORRECT, with which
`getopt_internal()` would stop at the first operand and move nothing
(`argtable3.c:1717-1730`, `1773-1779`). The reference is `Reading`, which reads
the line once from left to right without moving anything.

**`Dstr`, `Messages`.** A text is a sequence of pieces with the number of
characters kept of each; what a buffer cuts off is missing from that number.
`heap` has the blocks in use with their sizes, and every pointer of the dynamic
string is a variable. A message is the sequence of calls of `arg_dstr_cat()` and
`arg_dstr_catf()` that make it, executed one by one.

## 3. What is checked

Nine passing runs, and three that check one sentence of a comment which the
code contradicts.

| Run | What it shows |
|---|---|
| `launch_safe` | one run of barco, any two of its 41 calls failing, the container killed anywhere: `Confined` (no command without complete isolation), `HeldWhileRunning`, `CleanReturn`, `FreeAfterExit`, `PidStillOurs`, `StaleCloseSafe`, `ExitCodeHonest` |
| `launch_live` | with one failing call and either process killed: `Settles`, `LauncherReturns`, `OrphanSettles`, and `KeepsPromise`: `Barco` implements `Lifecycle` |
| `cgroups_shared` | three launchers on one directory, a call of two of them failing: `NothingLeft` when all have returned and the last `rmdir()` of none has failed, `AloneIsLimited` whatever was left before |
| `nat_shared` | three launchers on one subnet, any iptables command of two of them failing: `NoLeak`, `AloneIsTranslated` |
| `netlink` | a launcher, a rival and a child: `SuccessIsReal` and `FailureIsClean` (what 0 and -1 say), `NoSocketLeft`, `PrefixKept`, `CallReturns` |
| `interfaces` | two launchers, names that differ, coincide, are cut or are those of the host, deletions that fail: `Connected`, `AloneCreates`, `NothingLeft`, `HostLinksStay` |
| `isolation` | two containers on the same, on different or on the host's root: `OldRootGone`, `HostKept`, `LeftOvers`, `OwnResolver`, `DroppedStay`, `FilterInForce` |
| `command_line` | `OperandsLast`, `AcceptedAsWritten`, `ValueExact` against `Reading`; `ParseEnds` |
| `messages` | `HeapSound`, `AllIsPrinted`, `LinesComplete`, `PrintEnds` |
| `hardened` | violated: `sec_set_*` fail with 1, the caller tests for negative |
| `cgroups_success` | violated: 0 is returned although the limits were replaced |
| `link_deleted` | violated: every deletion that works is reported as -1 |

### Bounds

* `Barco`: `MaxFaults` = 2 (safety), 1 (liveness): the second failure is the one
  that hits a recovery. `PollMax` = 2 or 1 rounds instead of 50: the loop's
  decisions depend only on whether the limit is reached and on the interface.
  `Uids` = {0, 1}: inside and outside the mapped range. `ExitCodes` = {0, 3}:
  success and a failure of the command's own. Signals to the container are not
  told apart: the exit code uses only 128 + n. The proofs have none of these
  bounds.
* `Cgroups`, `SharedNat`: three launchers, one to hold, one to race and one to
  be left over. No symmetry is used, as `Failing` and `MayCrash` tell launchers
  apart.
* `Netlink`: one call (`MaxCalls`) of each of three processes, in three worlds
  (no pair, a fresh pair, a pair in use): every call meets every other one at
  every point, and what an earlier call leaves is in the worlds. The prefixes
  are 32 (valid, and not the default), 33 (which the kernel refuses), 256 (which
  wraps in eight bits to /0), and none (24).
* `Interfaces`: two launchers, one with failing calls and one that may be
  killed; words of one, four and twelve characters, "tmp", none; suffixes that
  differ in the first, in the sixth or in no character, that is within, beyond
  or not at all in what a four-letter word leaves. The host has an interface
  with the name of a word, one with that of a `--veth-peer`, and one with the
  name that the twelve-character word generates.
* `Isolation`: two containers; three directories; two capabilities to drop, one
  of them the capability the filter needs.
* `CommandLine`: a complete line with two (or three) more tokens put in at every
  place, and all lines of two tokens. INT_MAX is scaled to 127, 1024 to 4 and
  the 20 error slots to 2, so that numbers around every product's limit and a
  full `struct arg_end` occur. Numbers stay mathematical; the cast to `int` is
  modulo the scaled range.
* `Messages`: the real sizes (200, 16, 199, 20 slots); arguments of every length
  from 0 to 210 and from 380 to 420, where the buffers double, and pairs,
  triples and a full list of errors.

### Fairness

`FairSpec` of `Barco` asks that a process which can take a step eventually does
(`Main`, `Setup`): both are ordinary processes under the host's scheduler. It
also asks that the kernel eventually destroys a network namespace which nobody
uses (`Reclaim`). Nothing is assumed about the user's command, about kills or
about failures: `Settles` therefore ends with a command that runs, and
`LauncherReturns` starts from the container's end. The steps of a blocked
`read()` or `waitpid()` are not enabled, so that fairness cannot hide a
deadlock. `Netlink` has the same for each process inside a call (a process need
not begin one), and a `recvmsg()` with neither answer nor timeout has no step.
`CommandLine` and `Messages` are sequential: weak fairness of their one process.

A state of `Barco`, `Cgroups`, `SharedNat`, `Netlink`, `Interfaces` or
`Isolation` in which nothing is left to do stutters by `Over`, so TLC's own
deadlock check is on. `command_line` and `messages` switch it off: their process
ends. In the crash case of `launch_live`, an orphan at `hs_read` has its kill as
the only way on: `OrphanSettles` says that this is the only call in which it can
be stuck, and why is told in section 5.

## 4. What is proved

All theorems hold for every value of the constants under the named assumptions.
Most say little more than that numbers are numbers; those of `Netlink` and
`Interfaces` say more, and why the code justifies them is told below.

| Module | Theorem | Property |
|---|---|---|
| `BarcoProofs` | `Typed`, `AlwaysConfined`, `FreedAfterExit`, `PidNeverStale` | `TypeOK`, `Confined`, `FreeAfterExit`, `PidStillOurs` |
| | `HonestExitCode`, `SecondCloseSafe` | `ExitCodeHonest`, `StaleCloseSafe` |
| | `ResourcesHeld`, `CleanedUp` | `HeldWhileRunning`, `CleanReturn` |
| | `PromiseKept` | `KeepsPromise`: `Spec => Life!Spec`, the refinement |
| | `NobodyWaitsForNobody` | `NoDeadlock`, the safety half of `Settles` |
| `CgroupsProofs` | `Typed`, `DirectoryGone`, `LonersAreLimited` | `TypeOK`, `NothingLeft`, `AloneIsLimited` |
| `SharedNatProofs` | `RulesBalance`, `LonersAreTranslated` | `NoLeak`, `AloneIsTranslated` |
| `NetlinkProofs` | `SocketsClosed`, `ZeroMeansDone` | `NoSocketLeft`, `SuccessIsReal` |
| | `MinusOneMeansNothing`, `PrefixesAreGiven` | `FailureIsClean`, `PrefixKept` |
| | `CallsGoOn` | that of `CallReturns`: no call goes round in circles |
| `InterfacesProofs` | `NothingIsLeft`, `HostLinksAreKept` | `NothingLeft`, `HostLinksStay` |
| | `CreationSucceeds`, `ContainersAreConnected` | `AloneCreates`, `Connected` |
| `IsolationProofs` | `NoWayBack`, `HostStaysAsItIs`, `OneDirectoryLeft` | `OldRootGone`, `HostKept`, `LeftOvers` |
| | `ResolverIsOwn`, `CapabilitiesStayDropped`, `FilterHolds` | `OwnResolver`, `DroppedStay`, `FilterInForce` |
| `CommandLineProofs` | `Typed`, `OperandsAreLast` | `TypeOK`, `OperandsLast` |
| | `LinesMeanWhatTheySay`, `IdsAreExact` | `AcceptedAsWritten`, `ValueExact` |
| | `DashIsNotPassed`, `OtherLinesGoOn` | those of `ParseEnds`: which lines come to no end, and that all others go forward |
| `MessagesProofs` | `HeapStaysSound`, `EverythingIsPrinted` | `HeapSound`, `AllIsPrinted` |
| | `LinesAreComplete` | `LinesComplete` |
| | `EveryStepIsNearer` | that of `PrintEnds`: every step leaves less to do |

**One run (`Barco`).** Assumed are `FaultAssumption` (`Uids` are naturals,
`MaxFaults` is one) and `ContainerAssumption` (exit codes are bytes, `PollMax`
is a natural). None of the properties is inductive: `Confined` speaks of the
moment the command runs, and holds because of what happened in the other process
long before. The invariant `IInv` follows the argument:

* `TypeInv`: `TypeOK`, and that `cgset` is below the list's length whenever a
  file is written (`WriteInv`), without which the bound of `cgset` is not kept;
* `LifeInv`: which states of the child go with which calls of `main()`. It gives
  `FreeAfterExit` and `PidStillOurs`: main() alone reaps the child, and every way
  into cleanup has reaped it or never made it;
* `HandshakeInv`: the close-on-exec flag is set before the clone; the files are
  written in order; a 0 on the socket implies that all of them are; a child past
  its read has seen that 0;
* `ProgressInv`: what the child has done at each of its calls, and which
  descriptors are left at `execve()`.

`ReturnInv` adds that `main()` returns only from `exit` with the child gone
(`EndInv`), what the exit code is at each call (`CodeInv`), that a child which
ended with 0 has executed the command (`StatusInv`), and that the number of
`sockets[1]` names the namespace only between two neighbouring calls
(`NsFdInv`).

`HoldInv` adds the host: every interface and rule on it is one that cleanup will
delete, or that a reported failure accounts for (`LinkInv`, `RulesInv`); the
attempt at the limits is over before the answer is sent, and the child passes
its read only with the answer (`LimitsInv`); a child past its own interface calls
has the interface under its name (`NetInv`); a living child means that main() is
not in cleanup, also where the launcher was killed (`AliveInv`). With it the step
simulation is short: the calls that make, kill or reap the child are `Enter`,
`End` or no step (`ProcPromise`), those that change the host acquire before the
command runs or release after the end (`HostPromise`), `execve()` is `Start`
because of `NetInv`, and the return is `Return` because of `CodeInv`.

**Launchers that share (`Cgroups`, `SharedNat`).** For any number of them.
`CgroupsProofs` keeps that a directory exists only while some launcher will
still free it, was killed, or could not remove it at the end, and for a launcher
on its own which of its files have been written. `SharedNatProofs` compares the
number of copies of a rule with the cardinality of the set of launchers that owe
its deletion (`Owes`): those that will still delete it, were killed, or whose own
`iptables -D` of it has failed. `KeptInv` is why these stay in the set for good:
a deletion fails only when all rules have been gone through.

**`Netlink`.** For any processes, namespaces and calls: `SocketInv` says at which
steps the socket is open, `AnswerInv` that an answer of success lies in the
socket only if the request of this very call was carried out, and `TypeInv` that
calls are the ones given.

What -1 means needs the interfaces themselves. `LinksInv`: no two of them have
one index, or one name in one namespace. `CallInv`: a call is one that was asked
for, or the deletion that undoes a creation. `Clean` then follows the undoing:
the index it sends is that of the interface by the name it was given (`Aimed`),
for as long as there is one, so that a deletion which was carried out has
removed that end of the pair or found it gone (`Gone`); a call that is not
undone has an acknowledgement waiting once its request was carried out, unless
one of its system calls has failed. All are kept by the steps of every other
process, which is the point: they may rename, move and delete in between.

`NetlinkAssumption` types the calls. `RolesAssumption` is what keeps an index
and its name together: in a namespace where pairs are created nobody renames an
interface, and nobody moves one there. main() creates and moves away
(`barco.c:317`, `:406`), container_start() renames in its own namespace only
(`container.c:148`). `WorldsAssumption` says that the kernel starts with unique
indices and names. `PrefixKept` compares each interface's length with the number
in its own address, not with any that somebody asked for: `PrefixMeant` shows
that the eight bits of `parse_cidr()` agree with `Means` wherever the kernel
accepts the result, and `StepLinks` that no later step separates the two. The
numbers of `atoi()` are naturals: a prefix written with a sign is left out.

**`Interfaces`.** For any number of launchers, any requests, any suffixes.
`PhaseInv` ties the result of the creation and the state of the container to
the call a launcher is at; `MetInv` is what the history `met` is for; `LinkInv`
says whose an interface can be. `EndInv`: as long as a pair is there, it has an
end on the host with the peer's name or one in a container, so that cleanup,
which deletes by that name, removes the pair or leaves it to the end of the
namespace, or its deletion has failed; `NothingLeft` is its last state.
`ClearInv`: a name that has been scrubbed is free until the creation unless a
rival is there or the deletion has failed, since only a launcher that is active
at the same time can make an interface by that name.
`JoinInv`: for a launcher whose names are apart from those of all it has met,
nobody else makes, moves or deletes an interface with one of them, and its two
ends are where its calls have put them. `InterfacesAssumption` says that
launchers are not called like the host, that the names of the host's interfaces
are plain text, which no name with random characters in it looks like, and that a
suffix has 15 characters, as `suffix[16]` has. Names without a suffix are plain
text too: `HostLinksStay` names the two ways in which one of them meets the host's.

**`Isolation`.** For any containers, directories, failures and any list of
capabilities to drop: `MountInv` says what a process can reach at each call,
`CapsInv` which capabilities are gone at each round of the loop, `ResolvInv`
that a `resolv.conf` is empty only while somebody is writing it or has failed
to, and is a container's own from its last write on unless another one has the
same root file system.

**`CommandLine`.** For every command line, any limits and any `strtol()`:
`CommandLineAssumption` says that limits are naturals, that a line is a sequence
of tokens and that `strtol()` finds an integer. What `permute_args()` does is proved
as a lemma of its own, `BlocksExchanged`: the two blocks change places and each
keeps its order. `gcd()` divides both lengths (`GcdDivides`) and is a combination
of them, so that one cycle of the swaps visits exactly the places of one residue
class, and ends where it began; the cycles that start at `cstart` take one class
each (`TurnMoves`), and all of them together are the exchange (`CyclesAre`).

The invariant of the scan has two parts. `ScanInv` is about the window of
operands, `nonopt_start` to `nonopt_end`: it lies before the next token, and its
end equals `optind` only inside a cluster of letters or after a malformed dash,
never at an operand; with `ArgvInv` (argvcopy is a rearrangement of the line),
`ResultInv` (slots and values) and `StageInv` (what is empty when) this is
`TypeOK`. `Ordered` compares the scan with the reading of the line (`Read`, what
POSIX and GNU say a line means, which knows of no permutation): there are
readings of all beginnings of the line (`ReadingRuns`), the tokens before
`optind` are the options of the one read so far with its operands in the window
or behind it, and those from `optind` on have not been moved. A token that ends
the options, or takes the next one as its argument, does so in both.

`Agreed` adds what has been stored. While the line is scanned, `errors` is empty
exactly if the reading so far is faultless (`Fine`: every option once, every
value valid, nothing that is no option), and then each option's slot holds what
was written (`Matches`); "so far" includes the letters of a cluster up to
`place` (`SoFar`). The one exception is a cluster that ends in a dash
(`Endless`): there the scan never leaves the token, and no conclusion is drawn.
Behind the scan, `arg_parse_untagged()` has put one error for each operand before
`optind`, and `arg_parse_check()`, where there is no error yet, one for each
required option without a value (`CheckedAgrees`). A step of the scan keeps this because each way of writing an
option gives it the text that the reading gives it: `LetterSays` for letters,
`LongIs` for long names and their abbreviations, `OptionIs` for both. That
`errors` is cut at `MaxErrors` does no harm, since a list with a slot does not
become empty (`ErrorStays`). For `--uid`, `DividedLimit` says that
`arg_int_scanfn()`'s test, which divides the limit by the suffix, lets pass
exactly the values whose product is an `int`, below zero too, so that the cast
changes nothing (`NumberIsExact`).

**`Messages`.** For any lists of errors, any lengths of their arguments and any
sequence of calls. Lengths and cuts are recursive functions, and the library's
induction theorems cannot be instantiated; `Upwards` and `Recursion` are the two
forms of them that are needed, stated of sets instead of predicates and proved
from the well-foundedness of the intervals. From them follow the lemmas about
texts: a joined text has the characters of both (`LengthOfBoth`), a cut one has
as many as there was room for (`CutIsText`), and one of which fewer have been
kept has not been cut at all (`UncutIsWhole`), which is what `arg_dstr_catf()`
relies on when it compares the answer of `vsnprintf()` with its buffer. The
message is put together from the left, `FlattenSeq` from the right
(`FlattenFirst`).

The invariant has four parts. `StringInv`: the length in `append_used` may be one
append behind but never ahead, so that the cell looked at tells the true length
(`UsedIsLength`). `BlockInv`: which pointer has which block, and that no two have
the same one; a new block is a free one because the heap is finite
(`BlockIsFree`). `CallsInv`: what is left to do is calls that make texts.
`OutInv`: what is printed, what is in the string and what is still to come are
together the whole of it.

`LinesComplete` follows from the last part: once all is printed (`Finished`), it
is a question about the texts that the calls make. Two assumptions stand for
what is outside of them. `MessagesAssumption`: an error has a code that
`arg_parse()` or a `scanfn` of its entry can register (`Codes`). The lists are
not bounded, and their arguments have any length. `WordsAssumption`: every word
of the messages has between 1 and 28 characters; TLC evaluates it, and the
prover cannot, since it knows nothing of the characters in a string. It is all
that depends on the wording: no more than seven words make the syntax of an
option, so that `syntax[200]` cuts nothing but an argument.

* A text is `Plain` when it has no line break. `SaysLine(c, t)`: the calls `c`
  print the plain text `t` and one line break after it. `ErrorSays` shows this of
  every error function, with a `t` that starts with the program and shows the
  argument. Where the argument goes through `syntax[]`, `ValueIsShown` says how
  much of it arrives: all of it, or the buffer is full, and this is what `Shown`
  asks for. The line break is a call of its own and cannot be cut off
  (`CountSays`).
* A printed text is a sequence of blocks, each a plain text and its line break.
  `BlocksOf` gives the offset at which every block begins, `CountOfEnds` the number
  of line breaks before it, and `LinesOf` concludes that the k-th line is the
  k-th plain text. So errors do not run into each other's lines
  (`ErrorLinesHold`).
* The first line of the help is put together by two loops over the table, one
  for the letters and one for the other options, and what is opened by one call
  is closed by another. `Once(t, w, open)` says that the word `w` is in `t` once,
  and whether in brackets; `Closed(t)` that every bracket which `t` opens is
  closed in it. Both survive joining with a closed text that does not have the
  word (`OnceBefore`, `OnceAfter`, `OnceInAll`), and a closed text in brackets is
  closed again (`Bracketed`). `SwitchSays`, `PrintedSays` and `ExplainedSays` give
  them for the parts, `HelpText` for the whole (`HelpLinesHold`).

An argument is one opaque piece: a line break that the user has put into an
argument is not counted as one of the message.

**What ends.** Of the temporal properties the prover can only reach the safety
half: that what is left to do gets less, or that somebody can go on. That a step
which can be taken is taken is fairness, which stays with TLC.

* `NoDeadlock` of `Barco`: when the launcher is blocked in the read of
  `user_namespace_prepare_mappings()` or in `waitpid()` (`MainWaits`), the child
  lives and is not blocked in its own read (`ChildWaits`). It needs `TurnInv`: a
  child that waits has sent its report, which lies in the socket until the
  launcher takes it; a launcher that has taken it answers before it waits for the
  child's end; and the launcher has no copy of `sockets[1]` left once there is a
  child, so that a child's death is seen as end of file. For a launcher that was
  killed the same does not hold: its orphan can wait for ever (section 5).
* `CallsGoOn` of `Netlink`: `StepsLeft` counts the steps of a function that are
  still to come, those of the deletion in `nl_create_veth()` included, and each
  step makes it smaller or is one of at most `PollMax` rounds. No step of one
  process touches the call of another. What remains for TLC is that a process
  in a call can always take a step, but for the deletion that hangs.
* `OtherLinesGoOn` of `CommandLine`: each step leads to a later phase, token or
  symbol. The exception is exact: on a line with a cluster that a dash ends, the
  parser never leaves `arg_parse_tagged()` (`DashIsNotPassed`), and `Reading`
  says which lines these are (`EndlessRead`, `Unended`).
* `EveryStepIsNearer` of `Messages`: documents, calls and rounds of `vsnprintf()`
  get fewer, and there are three rounds at most (`Rounds`): the first may have
  too little room, the second just too little for the NUL.

Only model-checked: everything temporal (`Settles`, `LauncherReturns`,
`OrphanSettles`, `CallReturns`, `ParseEnds`, `PrintEnds`), since liveness under
fairness is out of the prover's reach. Every invariant and every action property
that a run checks is a theorem.

## 5. What the checks have shown about the code

The three violation runs are listed with the lines they contradict under
"findings" in `PROJECT.json`. The models contain, without a run of its own, more
that a reader of the code may want to know.

Launcher and handshake:

* `barco.c:386`: `kill(pid, 0)` also finds a zombie, so the liveness test after
  the clone passes for a container that has already ended (`SignalReaches`).
* `container.c:141`: an interface that appears in the last round of the poll
  counts as a timeout, since only the number of rounds is looked at (`Poll`).
* `user.h:47`: the mapped range has one id, so that a `--uid` other than 0 always
  fails in `user_namespace_init()` (`ChildRange`).
* The second close of `sockets[1]` is harmless only because the one descriptor
  that takes its number (`ns_fd`) is always closed before cleanup. Any
  descriptor opened after the clone and kept would be closed twice.
* An orphan can stay in `user_namespace_init()` for ever: having inherited
  `sockets[0]` it never sees end of file. In a run whose launcher lives the
  launcher's own answer ends the read, which is why the code works.
* `cgroups.c:58` wants the cgroup made before the process enters its cgroup
  namespace, which `clone()` does first; `cgroups.h:47` calls a directory unique
  whose name is a constant.

Shared resources:

* `barco.c:94`: two launchers that check at the same time add the rule twice;
  `barco.c:130`: the first of two containers on a subnet to end deletes the rule
  of the other.
* `barco.c:139`, `:143`, `:149`: a failed `iptables -D` is not noticed, and its
  rule stays; without `-w` a second barco at the tables is enough. In the same
  way a failed `nl_del_link()` leaves the pair (`barco.c:484-486`), or makes the
  creation fail on a left-over name (`barco.c:313-314`).
* A word of nine or more characters leaves no suffix in the peer's name
  (`barco.c:246-248`). An interface of the host may have that name, and
  `barco.c:314` then deletes it, although no `--veth-peer` was given. `--veth
  tmp` makes both names equal, so that the pair can never be created. Bytes 8 to
  14 of the suffix are never written; they show only with an empty word.
* Pairs of killed launchers or lost answers stay until the names recur; and
  `nl_create_veth()`, which undoes by name, leaves the pair when a rival has
  moved that end away.
* `--mnt /` writes the host's `resolv.conf`; every run whose command starts
  leaves its directory `/tmp/barco.XXXXXX`, as does one that fails behind
  `mkdtemp()` in `mount_set()`.

Netlink: `parse_cidr()` keeps the prefix in eight bits (`netlink.c:133`), /256 is
taken for /0 and /280 for /24, while 33 to 255 are left to the kernel to refuse;
a deletion that works waits for the receive timeout, and for ever
if that could not be set.

Capabilities: a comment at `sec.c:259` says that no_new_privs is set, the code
sets its attribute to 0, so that loading the filter rests on CAP_SYS_ADMIN, which
dropping from the bounding set leaves until `execve()`; `sec.c:24` counts 18
capabilities where the list has 20.

Command line and messages:

* `barco --help` alone is refused, because the mandatory options are checked
  first (`barco.c:205` before `:208`); `--version` is accepted and ignored.
* `-v-` makes `arg_parse()` go round for ever.
* `--nat=yes` is invalid, `--ve=1` ambiguous; `-m ""` is accepted with an empty
  path while `--mnt=` is refused; `-u-1` is the id -1; `--veth` without
  `--container-ip` silently means no network.
* The argument of an excess option is cut at 198 characters; every line of the
  glossary needs three rounds of `vsnprintf()`.

## 6. What is not modelled

* Data: addresses, the text of subnets and commands, `detect_host_interface()`,
  the bytes of netlink attributes, the list of filtered system calls (with the
  masked comparison of TIOCSTI at `sec.c:233`), the wording of messages.
* Settings barco inherits: with POSIXLY_CORRECT `getopt_internal()` takes its
  other branch; with SIGCHLD ignored a container's number is free as soon as it
  ends (only the failing `waitpid()` is modelled).
* `setup_dns()` with more than 256 characters of servers; an interface of the
  host whose name happens to look like a random suffix.
* The command's own behaviour, apart from its end.
* `container_wait()` and `mount_pseudo_fs()`, which nobody calls.
* The parts of argtable3 that barco never calls: dates, doubles, files, regular
  expressions, sub-commands, hash tables, `arg_dstr_set()`, the GNU glossary,
  `getopt_long_only()`. Of `arg_dstr_*` only what its output path uses. Failed
  allocations of argtable3, which end the process.
* log (vendored): it writes a line and decides nothing. The unit test, which
  asserts 1 == 1.
* `CommandLine` keeps an error as its kind, and `Messages` enumerates lists of
  errors of its own: the two are not composed.

## 7. Plan

1. Compose `CommandLine` with `Messages`: the errors of a parse as the input of
   its message.
2. A refinement of `BarcoMain`'s `veth` by `Interfaces` with one launcher; an
   abstract specification of one call for `Netlink`.
3. For `Barco` a measure of the whole run, which every step of the launcher, the
   container and the kernel makes smaller: with `NoDeadlock`, only fairness is
   then left of `Settles`, `LauncherReturns` and `OrphanSettles`.
