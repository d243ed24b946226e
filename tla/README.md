# Formal model of the UART provisioning tools

This directory holds TLA+ models of `src/tools/provision_curve.py` and
`src/tools/update_provision_overlay.py`: TLC configurations that
model-check them on small instances, and TLAPS proofs of their main safety
properties for every value of the constants.

## 1. Inventory

### Components

| Component | Source | State | Operations |
|---|---|---|---|
| ProvisioningSession | `provision_curve.py` `_send_curve_command` (355-445), `_drain_until_ready` (308-326), `_drain_response` (329-352) | port open/closed, clock, current deadline, `attempts`, `ack_seen`, the result of the ready wait, the receive window | open port, ready wait or settle delay, write payload, drain response with deadline extension, decide, prompt, close |
| RetryPolicy | `_send_curve_command` 399-438 | `max_attempts = 2`, `attempts`, `prompt_allowed = sys.stdin.isatty()` | loop head, `attempts < max_attempts` test, `input()` prompt with `[Y/n]` default yes |
| MarkerScanner (MarkerWindow + MarkerScanner) | `_strip_ansi` (301-305), the window lines 320 and 343 | a 512- or 1024-character window of stripped text | append a chunk, strip escape sequences, truncate, substring test |
| SerialTransport | pyserial (not in the repository) | the OS input buffer | `Serial(...)` open (clears input), `read(in_waiting or 1)` with a 0.5 s timeout, `write`, `flush`, `reset_input_buffer`, `SerialException` |
| Device firmware | not under `src/` (modelled from `spec.md`) | booting / ready, an owed ack | boot banner `EVT,APP,READY`, reboot, apply `prov curve`, print `EVT,PROVISION,CURVE25519_UPDATED`, other output |
| KeyStore | `_store_material` (71-92), `_load_latest_material` (95-116), `_interactive_generate` (119-133) | `curve_keys.json`: a JSON list of entries | append an entry (read-modify-write), load the latest entry |
| OverlayUpdater | `update_provision_overlay.py` | the store (read) and the overlay file | select an entry, sanitize hex, replace or append `KEY="value"` lines, write |
| KeyMaterial | `_normalize_hex`, `_hex_key`, `_resolve_arg`, `_material_from_args`, `generate_*`, payload assembly (366-373) | the list of stdin tokens | validate/normalise hex, pop `-` arguments from stdin, build the `prov curve` line |
| GdbFlow | `_emit_gdb_script`, `_wait_for_port`, `_run_gdb_flow` (448-563) | the debugserver process, the script file | write script, start debugserver, poll port 3333, run gdb, terminate/kill |
| CLI | `parse_args`, `main` | arguments | dispatch to GDB mode, or material selection and the session |

### Interaction

`main` picks the key material (arguments, stdin, interactive generation with
a store write, or the latest stored entry) and either emits a GDB script or
runs the session. The session owns the serial port for its lifetime; the
only other actor is the device, which talks to it over the UART. The
overlay updater is a separate program that reads the store the first one
writes. Nothing in the host code runs concurrently within one process; the
concurrency is between the host, the device, and (for the store) separate
runs of the tools.

### What is hard

* Timing: both drain loops check their deadline only after an empty read,
  which first blocks for up to the 0.5 s port timeout; `_drain_response`
  extends its deadline on every chunk with no outer cap.
* Races with the device: it may reboot between its ready banner and the
  write, or answer after the drain gave up; the ack of one attempt can be
  read by the next.
* Retry logic: two separate `attempts < max_attempts` tests, a prompt whose
  empty answer means yes, and an `input()` that can raise `EOFError`.
* Text handling per chunk: escape stripping and UTF-8 decoding are applied
  to each chunk, not to the stream, and a single chunk can exceed the window.
* The key store: a non-atomic read-modify-write that replaces an unreadable
  store with a one-entry list.

### What makes each component correct

* Session: success is reported only for a command the device applied; the
  retry bound; waits end (and do not end early); the reported outcome
  matches what happened.
* MarkerScanner: window never exceeds capacity; detection agrees with the
  whole stream's stripped text, never a false match.
* KeyStore: stored entries are never lost; load returns the latest entry.
* GdbFlow: the debugserver is always terminated.

The hazards, each at its line, are listed in `PROJECT.json`.

## 2. Plan

Status: steps 1 to 6 are done. `GdbFlow` also has proofs, in
`GdbFlowProofs`.

1. **Session**: the session with the retry policy, the serial
   transport and the device. `MC_Session` instantiates it. Proofs in
   `SessionProofs`.
2. **SessionAbstract**: what the session promises (at most `MaxAttempts`
   writes, then one outcome; `acked` only after an application), with
   `Session` shown to implement it through `INSTANCE ... WITH` as a
   `PROPERTY` of a run and by a TLAPS refinement proof.
3. **MarkerScanner**: a byte alphabet small enough for TLC (marker letters,
   ESC, `[`, parameter, final and UTF-8 lead/continuation bytes), the
   per-chunk `decode`/`_strip_ansi`/truncate pipeline against the
   whole-stream reference. RECURSIVE operators are allowed there because no
   theorem is stated about it.
4. **KeyStore**: `_store_material`, `_load_latest_material`
   and the overlay updater, with three tool runs and a crash inside
   `write_text`; properties: the overlay pair is consistent, no stored
   entry is ever lost (violated). Proved in `KeyStoreProofs`.
5. **GdbFlow**: `_run_gdb_flow` and `_wait_for_port` with the debugserver as
   a second process; property: it is terminated on every exit path.
6. Proofs: `AckWaitNotCutShort` (needs `deadline >= ackStart + waitTime`
   and `deadline >= lastData + Grace` in the inductive invariant), the
   refinement of step 2.

## 3. The Session module

### State

| Variable | Code |
|---|---|
| `waitReady`, `noRead`, `interactive`, `cmdFile`, `waitTime` | `--wait-ready`, `--no-read`, `sys.stdin.isatty()`, `--command-file`, `--wait`; chosen in `Init` and fixed |
| `pc` | the point of `_send_curve_command` / the drain loops |
| `now`, `deadline` | `time.monotonic()`, the local `deadline` of the running drain |
| `attempts`, `ackSeen` | the locals of the same names |
| `readyTag`, `outcome` | what `_drain_until_ready` returned; how the session ended (`acked`: no warning; `unconfirmed`: the `--no-read` return; `failed`: the closing warning; `aborted`: an exception) |
| `rx` | the kinds of line buffered in the OS input queue |
| `dev`, `pendingAck`, `applied`, `noise`, `reboots` | the device |
| `faults`, `ackStart`, `lastData` | bound on exceptions; history for `AckWaitNotCutShort` |

### Actions

`Open` (the `with serial.Serial`), `ReadyPoll`/`ReadyBlock`/`ReadyWake`/
`ReadyIdle` (one iteration of `_drain_until_ready`: read of buffered text,
`read(1)` blocking, data arriving during the block, empty read with the
deadline test and back-off), `Settle` (reset and `--send-delay`), `Send`
(loop head, write, fire-and-forget return, start of `_drain_response`),
`AckPoll`/`AckBlock`/`AckWake`/`AckIdle` (the same four for
`_drain_response`, with `ack_seen` and the deadline extension), `Decide`
(break on ack, the `attempts < max_attempts` test, the non-interactive
break, the closing warning), `Prompt` (yes, no, end of input),
`TransportFault` (a `SerialException` from open, read or write). Device:
`DevBoot`, `DevReboot`, `DevAck`, `DevNoise`; `Deliver` is its reaction
to a write.

### Abstractions

* Time is a counter in units of the 50 ms back-off; only the host's
  blocking calls advance it. Text the device prints while the host
  computes is buffered and read at the next read.
* A chunk is the set of kinds of line it carries; a marker is detected in
  the read that completes it. Window truncation and per-chunk stripping are
  left to the MarkerScanner module of the plan.
* Opening the port discards what was buffered before (pyserial's `open`
  resets the input buffer); output while the port is closed is lost.

### Runs (`MC_Session`)

Bounds: back-off 1, grace 4, poll timeout 10 (the code's 50 ms, 200 ms,
500 ms ratios), ready timeout 24, send delay 20, `--wait` in {0, 16},
two attempts, one non-marker line, one reboot, one serial exception, all
16 flag combinations and both initial device states. `--wait` 16 is longer
than the poll timeout so a chunk early in the wait leaves the original
deadline ahead of the extended one; 0 exercises the fire-and-forget path.
One reboot lets the device lose a payload or print a second banner after a
write; one noise line makes a chunk that is not an ack.

* `session_safety` (pass, 2.0 M states):
  `SuccessImpliesApplied` (an `acked` outcome only after the device applied
  a payload); `AckWaitNotCutShort` (a drain returns only
  after `--wait` since the write and 0.2 s since its last chunk);
  `Progress` (each wait ends: the host finishes or waits on the operator);
  `AckNeverDiscarded`, an action property: no host step throws away an ack
  in the input buffer while the session runs, so the late ack of attempt 1
  is still there for the drain of attempt 2. Its mutant resets the input
  buffer before every write, not just before the first.
  Deadlock checking is off because the program terminates (`pc = "done"`);
  `Progress` is what rules out a host stuck before that.
* `ready_wait_bound` (violation): the ready wait ends 8 units (0.4 s)
  after `--ready-timeout` in an idle trace, against section 5 of the
  design; see the finding.
* `failure_message` (violation): the device applies the payload, its ack
  comes after the drain, and the session prints "scalar not reaching
  hardware".
* `eof_prompt` (violation): `AbortedOnlyByTransport`, only a transport
  error aborts a session (design sections 2 and 6: a decision source that
  gives no answer ends the session as FAILED). TLC's trace reaches the
  resend prompt and closes stdin: `input()` raises `EOFError`, and the
  session ends by an exception without the advisory warning.

Every property of the passing run has a seeded fault (PROJECT.json
`mutants`) that TLC detects: any output counted as an ack, the deadline
reset instead of extended, an off-by-one in the resend test, a chunk left
in the buffer, the device output bound dropped, and (for
`ImplementsAbstract`, section 5) a serial exception allowed after the
outcome was reported.

### Fairness

Weak fairness on each host step except `Prompt` and `TransportFault`: the
host is a single thread whose every call blocks for a bounded time, so it
keeps stepping; the operator may never answer `input()`, and exceptions
need not happen. The device gets no fairness.

## 4. The KeyStore module

`KeyStore` models the store `curve_keys.json` and the overlay file shared by
separate runs of the tools. Each run in `Runs` has a `role`: `store` (an
`--interactive` run reaching `_store_material`), `reuse` (`--reuse-stored`,
`_load_latest_material`) or `overlay` (`update_provision_overlay.py` with an
`entryArg` for `--entry`). A stored pair is the model value of the run that
generated it (earlier pairs are `OldEntries`); its scalar and peer are both
named by it, so a mismatched overlay shows as two different values.

* The store is `storeKind` (`absent`, `list`, or `torn`: truncated by an
  unfinished `write_text`) and `storeList`. `StoreRead` is lines 77-89:
  anything but a list reads as `[]`. `write_text` is two steps, `StoreOpen`
  (the truncating open) and `StoreWrite` (the new list); `StoreKilled` is a
  run killed between them (at most `MaxCrashes`).
* `ReuseLoad` is `_load_latest_material`; `OverlayLoad` is `_load_entries`
  with `_select_entry` (`SelectOk` is its range test, `SelectEntry` its
  0-based index); `OverlayRead` reads the overlay, `OverlayWrite` applies
  `ApplySetting` (`_apply_setting`: every `^KEY=.*$` line replaced, else
  appended) for the secret and the peer and writes the result in one step.
* The overlay is a sequence of lines `[key, val]`; the value of a key line
  is the entry it came from.

Runs (`MC_KeyStore`): three runs in every role assignment (reduced by
symmetry over the runs, which is sound since entries are named by runs and
the properties do not single one out), one old entry, the store absent or
holding it, two initial overlays (one without the keys, one with the secret
key twice), `--entry` absent, 0 or 1, one crash.

* `keystore_safety` (pass, 51 k states):
  `OverlayPairConsistent`: after an update every secret line and every peer
  line hold the entry that update selected, however two updaters
  interleave. Its seeded fault is `re.sub` with `count=1`, which leaves the
  duplicate secret line stale.
* `keystore_entries` (violation): `EntriesKept`, a completed store write is
  never lost. TLC finds a run that reads the store while another run's
  `write_text` has truncated it, takes it for empty and writes a one-entry
  list; the same happens after a run is killed mid-write, and when two store
  runs read the same list (lost update).

## 5. SessionAbstract and the refinement

`SessionAbstract` is what `_send_curve_command` promises its caller, with
the link, the waits and the device left out. Its variables are `sent`,
`applied` and `outcome`, and it has two actions:

* `Write`: only while the outcome is `"none"` and `sent < MaxAttempts`. The
  device may or may not apply the write. With `--no-read` the write also
  ends the session as `unconfirmed`.
* `Finish`: sets one outcome, once. `acked` needs `applied >= 1`, and both
  `acked` and `failed` need `sent >= 1`.

`Session` defines `Abs == INSTANCE SessionAbstract WITH sent <- attempts`.
`applied` and `outcome` map to themselves. `ImplementsAbstract ==
Abs!Spec` is a `PROPERTY` of `session_safety`.

Under this mapping each concrete step is one of three things:

* `Send` is a `Write`.
* `Decide` (acked or failed), `Prompt` (no or EOF) and `TransportFault` are
  a `Finish`.
* Every other step, and every device step, is a stutter.

Only safety is refined. The abstract spec has no fairness, because the
concrete session may wait for ever at the operator's prompt.

## 6. The MarkerWindow and MarkerScanner modules

The text path of both drain loops is split in two.

* `MarkerWindow` is the loop: the reads, the window and the test. It
  takes the conversion of one chunk as a constant operator `Convert(_)`.
  Its assumption `MarkerWindowAssumption` says only that `Convert`
  returns text (a sequence of character codes) for every chunk a read
  can return. In the code, `decode` and `_strip_ansi` always return a
  `str`. TLC evaluates the assumption on every chunk of the instance.
* `MarkerScanner` extends `MarkerWindow`. It defines the conversion
  `ChunkText` (decode, then strip), the reference and the two properties
  about it. The cfgs bind `Convert <- ChunkText`.

The parts of the model:

* **A read:** each read takes a chunk of 1..`MaxChunk` bytes of the
  printed stream.
* **Decoding:** the chunk is decoded with `decode(errors="ignore")`. The
  model covers ASCII, and two-byte UTF-8 sequences whose lead byte is in
  0xC2..0xDF. Any other byte, including a lead byte cut off at the end of
  a chunk, is dropped.
* **Stripping:** `_strip_ansi` is applied to the decoded chunk. The
  regex's three character classes are disjoint, so its greedy match is
  the longest run of each (`RunEnd`, `CsiLen`). `re.sub` removes the
  matches from left to right (`StripAnsi`).
* **The window** (`MarkerWindow`): the text is appended to the window,
  the window is cut to its last `Capacity` characters (`LastChars`), and
  the marker test is a substring test (`MarkerIn`).

The reference is the same decoding and stripping applied to the whole
stream at once. `Decode`, `RunEnd` and `StripAnsi` are RECURSIVE
operators. That is allowed because they live in `MarkerScanner`, and no
theorem module reaches that module.

The bounds of `MC_MarkerScanner` are chosen so that every case of the
conversions happens:

* **Bytes:** ESC, `[`, `0`, `m`, the marker letters `A` and `B`, and the
  UTF-8 pair 0xC3 0xA9.
* **Marker and window:** the marker is `AB` and the window holds 3
  characters.
* **Stream and chunks:** the stream has up to 5 bytes, and a read returns
  up to 4 of them.

With these bounds TLC meets every case: a complete escape sequence, an
escape sequence cut between two reads, an escape sequence that never
ends, a multi-byte character cut between two reads, and a chunk longer
than the window. The run reaches 227 k states.

The runs:

* `marker_window` (pass): `WindowIsSuffix`, the window is always exactly
  the last `Capacity` characters of all the stripped text, whatever the
  chunk sizes were.
* `marker_false_match` (violation): `NoFalseMatch`, the design's promise
  that a partial escape sequence never causes a false match. In the
  trace, ESC arrives alone and `[AB` arrives in the next read, so `AB` is
  in the window. The printed text, stripped as a whole, is only `B`.
* `marker_missed` (violation): `MarkerSeenWhenPrinted`. One read returns
  `AB` followed by two more bytes, and the window is cut before the test.
  In the code this needs a chunk with more than 512 - len(marker)
  characters after the marker. At 115200 baud the 50 ms back-off alone
  lets about 576 bytes collect for `read(in_waiting)`.

## 7. The GdbFlow module

`GdbFlow` models `main`'s `--gdb-run` branch, `_run_gdb_flow` and
`_wait_for_port`. `hpc` is the tool's position in the code. Its steps are
`Emit`, `Check`, `Spawn`, the three outcomes of one poll iteration
(`PollConnect`, `PollRefused`, `PollTimeout`), `GdbRun`, and the three
steps of the finally clause: `Finally` (poll and terminate), then
`WaitReturns` or `WaitTimesOut` (kill).

The other actors:

* The debugserver (`ds`) starts listening or exits on its own.
  `stubborn` is a debugserver that ignores SIGTERM. Its behaviour is
  west/OpenOCD's, so `DsListen` and `DsExit` are marked spec_modelled.
* `foreign` is another program already listening on port 3333, in which
  case our debugserver cannot bind.
* `Interrupt` is Ctrl-C. It raises KeyboardInterrupt in the tool: inside
  the try, the finally clause still runs; inside the finally clause, the
  tool ends at once. SIGINT goes to the whole process group, so the
  debugserver may also exit.

Time is a counter that `PollRefused` advances by the 0.2 s sleep. The
bounds are a 4-unit port timeout, a 1-unit sleep and one Ctrl-C.
Fairness is weak fairness on the tool's steps outside gdb only. Every
call the tool makes there returns: the file checks, `Popen`, the connect
with its timeout, the sleep, `poll`, `terminate`, `wait(timeout=5.0)` and
`kill`. `GdbRun` gets no fairness. gdb runs without `-batch`, so an error
in the `-x` script leaves it at its console, waiting for the operator,
like the `input()` of the provisioning session. The debugserver and the
operator get no fairness either.

The runs:

* `gdb_teardown` (pass):
  * `TeardownStopsServer`: on every way out of the tool except a Ctrl-C
    inside the finally clause, the debugserver is no longer running.
    This holds even when it ignores SIGTERM, or started listening or
    exited in between.
  * `EndsUnlessGdbWaits`: every run ends, or stays in gdb for good. No
    step of the tool outside gdb blocks forever; gdb at its console is the
    only way to wait indefinitely.
* `gdb_interrupt` (violation): `DebugserverStopped`, the same property
  with no exception for Ctrl-C. A Ctrl-C during `wait(timeout=5.0)` skips
  the kill, and a debugserver that survived SIGINT keeps port 3333.
* `gdb_foreign_listener` (violation): `GdbUsesOwnServer`.
  `_wait_for_port` accepts the foreign listener, and gdb runs against it.

Mutants: the deadline test of the poll loop dropped, the kill dropped
after `TimeoutExpired`, and `wait()` without a timeout.

## 8. What is proved

`SessionProofs` proves, for every value of the constants satisfying
`ConstantsAssumption`:

* `TypeCorrect`: `Spec => []TypeOK`. This is proved as the base of the
  other proofs, not checked as a run property: no single change to the
  code breaks it, because both the loop head and `Decide` bound attempts;
* `SuccessSound`: `Spec => []SuccessImpliesApplied`;
* `Refinement`: `Spec => ImplementsAbstract`, i.e. `Session` implements
  `SessionAbstract` under `sent <- attempts`;
* `AckWaitSound`: `Spec => []AckWaitNotCutShort`;
* `AckNotDiscarded`: `Spec => AckNeverDiscarded` (an action property).

They rest on the inductive invariant `Inv == TypeOK /\ RetryBound /\
NoAckBeforeApply`. `RetryBound` (defined in `SessionProofs`: the prompt
only while attempts remain, no more applications than writes) is only a
step of the proof; it restates the guards of `Decide` and `Send` and is
not checked as a property of its own. `TypeOK` alone is not inductive (`applied` stays below
`MaxAttempts` only because `applied <= attempts`), and neither is
`SuccessImpliesApplied`: it needs that, before the first application, the
device owes no ack, no ack is buffered and the drain has seen none
(`NoAckBeforeApply`). The step proof has one case per action and, under
it, one step per conjunct of `Inv`; the type invariant is split into flag,
enumeration and number parts because the SMT backend does not prove the
mixed conjunction in time.

`Refinement` needs two more invariants about the control flow, proved
inductive together with `Inv`:

* `OutcomeOnlyAtEnd` (no outcome before `pc = "done"`). This is why every
  step that sets an outcome starts from `"none"`, and why `Send` is a
  legal `Write`.
* `DrainAfterWrite` (at `ack`, `ack_wait`, `decide` and `prompt`,
  `attempts >= 1`). This is why `acked` and `failed` follow a write.

`NoAckBeforeApply` supplies `applied >= 1` for `acked`. The step lemma
`StepRefines` maps `Send` to `Write`, and maps `Decide`, `Prompt` and
`TransportFault` to `Finish` or a stutter. It maps every other action to
a stutter. The theorem combines the step lemma with `Init => Abs!Init` by
PTL.

`AckWaitSound` needs `DrainDeadline`, which holds throughout the drain
(`ack`, `ack_wait` and `decide`). It says that the deadline is at least
`ackStart + waitTime`, and at least `lastData + Grace` once a chunk was
read.

* `Send` sets the deadline to exactly the first bound.
* Each chunk takes `Later` (the `max()` of line 346) of the old deadline
  and `t + Grace`; lemma `AckChunkDeadline`.
* The only exit, `AckIdle`, leaves with `now >= deadline`.

`AckWaitNotCutShort` alone speaks only of `decide`, and so it is not
inductive.

`AckNotDiscarded` rests on `BeforeWrite`: no attempt has been made at
`open`, `ready`, `ready_wait` or `settle`. Only the steps at those
positions clear the buffer or read it away without setting `ack_seen`.
With `RetryBound` (`applied <= attempts`) and `NoAckBeforeApply`, lemma
`NoAckBeforeWrite` shows that no ack is buffered there. Every other host
step leaves the buffer alone, or sets `ack_seen` when it reads an ack.
Device steps only add to the buffer.

`GdbFlowProofs` proves, under `GdbFlowAssumption` (a positive port timeout
and sleep, a natural bound on Ctrl-C presses):

* `GdbTypeCorrect`: `Spec => []TypeOK`;
* `TeardownSound`: `Spec => []TeardownStopsServer`.

The inductive invariant adds `BeforeSpawn`: before `Popen`, there is no
debugserver and the clock is 0.

* Without it, `TeardownStopsServer` is not inductive. The exit through
  the file checks (`Check`) skips the whole teardown, and it is safe only
  because nothing was started yet.
* `TypeOK` bounds the clock by `PortTimeout + RetrySleep` only because the
  deadline was set from a clock at 0.

`MarkerWindowProofs` proves, under `MarkerWindowAssumption`, for every
window size, chunk bound and conversion that returns text:

* `MarkerTypeCorrect`: `Spec => []TypeOK`;
* `WindowSound`: `Spec => []WindowIsSuffix`.

Both rest on `IInv == TypeOK /\ WindowIsSuffix`. Neither conjunct is
inductive alone. The type of the window after a read needs the types of
the window and the text. The suffix property needs `seen` and `window`
to be sequences. The read step uses these lemmas:

* `PrefixInSeqsUpTo`: the chunk is a sequence the assumption covers.
* `LastCharsType`: a cut sequence has at most `Capacity` elements.
* `LastCharsConcat`: cut(cut(s) \o t) = cut(s \o t). This holds because
  the last C elements of `cut(s) \o t` come from `t` and the end of `s`.
  It is proved element by element with `SeqEqual`.

`KeyStoreProofs` proves, under `KeyStoreAssumption` (finitely many runs,
entry names distinct from `None`, initial stores and overlays well formed,
`--entry` an integer or absent):

* `KeyStoreTypeCorrect`: `Spec => []TypeOK`. It is proved as the base of
  the other proof, not checked as a run property: a broken range test in
  `_select_entry` fails TLC's evaluation before it can break the type;
* `OverlayConsistent`: `Spec => []OverlayPairConsistent`.

The inductive invariant adds `RolePc` (only updaters are at the overlay
steps) and `UpdaterDone` (the run that wrote the overlay last has finished,
so its `sel` is frozen). The step proof rests on three lemmas about
`_apply_setting`: it returns an overlay (`ApplyType`), it leaves exactly the
new value on its key (`ApplySame`) and the values of the other keys as they
were (`ApplyOther`); `ApplyBoth` combines them for the two settings of
`OverlayWrite`.

Only model-checked:

* `Progress` and `EndsUnlessGdbWaits`. Liveness is out of the prover's reach.
* What the conversion computes. `Decode`, `RunEnd` and `StripAnsi` are
  RECURSIVE, and tlapm refuses a module that reaches one. Writing them as
  recursive functions would not help: facts about what they return hold
  only by induction over the chunk, and the installed provers cannot
  instantiate the library's induction theorems. So the window theorems
  take "the conversion returns text" as the assumption on `Convert`. TLC
  checks that assumption for `ChunkText` on the instance, and
  `NoFalseMatch` and `MarkerSeenWhenPrinted` are TLC-only.
* The violations.

## 9. Not modelled

`_sanitize_hex` of the overlay updater is still planned. `MarkerScanner`
leaves out UTF-8 sequences of three and four bytes, which the device does
not print, and the echo of each chunk to stdout. `GdbFlow` leaves out
OpenOCD's own child process under west, and what gdb does to the target. Argument parsing, the GDB script text,
key generation and printing are I/O and formatting with no state worth
checking.
