# gr-uwb: specifications, model checking and proofs

`gr-uwb` is a GNU Radio out-of-tree module that receives ultra-wideband radar packets: it finds
packets in a sample stream, cuts windows out of it on a learned schedule, resamples them, and decodes them on a
pool of threads. Two things in it are hard. One is what surrounds the signal processing: pools of sample buffers shared by two threads,
schedules that are learned, lost and replaced while windows cut under them are still in flight, bounded queues,
condition variables, files, and streams that arrive in chunks of any length and sometimes with holes. The other is the signal
processing's bookkeeping: positions that pass through six coordinate systems, filters that are fed in pieces, searches in a window
that may begin anywhere, codes and fallbacks. This directory models both in TLA+, checks them with TLC and proves the central
invariants with TLAPS.

- [1. Inventory](#1-inventory)
- [2. Modules and the code they model](#2-modules-and-the-code-they-model)
- [3. Runs](#3-runs)
- [4. Fairness](#4-fairness)
- [5. Proofs](#5-proofs)
- [6. Disagreements between code and documents](#6-disagreements-between-code-and-documents)
- [7. What is not modelled](#7-what-is-not-modelled)
- [8. Plan](#8-plan)

Run everything in this directory: `tlc -config <run>.cfg <module>.tla` with the modules of section 3,
`tlapm <module>Proofs.tla` for the proofs. `PROJECT.json` maps every definition to the lines it models and lists, for each
property, a mutation of the model that breaks it.

Paths below are relative to `src/gr-uwb/`; `core.h` is
`include/gnuradio/uwb/uwb_scheduled_extractor_core.h`, `tracker.h` is
`include/gnuradio/uwb/uwb_qm35_acquisition_tracker.h`, `detector_core.h` is
`include/gnuradio/uwb/uwb_detector_core.h`, `demod_core.h` is `include/gnuradio/uwb/uwb_demod_core.h`, `resampler_core.h` is
`include/gnuradio/uwb/uwb_rational_resampler_core.h`.

## 1. Inventory

```
                       samples (737.28 MS/s, chunks of any length, holes)
      +-------------------------+-------------------------+
      v                         v                         v
  Detector               Scheduled extractors       Auto scheduled extractor
  (energy gate,          (fixed t0/T; fixed t0/T    (energy -> identity -> t0/T)
   preamble search)       with lock tracking)
      | "packet"               | "packet"                 | "packet"
      |                        v                          v
      +-> [packet writer] <----+                          |
                 :       [window crop] -> [65/48 resampler, PDU]
                 :                        |
        dump (capture.iq, .jsonl)         v
                 :               Realtime demodulator (queue + workers)
                 v                        |  -> demodulation core, per packet
        offline post-processing           | "schedule_feedback" / lock_obs
                                          +--> back to the extractors
```

| component | state it keeps | operations | hard behaviours | what makes it correct |
|---|---|---|---|---|
| **ScheduledWindowCore** (`core.h`) | pool of slots, free list, ready ring, checked-out flags, active window, schedule (t0, T, guards), next index, stream position | configure, reset, set_schedule, update_locked_params, update_guards, pause, resume, process_chunk, note_discontinuity, flush_eos, take_window, release | two threads on the free list; schedule and guards move under a window; chunk boundaries and holes; exhausted pool | each slot has one owner; a window is an unbroken piece of the stream; windows keep their order and no slot is cut twice on one grid; every window is accounted for; the worker's slot is left alone |
| **Acquisition tracker** (`tracker.h`) | lock state, miss counters, identity, origin, epoch and generation | configure, reset, on_lock_obs, note_candidate_emitted, note_discontinuity | late, unlabelled or foreign feedback; counters that run through four states | a schedule is lost only after its miss budget; a label names one schedule; an observation is carried back to the sample it was made at |
| **Automatic scheduled extractor** (`lib/uwb_auto_scheduled_extractor_sc16.cc`) | tracker, energy machine, window core, job queue, verification throttle, pending observations and controls | work, start, stop, feedback and control messages, worker | applies reset, discontinuity and feedback from one snapshot in turn; relabels while the worker publishes; resets cores the worker uses | cores are reset only when drained; windows follow the confirmed schedule; no label crosses a break of the stream; waits end |
| **Scheduled extractor, CF32** (`lib/uwb_scheduled_extractor.cc`) | window core, lock tracker (Searching, Learning, Hold), pending configuration, job queue | work, set_schedule and other setters, pause, resume, reset, lock observations, start, stop, worker | two critical sections per apply; tracker and core each own (t0, T); rebuild of the pool under a busy worker | no call is lost; no update outlives its schedule; a window at the worker is left alone; nobody waits for nobody |
| **Fixed-slot extractor, SC16** (`lib/uwb_scheduled_extractor_sc16.cc`) | slots with an in_use flag, one job queue, next index | work, start, stop, worker | hand-over by a flag; windows that ended before they began, or begin before the stream or before the last one has ended | every window's samples are the ones its labels name; every window is counted |
| **Packet writer** (`lib/uwb_packet_writer.cc`) | ring of packets, two files, counters | start, stop, packet handler, writer thread | full ring; samples buffered and lines flushed when the process dies | every line names samples that are in the file; every packet is counted |
| **Realtime demodulator** (`lib/uwb_realtime_demodulator.cc`) | bounded queue, idle count, counters, workers | start, stop, sample and control messages, drain, drained | one condition variable for two kinds of waiters; stop with a full queue; counters reset one by one | one result per accepted job; drained means flushed; no lost wakeup; the result and the observation name the packet and its first sample |
| **Demodulation core** (`demod_core.h`) | none between packets: a result, and the locals of nine stages | demodulate_one: timing, CFO, SFD, anchor, CIR, NS-SFD, PHR, payload, fallbacks | a seed that is not the first SYNC; weak SYNCs; frames cut off by the window; fallbacks that may overwrite a good decode; bit orders of four codes | the anchor is the frame's first SYNC; a damaged header or payload within the code's power is recovered; a decode that passed is kept |
| **Detector, CF32 and SC16** (`detector_core.h`, `lib/uwb_detector*.cc`) with the **preamble verifier** (`uwb_preamble_verifier_sc16.h`) | energy gate, search/region/capture machine, history ring, region pool, job queue | work, start, stop, worker, search in a region | three states that consume the stream in blocks, inserts and bulk copies; exhausted pool; oversized region; strided coarse scan | a region is the unbroken stream around its trigger; every opening of the gate is accounted for; a frame gives one packet that names its first SYNC |
| **Energy and preamble detector blocks** (`lib/uwb_energy_detector.cc`, `lib/uwb_preamble_detector.cc`) | history | work | calls of any length; a gate and a coarse scan inside one call, fine windows that reach out of it | flags do not depend on how the stream is cut (they do at the ends of a call, section 6) |
| **65/48 resampler core** (`resampler_core.h`) | phase, held sample, history, counts, worker pool (epochs) | process, flush, reset, set_num_workers | split of the stream and of the output; pool's done notification without its mutex | output does not depend on the split; length is ceil(((N-1)*65+T)/48); process returns |
| **65/48 resampler, stream block** (`lib/uwb_rational_resampler_ccf_65_48.cc`) | core, flush flags, absolute positions | forecast, general_work, tags | end of stream against the scheduler; reset at a discontinuity tag | tail emitted once; tags mapped to their samples |
| **65/48 resampler, PDU block** (`lib/uwb_pdu_rational_resampler_ccf_65_48.cc`) | core, scratch, counters | one message handler | rounding of four positions; short guards | pre + capture + post = length; positions name the same instants |
| **PDU window crop** (`uwb_window_crop_core.h`, `lib/uwb_pdu_window_crop.cc`) | geometry, counters | one message handler | clamping at both ends | crop inside the window, its labels name its samples |
| **Dump reader and writer, offline post-processing** (`uwb_scheduled_dump_io.h`, `apps/uwb_offline_postprocess_dump.cc`) | files, a pool of threads | one run of the tool | a dump that was cut off; threads that finish in any order | products in the dump's order, with the labels of their samples |
| **Capture applications** (`apps/x410_*_capture.py`) | flow graph, taps, result rows | capture, stop | stop and crash at any point | nothing disappears uncounted |
| Tone canceller | none | a pure function on one window | floating point | leaves samples in place |
| Defaults, bindings, GRC, benchmarks, tests | - | numbers and glue | - | - |

The components interact by message ports (queued by GNU Radio per block and handled on the
block's own thread, between calls of `work`), by public methods called from application threads, and,
inside a block, by a mutex, a condition variable and a pool shared with that block's worker.
`PROJECT.json` lists the main hazards at the line where each bites, with the properties that would catch it going
wrong, or the reason why none does yet. Smaller ones it leaves out: setters without a lock (`UwbDetector::set_pre_trigger`,
`UwbDetector::set_coarse_stride`, the resampler's `set_num_workers`), the worker's unlocked read of the core's configuration
(`lib/uwb_scheduled_extractor.cc:821`), a track that never locked and comes back from reacquisition as LOCKED (`tracker.h:404`),
`drain()` before `start()` (it waits until the workers exist), and the two effects of the CF32 extractor's single pending area
described in section 6.

## 2. Modules and the code they model

Windows and schedules:

| module | models | state and actions |
|---|---|---|
| `ScheduleGeometry` | `llround`, `window_bounds_for_slot`, `advance_k_to_abs` | operators; positions are integers in units of 1/`Den` sample so that a fractional period keeps its rounding |
| `ScheduledWindowCore` | the window core | one variable per member; one action per method; `process_chunk` is one action per turn of its loop, because `pool_mutex_` lets the worker in between; the worker's release is two actions (slot cleared, handle pushed), as in the code |
| `ScheduleLease` | abstract: what the tracker promises | at most one schedule is held, every version names one thing |
| `Qm35AcquisitionTracker` | the tracker | a record; its methods are operators on it, `on_lock_obs` with all its branches; the specification drives it with every observation |
| `AutoScheduledExtractor` | the automatic extractor, composed with the tracker's operators (`T == INSTANCE`) | one packet slot per `work()`; what `work()` still has to do is a sequence of operations (`todo`), so that the nested calls and the order of the snapshot's reset, discontinuity and observations are the code's; worker and messages interleave between any two |
| `ScheduleLockTracker` | the CF32 extractor's lock tracker | operators on a record: buffer, fit, Hold, outliers |
| `ScheduledExtractor` | the CF32 extractor | critical sections as actions; pending area, both sections of `apply_pending_config`, chunk, sentinel, stop, worker |

Detection:

| module | models | state and actions |
|---|---|---|
| `PreambleSearch` | the correlation, the energy gate's sums, coarse scan, existence gate, fine search and backtracking of `detector_core.h`, `publish_packet` and the SC16 verifier | operators on sequences of small integers; metrics are whole ten-thousandths |
| `UwbDetector` | both packet detectors (they share the machine and the block's structure) | a signal chosen at the start; search, region and capture consume it as the code does, the gate and the search compute their decisions from it; worker and pool as in the code |
| `DetectorBlocks` | the two stream blocks, and the choice of one of the four blocks | one action per call of `work` |

From a window to a dump, and back:

| module | models | state and actions |
|---|---|---|
| `MessagePorts` | external: message queues of GNU Radio | a sequence of messages per receiving block |
| `FixedExtractor` | the fixed-slot extractor | `work` turn by turn; slots, queue and worker |
| `WindowCrop` | `plan_window_crop` and the crop block | one action per message |
| `PduResampler` | the PDU resampler | one action per message; an output sample is which output of which filter run it is |
| `PacketWriter` | the writer | handler, thread and stop as actions; the stream's buffer is a variable |
| `DumpPostprocess` | the offline tool with the dump's reader and writers | reading, a pool of threads, and the writing with one action per turn of its loop |
| `CaptureDump` | the capture application: composes the five above | the ends of a capture: end of stream, stop, crash |

Resampling:

| module | models | state and actions |
|---|---|---|
| `ResamplerGeometry` | lengths and positions of an L/M resampler | operators |
| `ResamplerPool` | the core's worker pool | condition variables as sets of sleepers; the worker's notification outside the mutex is a step of its own |
| `RationalResampler` | the core, composed with its pool | one action per turn of `process` and `flush`; an output is its filter arm and window of positions |
| `UwbRationalResampler` | the stream block, composed with the core | `forecast`, `general_work`, tags, end of stream; the scheduler is external |

Decoding:

| module | models | state and actions |
|---|---|---|
| `HrpCodec` | despreading decision, Viterbi (hard and soft), SECDED, CRC-16, RS(63,55) with Berlekamp-Massey, Chien and Forney | operators on bits, in full |
| `SyncStages` | stages 1 to 5: timing, CFO, SFD, anchor, CIR | operators on a description of the received signal |
| `FrameStages` | stages 6 and 7: NS-SFD, header, payload with its fallbacks | operators on a description of the frame |
| `DemodCore` | `demodulate_one` | one action per stage, with its early returns |
| `DemodMessages` | one message of the realtime demodulator: job, decoding, result, feedback, and the extractor's inverse mapping and identity test | composes `DemodCore` with both ends |
| `WorkPool` | abstract: what a bounded asynchronous pool promises | accept or refuse, finish once, all finished if fair |
| `RealtimeDemodulator` | the demodulator's threads | the wait set of `d_queue_cv_` is a variable (`asleep`): `notify_one` removes any one member, `notify_all` empties it, spurious wakeups are actions; each critical section is a step; `reset_stats` is a step per counter that others can see |

`MC...` modules are small instances (where the constants in the `.cfg` are all there is to one, the run checks the module itself); `...Proofs` are proofs (section 5).

Operators named `Fault...` are faulty variants of a definition, used only to show that a property notices the
fault; no specification refers to them.

Abstractions that matter to a reader of the results:

- **Samples** are their positions in the stream wherever their values do not matter (`ScheduledWindowCore`, `FixedExtractor`,
  `RationalResampler`, the regions of `UwbDetector`). A window, a region or a filter's window is a
  sequence of positions, so a hole, a repetition or a shift is visible.
- **Detection** computes with real samples, small integers on the real axis, and exact arithmetic. Floating point,
  the Q15 template and the SIMD kernels are left out.
- **CF32 extractor**: positions are left to `ScheduledWindowCore`. Which index a new schedule starts from, whether a window begins
  or ends in a chunk, and whether an update comes too late for the next window are choices. The
  least-squares fit is reduced to exact lines: observations on a line fit, others do not. `hold_track_phase_gain`
  is `1 / GainDivisor`. Waits on `d_job_cv_` are guards; its two waiters are never asleep together when it is
  notified once. The emit policy and the verification switch are left out, and so is the `schedule` message's command `observe`
  (section 6).
- **Tracker**: packet positions are members of `Origin`; the numeric classification of a position is a Boolean of the
  observation (its arithmetic is in `DemodMessages`); the period's fit is `ScheduleLockTracker`'s.
- **Automatic extractor**: the meta data other than the labels, the `rx_time` arithmetic, the guards, and the status messages are left
  out; a discontinuity is an input; the region and window cores are reduced to what is ready.
- **Resampler**: 65/48 is 3/2 with seven taps in the runs; the sum over a window is represented by the window and the arm of the filter,
  so two outputs are equal in the model exactly if they are the same sum.
- **Demodulation core**: with the code's own constants (1016 samples, 508 chips per symbol). The received signal is what the matched filters
  answer: where SYNCs stand and how strong they are, which SFD was sent, which symbols of header and payload the channel turned. CIR estimation,
  RAKE weights, CFO arithmetic and clock drift are abstracted; codes are not.
- **Demodulator's threads**: decoding ends in one of three outcomes (success, failure after a timing was found, failure without); which one
  is computed in `DemodMessages`. Decode, count and publish are one step of a worker:
  the counters are atomic and nothing else reads them in between. Malformed packets are in `DemodMessages`; latency histograms, watermark and
  status snapshots touch nothing modelled and are left out. GNU Radio runs start, stop and the handlers of one block one after the other, on
  the block's thread.
- **Files**: a dump is the sequence of samples and the sequence of lines that have reached the disk; quantisation keeps order and number of samples.

## 3. Runs

All bounds are named constants in the `.cfg` or the `MC` module.

| run | module | states | what it asks and shows |
|---|---|---|---|
| `core` | MCScheduledWindowCore | 3.07M | The window core with two slots under holes, guards that change with and without a new generation, updates of (t0, T), pause, resume, reset and configuration while the worker releases: no slot leaks (`HandleOwnership`), windows are unbroken (`WindowContent`), counted (`WindowsAccounted`), in the order of the stream and never twice of one slot of a grid (`WindowsInOrder`), whole while nothing disturbs them (`CalmWindowsWhole`), and the worker's slots are left alone (`WorkerSlotStable`) |
| `core_order` | MCScheduledWindowCore | violation | In the same instance `SlotsStrictlyOrdered` fails: a slot is cut twice after the guards change (section 6) |
| `acquisition` | MCAcquisition | 149k | *The hunt* (143k): 44 signals of up to two frames, spikes and carriers, strong, faint and weak SYNCs, each through one of the four detection blocks and every split into calls of 1, 6 or 13 samples: `RegionWhole`, `CrossingsAccounted`, one PDU per frame that names its first SYNC (`PacketsPublished`), and flags that depend on the stream alone, inside a call where the scan is coarse (`FlagsMatch`). *The track* (6k): two packet positions and nine generations, enough for two losses and a break: miss budgets, labels, `LostOnlyAfterMisses`, and the tracker implements `ScheduleLease` |
| `flags_split` | MCUwbDetector | violation | `EveryPeakFlagged` fails: a SYNC whose fine window does not fit its call is flagged in no call (section 6) |
| `auto` | AutoScheduledExtractor | 477k | Large and small grants, sentinels, a break or reset, a demodulator that answers late or never, one reported miss, a restart, fair threads: `VerifyThrottle`, `DrainedBeforeReset`, `ScheduleFollowsTracker`, `SegmentsNeverMix`, and every wait for the worker ends (`WaitsEnd`) |
| `feedback` | MCFeedback | 0.9M | *The message* (4.7k): one message through the demodulator and back to the extractor: frames cut off or not, seeds at any SYNC, weak SYNCs, every single and many double errors of the header, damaged payloads, each fallback, malformed messages, both rates: `AnchoredAtFrame`, `LateSeedRecovered`, `FrameRecovered`, `FirstDecodeKept`, `SlipRecovered`, and an observation that confirms names the frame's first sample at the extractor's rate, but for the resampler's constant delay of 21 samples (`ConfirmedAtFrame`). *The extractor* (0.9M): four inputs (setters, pause, resume, reset, observations, restarts) at every point of work() and of the worker, pool of 2: `ConfigNotLost`, `StaleLockNeverApplied`, `WaitIsServed`, `HeldWindowIntact` |
| `resample` | MCUwbRationalResampler | 2.99M | Every split of a stream of up to five samples, in and out, one thread or two workers, tags, resets and both ways the upstream ends: every output is the definition's (`OutputsAreUpfirdn`), the pool's batch is complete when it is used (`BatchComplete`), and tags keep their order (`TagsInOrder`) |
| `resample_pool` | MCResamplerPool | violation | `BatchReturns` fails: the pool's last notification can be lost (section 6) |
| `capture` | MCCaptureDump | 761k | A capture from the stream to the post-processed dump, with full queues, a missed, an incomplete and a clamped window, overlapping windows, malformed packets of another publisher, a stop, and a crash at any point: a line of the dump names the samples it was written for (`DumpReadsBack`), a resampled packet the instants of its samples (`ProductsNameWindows`), and no packet disappears uncounted (`NothingLostUncounted`) |
| `demod_pool` | RealtimeDemodulator | 353k | Two workers, queue of two, three packets, a stop and restart, a reset of the counters, a drain command: one result per job, drained means flushed, no stranded job, `DrainReturns`, and the block implements `WorkPool` with its liveness |
| `demod_drain` | RealtimeDemodulator | violation | With `drain()` called from an application thread `AcceptedGetResult` fails (section 6) |
| `phr_secded` | MCDemodCore | violation | `PhrSurvivesOneError` fails (section 6) |

`acquisition` and `feedback` each check two components side by side, a pair that belongs together: the detection blocks find what the
tracker then follows, the demodulator makes the observations that the extractor hears. The two share no state in the models; a
behaviour is one component's from its first step, and the other stays in its initial state. Nothing is shown about the two together, and nothing is lost
of what is shown about each.

Why the bounds are enough to be interesting:

- *Pools of two*: one slot at the worker and one being filled is the smallest pool in which both threads own a slot, and
  a third window or region then finds it exhausted. Slots are interchangeable (symmetry) except in liveness runs.
- *Core*: windows of two or three samples at a period of 4.5; a stream of nine samples spans two of them; a chunk of 3 is
  as long as a window and can span a boundary; two generations allow a reconfiguration while windows of the previous one are with the worker; the
  soft update moves a window by one sample, and a search behind it may come back to a slot.
- *Tracker*: thresholds 3, 2, 4, 2 keep all of them distinct; nine generations allow confirm, miss out through holdover, reacquire, neighbourhood and
  global search, confirm again and break.
- *Automatic extractor*: a queue of two jobs fills; two pending observations overflow; one control, one report and a restart can meet at any step.
- *CF32 extractor*: `MinObservations` = 2 makes four inputs reach Hold with one input to spare for a control call.
- *Detector*: blocks of 2, a gate of two blocks, history 14, capture 20, at most 64 samples per region, in a stream of 96: it holds two frames, a
  frame that begins in another's capture, a spike whose history reaches into the previous capture, and a carrier that outgrows its slot. Grants of 1, 6 and
  13 begin and end a call at every phase of a block, inside and across regions. In `flags_split` the fine window is wider than a step of the coarse
  scan, as by default (16 and 4).
- *Resampler*: 3/2 has all arms and both advances of the phase (by one input and by none); seven taps make windows of three samples, so a history of two crosses calls;
  output grants of 2, 3 and 5 split a tail; batches from two outputs on use the pool.
- *Capture*: one slot at a time, a ring of one packet and a stream buffer of two samples are full all the time; windows of five samples that touch or overlap; the
  other publisher's packets and the stop are placed where they meet a packet in every queue.
- *Demodulator's threads*: three packets with a queue of two and two workers fill the queue, and drop the third if the workers are slow; two
  starts cover stop with jobs queued and a second pool. `Callers` is empty in `demod_pool` and one application
  thread in `demod_drain`: that is the difference between the two runs.
- *Demodulation core*: the constants are the code's; what is small is the number of messages, each of which exercises one stage or fallback.

Deadlock checking is off except in `feedback` and `phr_secded`: sources end, and a stopped block has nothing left to do. (In `feedback` the extractor may be left without
input, a step of its own; that a message is taken to its end is what the check finds.) What must not block is
stated instead (`WaitIsServed`, `WaitsEnd`, `DrainReturns`, `BatchReturns`).

## 4. Fairness

Only the operating system's: a thread that is runnable runs.

- `AutoScheduledExtractor`: the work thread inside its call, and the worker.
- `RealtimeDemodulator`: each worker between its waits, a `drain()` caller that has been woken, and the block's thread inside a call.
  A thread in the wait set is *not* runnable: only a notification or the unforced spurious wakeup lets it out, so a lost wakeup shows.
- `MCResamplerPool`: the caller inside `process` and each worker, with the same rule for sleepers.

Nobody is obliged to deliver samples, post packets, send control messages, or start and stop a block. The other
specifications need no fairness: they check safety only (`WaitIsServed` says that a waiter's worker has a step, which is what a fair scheduler then takes).

## 5. Proofs

For every value of the constants that satisfies the named assumptions of the modules (non-empty finite pools, an invalid handle
that is not a handle, thresholds that are natural numbers, ...), TLAPS checks:

| theorem | module | says |
|---|---|---|
| `SlotsOwnedOnce`, `ActiveHandleValid` | ScheduledWindowCoreProofs | `HandleOwnership`, `CopyHasActive` |
| `CoreTypes` | ScheduledWindowCoreProofs | `TypeOK`, the rounded arithmetic of the schedule included |
| `WindowsWhole`, `EveryWindowCounted`, `HeldWindowsUntouched` | ScheduledWindowCoreProofs | `WindowContent`, `WindowsAccounted`, `WorkerSlotStable` |
| `NoSampleTwice` | ScheduledWindowCoreProofs | `WindowsDisjoint`: two windows of one generation share no sample |
| `CalmWindowsAreWhole` | ScheduledWindowCoreProofs | `CalmWindowsWhole`, if the windows of a schedule do not touch and the first does not begin before the stream (`WindowsApart`, `StartsLate`) |
| `WindowsLeaveInOrder` | ScheduledWindowCoreProofs | `WindowsInOrder`, for all schedules, updates and guards |
| `PathsAgree`, `MissesBudgeted`, `LabelsUnique`, `LossEarned` | Qm35AcquisitionTrackerProofs | `PathMatchesIdentity`, `MissBudget`, `LabelNamesOneSchedule`, `LostOnlyAfterMisses` |
| `TrackerIsALease` | Qm35AcquisitionTrackerProofs | the tracker implements `ScheduleLease` |
| `ThrottleHolds`, `ResetsDrained`, `CutsOnSchedule`, `LabelsStayInSegment` | AutoScheduledExtractorProofs | `VerifyThrottle`, `DrainedBeforeReset`, `ScheduleFollowsTracker`, `SegmentsNeverMix` |
| `TrackerComposes` | AutoScheduledExtractorProofs | the tracker's invariant `Good` holds of the tracker inside the extractor |
| `HeldWindowsSafe`, `ConfigsArrive`, `LocksFresh` | ScheduledExtractorProofs | `HeldWindowIntact`, `ConfigNotLost`, `StaleLockNeverApplied` |
| `JobsOwnedOnce` | ScheduledExtractorProofs | the job queue is bounded, repeats nothing and holds only slots checked out |
| `RegionsWhole`, `CrossingsCounted`, `BlocksRegions` | UwbDetectorProofs | `RegionWhole`, `CrossingsAccounted`, of `UwbDetector` alone and of `DetectorBlocks` |
| `DemodTypes`, `ResultsUnique`, `DrainFlushes`, `StopLeavesNothing` | RealtimeDemodulatorProofs | type correctness, `OneResultPerJob`, `DrainedMeansFlushed`, `StopFlushes` |
| `NoLostWakeup` | RealtimeDemodulatorProofs | `NoStrandedJob` as long as no foreign thread waits in `drain()` |
| `PoolImplemented` | RealtimeDemodulatorProofs | the safety part of `ImplementsPool`: each step is a step of `WorkPool` or a stutter |
| `BatchesComplete` | RationalResamplerProofs | `PoolSpec => []BatchComplete`, any number of workers, any batch |
| `OutputsDefined` | RationalResamplerProofs | `T >= L => (Spec => []OutputsAreUpfirdn)`, any ratio, any split of the stream |
| `BlockOutputs`, `TagsOrdered`, `BlockBatches` | RationalResamplerProofs | `OutputsAreUpfirdn`, `TagsInOrder`, `BatchComplete` of the stream block (`BlockSpec`), with `T >= L` |
| `CaptureInvariant` | CaptureDumpProofs | the invariant of a capture: slots, windows, the messages of each queue, counters, the writer's lines |
| `NothingIsLostUncounted` | CaptureDumpProofs | `NothingLostUncounted` |
| `LinesReadBackAlways`, `DumpAlwaysReadsBack` | CaptureDumpProofs | a line whose samples are in the file names them; `DumpReadsBack`, if no packet is shorter than the stream's buffer (`LongPackets`) |
| `ProductsNameTheirWindows` | CaptureDumpProofs | `ProductsNameWindows`, with `T >= L`, if one counter numbers the packets of a capture (`OthersLabelled`) |

`CopyHasActive`, `TypeOK` of the core and of the demodulator, `WindowsDisjoint`, `PathMatchesIdentity`, `StopFlushes`, and what `JobsOwnedOnce`,
`TrackerComposes`, `CaptureInvariant` and `LinesReadBackAlways` say, hold by these theorems and are in no run.

The arguments:

- *Core.* `HandleOwnership` is not inductive alone: that a handle is pushed only once needs to know that the handle the worker is releasing
  is still checked out, that `active` is valid exactly in `CopyWindow`, and that the ready ring has no repetition (`OwnInv`); each action moves
  one handle from one part of the partition to another. `CoreInv` adds the types of the schedule's numbers (`LlroundKeeps`), that a held slot is what its
  header says, that the slot being copied ends where the stream stands, and that a window delivered lies behind the cursor (`Behind`). Windows of a
  generation are disjoint because a new one takes its samples from the cursor on and the cursor only moves forward (`Onward`), not because the
  schedule is monotone, which a soft update may break. (Each module of proofs begins with the facts about queues it needs: the range after an append or a take,
  concatenation, injective sequences.)
- *Calm windows.* While nothing but the stream has moved the schedule, a waiting core has not passed the start of the window it waits for (`Timely`), and the window being cut is
  whole and over when the window of its index is, wherever a soft update has put that since (`CutWhole`). So the cursor leaves a window before the next one begins, because
  that is a period later and no window is longer than a period (`Apart`, with `LlroundSpaced`: rounding keeps distances of whole samples). The hypotheses are needed: of windows longer than the
  period each cuts the next one short, and a first window moved to sample 0 reaches into the second. The application's windows are some tens of microseconds in periods of
  milliseconds. The `core` run satisfies both.
- *Order.* That windows share no sample is the argument above. That no slot is cut twice needs more: the search for an index (`advance_k_to_abs`) knows the stream's position
  and nothing of what has been cut. `OrderInv` says that as long as it searches on the grid the slots were cut on (`grid`, a history variable), the indices cut lie
  behind `next_k` (`Reached`, `CutNext`), and while that grid has not even been moved the end of each slot cut lies behind the cursor; the search passes whatever has ended
  (`AdvancePasses`, because later slots end later, `EndsMonotone`), so it passes them. A soft update of (t0, T) alone takes nothing away, since it only steps the index; once an index is *searched* on
  the moved grid, or with other guards in the same generation, nothing holds any more: that is what `SlotsStrictlyOrdered` claims and `core_order`
  refutes. `WindowsInOrder` leaves out exactly those behaviours, of its second part only, and the theorem has no hypotheses.
- *CF32 extractor.* `ExtractorInv`: the core record keeps its slots owned once, what the queue and the worker hold is checked out (`InHand`), the last
  configuration asked for is in force or pending (`ConfigKept`), and what the tracker has learned, and the lock
  update that waits to be applied, belong to the configuration in force (`LockFresh`). That nothing touches a held slot is a relation between two cores, `Spares`, that every operation satisfies and
  that composes (`SparesChain`), so that the whole of `apply_pending_config`, up to six operations in a row, satisfies it.
- *Automatic extractor.* `work()` is a script of operations, so the invariant speaks of the rest of the script: whenever `configure` or `reset` is still to come,
  a wait for the idle worker stands before it or has been passed since the last enqueue (`Drained`), and what re-aligns core and tracker is
  on the script as long as they differ (`OnSchedule`). `InSegment` and `Labels` bound every label in the queue, at the worker and in the tracker by the
  generation at the last break. What is known of the tracker comes from `Qm35AcquisitionTrackerProofs` by INSTANCE and is not proved again.
- *Detector.* `DetectorInv`: slots are owned once along queue, worker, ready list and free list; a slot that is filled holds consecutive positions from
  its trigger on, up to where the stream stands; a slot that is finished has its whole capture or was flushed; openings of the gate minus packets published are the
  slots on their way plus the drops. The state machine's methods are functions of its record, so there is one lemma per method, then one per action. What the
  gate decides plays no part: it may open and close at any block.
- *Tracker.* The specification's steps are method calls, so the proof has one lemma per method: applied to a good tracker it gives
  a good tracker (types, path flags, budgets), a lease step, and no undeserved loss. `TrackerInv` adds that every pair in the
  history has a version no greater than the present one, and that the present version belongs to the present holder: without it a
  label could be reused. The refinement and the action property follow from the same lemmas.
- *Demodulator.* `DemodInv` relates the position of every worker to the packet it holds, the idle count to the number of parked workers
  (a cardinality: the lemmas `ParkOne` and `WaitStep` say how it moves), and every accepted packet to queue, worker or result. `DrainFlushes` needs the idle
  count to be exact; `StopLeavesNothing` that a worker leaves only with the queue empty. `WakeInv` adds who may be asleep
  (`SleepInv`) and that the queue is covered by workers awake and the notification owed (`Covered`); the covering fails as
  soon as another kind of waiter can consume the notification, which is the assumption of the theorem and the subject of `demod_drain`.
  `PoolImplemented` reads `WorkPool` off this state and needs `DemodInv` where the abstract pool forbids a step: a job
  accepted when as many are held as the queue and the workers have room for, or finished when it is not held.
- *Resampler pool.* `PoolInv`: `done` is the number of workers that have counted themselves in this epoch (a cardinality), a worker at work has the
  slice of the batch in hand, and an item has been computed as often as its worker has run. That the slices of a batch cover it and do not
  overlap (`SlicesCover`, `SlicesDisjoint`) follows from the bounds of the rounded-up division.
- *Resampler.* `Inv` says, between calls, that `ctr` is the remainder and the position of the held sample (or of the next input) the quotient of
  made * M by L, and that history and held sample are the samples around that position; during a call, that the work buffer is a section of the stream and
  `ctr + L * (Base + post) = M * (made + scheduled)`. `Further` carries this over one output, `ScheduleArms` over a macro block; `WindowIdeal` turns it into
  arm and window; `ExhaustedRest` and `FullRest` are the two ways `process` returns. `LinkInv` ties the pool to the batch in hand, so that the
  pool's invariant gives the results of `run_mt`. The theorem assumes `T >= L`, at least one tap per arm, as the filter of every profile has; the constructor does not ask for it, and with fewer `process` could emit
  outputs beyond the length at which `flush` ends. Termination is not claimed: the finding of `resample_pool` is a liveness failure and does not touch it.
- *Stream block.* Every step that touches the core is a step of the core, but for the end of a call, which gives the outputs away and may reset the
  core (`OutputsTaken`, `ResetKeeps`); so `Inv` holds in the block. For the tags, `MarksInv`: each tag passed on was read before `nread` and lies before `nwritten`,
  so that those of the present call follow all earlier ones; within the call the law is monotone (`MapOffsetMonotone`) and so is the clamp
  (`MarksOfCall`). `nread` stays behind the samples the core has consumed because a reset keeps `origin + taken` (`PositionGrows`).
- *Capture.* The messages of each queue are members of sets that do not depend on the state: the windows the extractor can cut (`WindowPacket`), what the crop makes of
  one, what the resampler makes of that. Whatever is to be said of a queued message is then a lemma about a set, and a step only moves messages. `ExtractorGood` has the types of
  the extractor, one owner per slot, whole windows, and the count of what was scheduled; `ChainGood` the kinds of messages, the counters of crop, resampler and writer
  against what they received and what is queued, and `Written`: the offset is the number of samples written, and each line names a stretch of them. Each action of each block has its lemma. After a crash
  the samples still in the stream's buffer are missing. `LongPackets` says that no packet is shorter than what the buffer may hold; then only the last line can be affected. The
  buffer of a file stream holds some thousand samples, the application's windows and detector regions are tens of thousands. Without it several lines may point past the file.
- *Labels.* `WindowPacket` carries where its window begins, its guards and its prediction; `plan_window_crop` moves them (`PlanFits`), the resampler
  maps them with one rounding (`MapStretch`, `OutLabelsFit`), so that start plus guard is the predicted start before and after. `OwnInv` says that the
  packets, lines and results of a capture are the extractor's of one schedule or another publisher's, through to the files. `ToolInv` says of the tool that its jobs are windows the dump describes,
  that a product is what `process_window` makes of its job or is still with a thread, and that each line written tells the samples at its offset; a turn of the writing loop keeps the earlier
  lines because the file only grows. `Selected` is a recursive function: that it exists up to the last line is shown with the least line up to which it does not. The tool takes the
  prediction of the last result with the line's number, so a detector's packet that bore a window's number would be cropped around that window's prediction. `OthersLabelled` excludes this: in the application
  one counter numbers acquisitions and windows (`lib/uwb_auto_scheduled_extractor_sc16.cc:1014`, `:1087`). It also asks that a packet without a capture mode has its prediction in its window, or is not
  cropped at all, as any sender that predicts where a packet is. The `capture` run's other publisher satisfies all of it.
  Like the run, the theorem takes `T >= L`.

Model-checked only:

- all liveness (`WaitsEnd`, `DrainReturns`, and the fairness part of `ImplementsPool`), which is beyond TLAPS, and `WaitIsServed`, which contains ENABLED;
- `FlagsMatch`, `PacketsPublished`, the demodulation core's properties and `ConfirmedAtFrame`: sums, searches and codes are functions computed by iteration, and what they
  return for every input needs induction over data, which the provers used here cannot do.

The capture's assumptions on its constants are those of the code: the flow graph is the live application's (`WiresAssumption`), guards, periods and grants are
what the extractor's setters accept (`ExtractorAssumption`), and another publisher's packets carry the position of their first sample, and no schedule (`ForeignAssumption`).

## 6. Disagreements between code and documents

Shown by a run (`PROJECT.json`, findings):

1. `demod_drain`: `notify_one` after a push wakes any waiter of `d_queue_cv_`; a thread inside `drain()` may take it and go back to sleep, and the job
   stays queued with all workers asleep (`lib/uwb_realtime_demodulator.cc:608`). The capture application calls `drain()` that way.
2. `resample_pool`: the last worker raises `pool_done_` and notifies without `pool_mu_`, so both can fall between the caller's test and its sleep, and
   `process` never returns (`resampler_core.h:509`).
3. `phr_secded`: the header's syndrome is put together in the other bit order than the table of addresses, so that a single error is miscorrected or reported as
   uncorrectable (`demod_core.h:1813`).
4. `core_order`: `update_guards_keep_generation` searches the next index anew with the other guards (`core.h:317`), and with wider ones finds an index again
   whose window has been cut whole; it is cut a second time, as a partial window of the same generation. A soft update that shifts the grid, followed by a search (a jump of the
   stream, a resume), may do the same. The test of the automatic extractor (`lib/qa_uwb_auto_scheduled_extractor_sc16.cc:1102`) says that emitted slots are strictly ordered.
5. `flags_split`: the comment at `lib/uwb_preamble_detector.cc:301-304` says that a peak whose fine window does not fit is seen by the next call; the next call's outputs begin
   after it, and it is flagged by neither. Coarse peaks are never at the ends of a range either, so that a SYNC at the first output of a call, or just before the last, is missed
   too. A test tolerates missing flags (`lib/qa_uwb_preamble_detector.cc:203`); the header calls the detection identical to the reference. `FlagsMatch` speaks of what lies
   inside a call.

Met while modelling and reproduced by the models, without a run of their own.

Windows and schedules:

- `set_schedule` may begin with a window that has partly gone by; the development plan asks for "the first window that can be
  captured completely".
- A track that never reached LOCKED can come back from REACQUIRE as LOCKED on one good timing (`tracker.h:404`); the test report and the extractor's
  header describe LOCKED as earned by consecutive timings, and the state diagram shows REACQUIRE leading to PROVISIONAL.
- Observations without labels are accepted until the first discontinuity, also after a loss by misses (`tracker.h:242-245`, `:320`).
- The labels of a packet are those of the moment it is published; a packet captured while hunting can leave with the generation of
  the schedule confirmed meanwhile (`lib/uwb_auto_scheduled_extractor_sc16.cc:1018`). `SegmentsNeverMix` says what does hold: no label crosses a break.
- The pause branch of the global search cannot be taken: `global_energy` is not set when the state has only just become REACQUIRE (`lib/uwb_auto_scheduled_extractor_sc16.cc:614-619`).
- With live grants `work()` does wait for the worker when an identity is confirmed (`lib/uwb_auto_scheduled_extractor_sc16.cc:630`); the header (lines 31-32) says it does not.
- The realtime demodulator never posts a miss: misses reach the tracker only from an application. The budgets are checked all the same.
- In Hold the CF32 extractor announces an update as applied that the core's choice to keep the next prediction undoes (`lib/uwb_scheduled_extractor.cc:599`).
- Its `schedule` message with command `observe` takes `d_cfg_mutex_` twice on one thread (`lib/uwb_scheduled_extractor.cc:420`, `:304`) and would block for ever.
- `d_pending_lock_force_t0_` describes the last observation only: a nudge that follows the Hold entry before the next `work()` demotes it.
- Two setters called before the next `work()` each start from the configuration in force, so the first is undone by the second
  (`lib/uwb_scheduled_extractor.cc:185`); `ConfigNotLost` tracks the last call.
- `pause` and `resume` are flags: whichever was called first, pause is applied first.
- A lock observation carries no generation; one cut under an earlier schedule enters the present tracker.
- The fixed-slot extractor labels `pre_guard_samples` with the configured number also when the window was clamped to the beginning of the stream; of windows that
  overlap every second one is incomplete or dropped; a window that was missed is counted as dropped but not as scheduled.

Detection:

- Samples copied in CAPTURE are not pushed on the history ring, so a region that opens soon after has a history with a hole, and its
  `start_abs` is wrong by the hole's length (`detector_core.h:1175`). `RegionWhole` therefore speaks of a region from its trigger on, and
  `PacketsPublished` of signals in which the regions lie apart.
- `flush_region` closes a region in IN_REGION but not one in CAPTURE (`detector_core.h:1059`, against the comment at 1053-1056), and a region flushed at stop can
  give a packet with a frame cut off and a wrong start.
- `start_abs` is clamped to 0 while the history still holds the zeros before the stream.
- The label `window_start` of a packet is where the search began, which with weak SYNCs before it can be earlier than the region
  (`lib/uwb_detector.cc:443-448`, `lib/uwb_detector_sc16.cc:332-338`).
- Backtracking over weak SYNCs stops after its maximum, so a frame with more of them is announced late (`PacketsPublished` bounds them).
- The preamble detector keeps max(template, window x decimation) samples of history but reads template - 1 of them; a partial window can score high without noise.

Resampling and positions:

- The tail of the stream is lost when the last grant exactly fills the output, or when the upstream's done flag is raised after the last call. A done flag that is raised
  between the scheduler's snapshot and `general_work` starts the flush early, and samples that arrive afterwards end in the exception at
  `lib/uwb_rational_resampler_ccf_65_48.cc:328-333`.
- A discontinuity after the whole grant was filtered loses the sample held back; the flush after such a reset emits zeros; `reset()` sets the absolute counters to zero.
- `forecast` leaves out the H - 1 samples of history. The specification document states another rounding of tag positions than the code's.
- The PDU resampler's labels count the filter's group delay once more than the samples have it removed, and the extractors' inverse mapping takes it back once: observations
  are late by the delay of 1353/65, about 21 samples at the native rate, always the same. Header comments call the delay "samples at 998.4 MS/s", the formulas use it at 65 times the
  input rate. `ConfirmedAtFrame` includes the constant.
- A result that failed after its timing still feeds back a preamble start that may be a later SYNC, whole symbols off; the identity test asks for success, timing updates do not.
- The CF32 extractor believes a position at the native rate that comes with a delay; the automatic one refuses it.
- The crop with a predicted start before its window gives no pre-guard and a full capture label (`uwb_window_crop_core.h:86`); the extractors never send that.

Decoding:

- A window too short for its tail falls back to a seed in the middle of the buffer. On early failures `preamble_start_uncropped` is -1 plus the window's start.
  `sfd.expected_start_sample` is never made absolute.
- With the Decawave SFD a train of plain SYNCs scores 0.333 against a threshold of 0.3. `stage_ns_sfd` compares an amplitude, `stage_sfd` a power, with the same threshold.
- `local_best` leaves out the upper end of its range. The chip budget assumes an SFD of eight symbols.
- The fallback decoding of short payloads accepts accidental codewords, and corrections in the zero padding of a shortened block are not rejected: `FirstDecodeKept` and `SlipRecovered`
  say what the order of the attempts guarantees all the same.

Capture:

- The writer flushes each line of the index but the samples only at stop: after a crash the last lines can point past the file, and the post-processing tool then exits with an error. It
  truncates its outputs before it has checked the windows.
- An s16 payload of odd length is counted as received only; failed writes count as written.
- The python taps read a position 0 as -1 (`or -1`).
- `reset_stats` of the demodulator resets its counters one by one, so that for good they can be off by the events in between (`lib/uwb_realtime_demodulator.cc:405`).

## 7. What is not modelled

Components: the tone canceller (floating-point estimation without state; it leaves every sample in its place), the defaults (numbers; the models take them or small values in
their place), Python bindings and GRC descriptions (glue), benchmarks, tests and reference data (read as documentation).

Inside modelled components:

- statistics, watermarks, latency histograms and timing measurements; status messages other than the ones a property reads;
- the packet writer's one file per packet, its second start, and write errors;
- an application with exactly `CaptureDump`'s graph: it has the automatic application's blocks, with the fixed-slot extractor where that one has the automatic extractor,
  which publishes the same kind of packets and is modelled on its own;
- the PDU resampler's `CaptureOnly` policy is modelled and not run; filter design; setters of the worker count during a call;
- the tool's notch and dry run; the capture applications' option parsing, progress reports and identity loop-back, and the radio's settings;
- setters of detection blocks called between two calls of `work`; `UwbDetectorStateMachineT::reset`;
- the CF32 extractor's emit policy, verification switch and command `observe`;
- floating-point representation error (rounding is kept where a position depends on it), Q15 quantisation, SIMD kernels, clock drift within a frame, CIR and CFO arithmetic;
- wrap-around of 64-bit sample counters, file and memory errors.

## 8. Plan

Done: 1. `ScheduledWindowCore` with its proofs; 2. the tracker, `ScheduleLease` and their proofs; 3. the automatic
extractor with its proofs; 4. the realtime demodulator, `WorkPool` and their proofs; 5. the CF32 extractor with its lock tracker, and the proofs of the former; 6. the resampler: pool,
core, stream block, with their proofs; 7. the capture: fixed-slot extractor, crop, PDU resampler, writer, dump and post-processing, with their proofs; 8. detection with its search, with the
proofs about its regions, and the demodulation core with its codes.

Next:

9. The fixed-slot extractor, the writer and the tool's pool as further implementations of `WorkPool`.
10. The writer's one file per packet, a second start, `CaptureOnly`; setters between two calls of `work`.

To keep the whole checkable in minutes, each new run takes the place of properties that by then hold by theorem and of violation runs whose disagreement has been
settled in the code.
