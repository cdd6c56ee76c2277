-------------------------- MODULE DumpPostprocess --------------------------
(***************************************************************************)
(* apps/uwb_offline_postprocess_dump.cc, with the readers and writers of   *)
(* uwb_scheduled_dump_io.h: it reads the lines of a dump and the windows   *)
(* they name, crops and resamples them on a pool of threads, and writes    *)
(* them in the order of the lines.  The notch before the resampler leaves  *)
(* every sample in its place and is left out.                              *)
(***************************************************************************)
EXTENDS WindowCrop, PduResampler

CONSTANTS
  Options       \* command lines: [select, emit, workers]

ASSUME OptionsAssumption ==
  \A o \in Options : /\ o.select \in {"all", "fcs_pass", "scheduled"}
                     /\ o.emit \in {"full", "qm35"} /\ o.workers \in Nat \ {0}

VARIABLES
  disk,         \* the files: iq, lines and, of the application, results
  tool,         \* where the program is, its options and its exit code
  todo,         \* jobs
  next,         \* the atomic counter
  pool,         \* the threads: where each is, and its job
  products,     \* products, by job
  outIq, outLines,  \* what it writes
  outOff            \* out_off

toolVars == <<tool, todo, next, pool, products, outIq, outLines, outOff>>

NoOptions == [select |-> "all", emit |-> "full", workers |-> 1]

ToolInit ==
  /\ tool = [at |-> "off", opt |-> NoOptions, code |-> 0]
  /\ todo = <<>> /\ next = 1 /\ pool = <<>> /\ products = <<>>
  /\ outIq = <<>> /\ outLines = <<>> /\ outOff = 0

-----------------------------------------------------------------------------
(* The files.                                                              *)

\* parse_dump_jsonl_line
Parsed(line) ==
  LET start == Get(line, "window_start_sample", -1)
  IN [packet_id |-> Get(line, "packet_id", -1),
      schedule_index |-> Get(line, "schedule_index", -1),
      n |-> Get(line, "sample_count", 0),
      offset |-> Get(line, "file_offset_samples", 0),
      ws |-> IF start < 0 THEN Get(line, "start_sample", -1) ELSE start,
      predicted |-> Get(line, "predicted_start_sample", -1),
      pre |-> Get(line, "pre_guard_samples", -1),
      cap |-> Get(line, "capture_samples", -1),
      post |-> Get(line, "post_guard_samples", -1),
      mode |-> Get(line, "capture_mode", "")]

\* load_capture_jsonl: a line without samples is passed over.
HasSamples(w) == w.n > 0
Windows == {i \in DOMAIN disk.lines : HasSamples(Parsed(disk.lines[i]))}

\* read_sc16_window: FALSE when the file ends first
Readable(w) == w.offset + w.n <= Len(disk.iq)
Read(w) == SubSeq(disk.iq, w.offset + 1, w.offset + w.n)

\* demod_by_id: the last result of a packet
ResultsOf(id) == {i \in DOMAIN disk.results : disk.results[i].packet_id = id}
NoResult == [packet_id |-> -1, fcs_pass |-> FALSE, native_predicted |-> -1]
ResultFor(id) == IF ResultsOf(id) = {} THEN NoResult
                 ELSE disk.results[Max(ResultsOf(id))]

want_window(w, o) ==
  CASE o.select = "all" -> TRUE
    [] o.select = "scheduled" -> w.mode \in {"scheduled", "provisional"}
    [] o.select = "fcs_pass" -> ResultFor(w.packet_id).fcs_pass
\* The windows wanted, in the order of their lines
Selected(o) ==
  LET upTo[i \in 0..Len(disk.lines)] ==
        IF i = 0 THEN <<>>
        ELSE IF i \in Windows /\ want_window(Parsed(disk.lines[i]), o)
               THEN Append(upTo[i - 1], Parsed(disk.lines[i]))
               ELSE upTo[i - 1]
  IN upTo[Len(disk.lines)]

-----------------------------------------------------------------------------
(* process_window                                                          *)

Failed == [error |-> TRUE]
Product(w, predicted, iq, ws, pre, cap, post) ==
  [error |-> FALSE, packet_id |-> w.packet_id, mode |-> w.mode, ws |-> ws,
   predicted |-> predicted, pre |-> pre, cap |-> cap, post |-> post,
   native |-> Len(iq), rs |-> resample_oneshot(iq)]

FaultUncropped(w, predicted, raw, p) ==
  Product(w, predicted, SubSeq(raw, p.in_offset + 1, p.in_offset + p.out_count),
          w.ws, p.pre, p.capture, p.post)
CroppedProduct(w, predicted, raw, p) ==
  Product(w, predicted, SubSeq(raw, p.in_offset + 1, p.in_offset + p.out_count),
          p.window_start, p.pre, p.capture, p.post)

Predicted(w) == LET d == ResultFor(w.packet_id)
                IN IF d.native_predicted >= 0 THEN d.native_predicted ELSE w.predicted

process_window(w, o) ==
  LET predicted == Predicted(w)
      p == plan_window_crop(w.ws, w.n, predicted, Geometry, w.mode = "acquisition")
      whole == Product(w, predicted, Read(w), w.ws, w.pre, w.cap, w.post)
  IN IF o.emit = "full" THEN whole
     ELSE IF predicted < 0 \/ p.empty THEN Failed
     ELSE IF p.passthrough THEN whole
     ELSE CroppedProduct(w, predicted, Read(w), p)

-----------------------------------------------------------------------------
(* main                                                                    *)

Exit(o, code) == /\ tool' = [at |-> "exit", opt |-> o, code |-> code]
                 /\ UNCHANGED <<todo, pool, products>>

\* Everything up to the pool: the outputs have been emptied by then.
Load(o) ==
  LET jobs == Selected(o)
      refused == Windows = {} \/ (o.select = "fcs_pass" /\ disk.results = <<>>)
      workers == Least(o.workers, Most(Len(jobs), 1))
  IN IF refused THEN Exit(o, 1)
     ELSE IF \E i \in DOMAIN jobs : ~Readable(jobs[i]) THEN Exit(o, 2)
     ELSE /\ tool' = [at |-> "compute", opt |-> o, code |-> 0]
          /\ todo' = jobs
          /\ products' = [i \in DOMAIN jobs |-> Failed]
          /\ pool' = [t \in 1..workers |-> [at |-> "claim", job |-> 0]]

postprocess ==
  /\ tool.at = "off"
  /\ \E o \in Options : Load(o)
  /\ UNCHANGED <<next, outIq, outLines, outOff>>

claim(t) ==
  /\ tool.at = "compute" /\ pool[t].at = "claim"
  /\ next' = next + 1
  /\ pool' = [pool EXCEPT ![t] =
                IF next > Len(todo) THEN [at |-> "done", job |-> 0]
                                    ELSE [at |-> "process", job |-> next]]
  /\ UNCHANGED <<tool, todo, products, outIq, outLines, outOff>>

\* A thread that meets an error takes no further job.
process(t) ==
  /\ tool.at = "compute" /\ pool[t].at = "process"
  /\ LET product == process_window(todo[pool[t].job], tool.opt)
     IN /\ products' = [products EXCEPT ![pool[t].job] = product]
        /\ pool' = [pool EXCEPT ![t].at = IF product.error THEN "failed" ELSE "claim"]
  /\ UNCHANGED <<tool, todo, next, outIq, outLines, outOff>>

\* The line written for a product whose samples begin at `offset`
OutLine(p, offset) ==
  LET n == Len(p.rs)
      at == MapInput(p.ws)
      labelled == p.pre >= 0 /\ p.cap >= 0
      body == MapInput(p.ws + p.pre)
      tail == MapInput(p.ws + p.pre + p.cap)
      pre == IF labelled THEN Nonnegative(body - at) ELSE 0
      cap == IF labelled THEN Nonnegative(tail - body) ELSE n
      wanted == Nonnegative(MapInput(p.ws + p.pre + p.cap + p.post) - tail)
      remain == n - pre - cap
      post == IF ~labelled THEN 0
              ELSE IF p.post < 0 \/ wanted > remain THEN Nonnegative(remain)
              ELSE wanted
  IN [packet_id |-> p.packet_id, file_offset_samples |-> offset,
      sample_count |-> n, window_start_sample |-> at,
      predicted_start_sample |-> IF p.predicted >= 0 THEN MapInput(p.predicted) ELSE -1,
      pre_guard_samples |-> pre, capture_samples |-> cap,
      post_guard_samples |-> post, input_native_sample_count |-> p.native,
      capture_mode |-> p.mode]

join ==
  /\ tool.at = "compute" /\ \A t \in DOMAIN pool : pool[t].at \in {"done", "failed"}
  /\ IF \E t \in DOMAIN pool : pool[t].at = "failed"
       THEN tool' = [tool EXCEPT !.at = "exit", !.code = 2]
       ELSE tool' = [tool EXCEPT !.at = "write"]
  /\ UNCHANGED <<todo, next, pool, products, outIq, outLines, outOff>>

\* One turn of the loop that writes; the samples are let go.
write_product ==
  LET i == Len(outLines) + 1
      p == products[i]
  IN /\ tool.at = "write" /\ i <= Len(todo)
     /\ outIq' = outIq \o p.rs
     /\ outLines' = Append(outLines, OutLine(p, outOff))
     /\ outOff' = outOff + Len(p.rs)
     /\ products' = [products EXCEPT ![i].rs = <<>>]
     /\ UNCHANGED <<tool, todo, next, pool>>

all_written ==
  /\ tool.at = "write" /\ Len(outLines) = Len(todo)
  /\ tool' = [tool EXCEPT !.at = "exit"]
  /\ UNCHANGED <<todo, next, pool, products, outIq, outLines, outOff>>

Writing == write_product \/ all_written
Tool == postprocess \/ (\E t \in DOMAIN pool : claim(t) \/ process(t)) \/ join \/ Writing
=============================================================================
