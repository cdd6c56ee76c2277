------------------------------ MODULE DemodCore ------------------------------
(***************************************************************************)
(* demodulate_one of uwb_demod_core.h on one window, stage by stage.        *)
(*                                                                         *)
(* The window is given by the caller: case is a record with                 *)
(*   sig      the signal (SyncStages)       tx     the frame (FrameStages)  *)
(*   profile  the decoder's parameters                                      *)
(*   window_start, predicted_start          absolute sample positions       *)
(* result is what the function returns; its positions become absolute when  *)
(* it does (rebase).  The other variables are the function's locals.        *)
(***************************************************************************)
EXTENDS SyncStages, FrameStages

VARIABLES
  case,        \* the window
  stage,       \* the stage that runs next; "returned" at the end
  result,      \* DemodResult
  cfo_biased,      \* the CFO estimate took SFD symbols for SYNCs
  air,         \* the soft chips after the SFD
  tries,       \* fallback candidates not tried yet
  fixed        \* what the fixed path decoded (a history variable)

decodeVars == <<case, stage, result, cfo_biased, air, tries, fixed>>

Unset == -1
NoResult ==
  [status |-> "none", preamble_start |-> Unset, peaks |-> <<>>,
   sfd_initial |-> Unset, sfd_bootstrap |-> Unset, sfd_start |-> Unset,
   first_path |-> Unset, polarity |-> 1, phr |-> NoPhr, payload |-> NoPayload]

\* The seed: the prediction relative to the window, and none without one.
rel_seed ==
  IF case.predicted_start >= 0 THEN case.predicted_start - case.window_start ELSE -1

\* The positions that are set become absolute.  FaultRebaseStart: not the peaks.
FaultRebaseStart(r) ==
  LET Abs(s) == IF s = Unset THEN Unset ELSE s + case.window_start
  IN  [r EXCEPT !.preamble_start = Abs(@), !.sfd_start = Abs(@),
                !.sfd_initial = Abs(@), !.sfd_bootstrap = Abs(@), !.first_path = Abs(@)]
rebase(r) ==
  LET Abs(s) == IF s = Unset THEN Unset ELSE s + case.window_start
  IN  [r EXCEPT !.preamble_start = Abs(@), !.sfd_start = Abs(@),
                !.sfd_initial = Abs(@), !.sfd_bootstrap = Abs(@), !.first_path = Abs(@),
                !.peaks = [k \in DOMAIN @ |-> @[k] + case.window_start]]

Return(r, status) ==
  /\ result' = rebase([r EXCEPT !.status = status])
  /\ stage' = "returned"
  /\ UNCHANGED <<case, cfo_biased, air, tries>>

Continue(r, next) ==
  /\ result' = r
  /\ stage' = next
  /\ UNCHANGED case

NothingDecoded ==
  /\ result = NoResult
  /\ cfo_biased = FALSE /\ air = <<>> /\ tries = <<>> /\ fixed = NoPayload

-----------------------------------------------------------------------------
(* Stages 1 to 3: timing, CFO, the SFD, and the anchor.                    *)

Timing ==
  LET After(t) ==
        IF t.ok
          THEN /\ Continue([result EXCEPT !.preamble_start = t.start, !.peaks = t.peaks],
                           "cfo")
               /\ UNCHANGED <<cfo_biased, air, tries>>
          ELSE Return(result, "TimingFailed")
  IN  stage = "timing" /\ UNCHANGED fixed /\ After(stage_timing(case.sig, case.profile, rel_seed))

Cfo ==
  LET After(c) ==
        IF c.ok
          THEN /\ cfo_biased' = c.biased
               /\ Continue(result, "bootstrap")
               /\ UNCHANGED <<air, tries>>
          ELSE Return(result, "CfoFailed")
  IN  stage = "cfo" /\ UNCHANGED fixed /\ After(stage_cfo(case.sig, case.profile, result.peaks))

\* The first SFD search.  Its place is kept as sfd_bootstrap.
BootstrapSfd ==
  LET After(s, r) ==
        IF s.ok THEN Continue(r, "anchor") /\ UNCHANGED <<cfo_biased, air, tries>>
        ELSE Return(r, "SfdFailed")
      Record(s) == After(s, [result EXCEPT !.sfd_initial = s.expected,
                              !.sfd_bootstrap = s.start, !.sfd_start = s.start])
  IN  /\ stage = "bootstrap" /\ UNCHANGED fixed
      /\ Record(stage_sfd(case.sig, case.profile, result.preamble_start, cfo_biased))

\* The last SYNCs before the SFD are tracked again, the grid is rebuilt from
\* the SFD, and the CFO is estimated once more on it.
AnchorTail ==
  LET Refit(all, c) ==
        IF c.ok
          THEN /\ cfo_biased' = c.biased
               /\ Continue([result EXCEPT !.peaks = all,
                             !.preamble_start = result.sfd_start - case.profile.reps * T],
                           "sfd")
               /\ UNCHANGED <<air, tries>>
          ELSE Return(result, "CfoFailed")
      Rebuild(all) == Refit(all, stage_cfo(case.sig, case.profile, all))
      Tracked(tail) ==
        IF tail.ok /\ Len(tail.peaks) = TailRepetitions(case.profile)
          THEN Rebuild(RebuiltPeaks(case.profile, result.sfd_start, tail.peaks))
          ELSE Return(result, "CfoFailed")
  IN  /\ stage = "anchor" /\ UNCHANGED fixed
      /\ IF TailRepetitions(case.profile) < 2 THEN Return(result, "CfoFailed")
         ELSE Tracked(stage_timing(case.sig, cfo_anchor_profile(case.profile),
                        result.sfd_start - TailRepetitions(case.profile) * T))

FinalSfd ==
  LET After(s) ==
        IF s.ok
          THEN /\ Continue([result EXCEPT !.sfd_start = s.start,
                             !.preamble_start = s.start - case.profile.reps * T], "cir")
               /\ UNCHANGED <<cfo_biased, air, tries>>
          ELSE Return([result EXCEPT !.sfd_start = Unset], "SfdFailed")
  IN  /\ stage = "sfd" /\ UNCHANGED fixed
      /\ After(stage_sfd(case.sig, case.profile, result.preamble_start, cfo_biased))

-----------------------------------------------------------------------------
(* Stages 4 to 7: soft chips, the SFD in them, the header, the payload.    *)

Chips == stage_cir_softchips(case.sig, case.profile, result.preamble_start,
                             Len(result.peaks))

Cir ==
  /\ stage = "cir" /\ UNCHANGED fixed
  /\ IF Chips > 0
       THEN Continue([result EXCEPT !.first_path = result.preamble_start], "ns_sfd")
            /\ UNCHANGED <<cfo_biased, air, tries>>
       ELSE Return(result, "CirFailed")

\* The chips after the SFD are the frame's when the anchor is the frame's.
NsSfd ==
  LET room == (Chips - (case.profile.reps + Len(case.sig.sfd)) * kQm35ChipsPerSymbol) \div 64
  IN  /\ stage = "ns_sfd" /\ UNCHANGED fixed
      /\ IF stage_ns_sfd(case.sig, case.profile, result.preamble_start, Chips)
           THEN /\ air' = IF result.sfd_start = SfdTrue(case.sig)
                          THEN Received(case.tx, room) ELSE Unrelated(case.tx, room)
                /\ Continue([result EXCEPT !.polarity = case.tx.polarity], "phr")
                /\ UNCHANGED <<cfo_biased, tries>>
           ELSE Return(result, "SfdFailed")

Phr ==
  LET After(h) ==
        IF h.ok THEN /\ Continue([result EXCEPT !.phr = h], "payload")
                     /\ UNCHANGED <<cfo_biased, air, tries>>
        ELSE Return(result, "PhrFailed")
  IN  stage = "phr" /\ UNCHANGED fixed /\ After(stage_phr(air, result.polarity))

\* The end of stage 7: a payload whose FCS holds, or no candidate left.
Finish(r) ==
  Return(r, IF ~r.payload.ok THEN "PayloadFailed"
            ELSE IF r.payload.fcs_pass THEN "Success" ELSE "FcsFailed")

\* What follows a decoding attempt: the end, or the next candidate.
Attempted(r, candidates) ==
  IF r.payload.fcs_pass \/ (candidates = <<>> /\ stage = "fallback") THEN Finish(r)
  ELSE /\ tries' = candidates
       /\ Continue(r, "fallback")
       /\ UNCHANGED <<cfo_biased, air>>

Payload ==
  LET First(first) ==
        /\ fixed' = first
        /\ Attempted([result EXCEPT !.payload = first],
                     Candidates(result.polarity, result.phr.psdu_length,
                                case.profile.max_psdu_bytes))
  IN  /\ stage = "payload"
      /\ IF result.phr.psdu_length = 0 THEN Finish(result) /\ UNCHANGED fixed
         ELSE First(FixedPath(air, result.polarity, result.phr.psdu_length))

PayloadFallback ==
  /\ stage = "fallback" /\ tries # <<>> /\ UNCHANGED fixed
  /\ Attempted([result EXCEPT !.payload = Keep(@, Fallback(air, Head(tries)))], Tail(tries))

\* A reported length beyond the limit leaves no candidate.
NoFallback ==
  /\ stage = "fallback" /\ tries = <<>> /\ UNCHANGED fixed
  /\ Finish(result)

demodulate_one ==
  \/ Timing \/ Cfo \/ BootstrapSfd \/ AnchorTail \/ FinalSfd
  \/ Cir \/ NsSfd \/ Phr \/ Payload \/ PayloadFallback \/ NoFallback

-----------------------------------------------------------------------------
(* Properties.                                                             *)

Returned == stage = "returned"
Absolute(place) == place + case.window_start

\* The window holds the frame from its first SYNC to its last payload symbol.
FrameWhole ==
  /\ case.sig.start >= case.profile.cirPre
  /\ SfdTrue(case.sig) + (Len(case.sig.sfd) + 1) * T
       + 128 * (8 * 21 + Len(EncodeStream(case.tx.psdu)) + 2) <= case.sig.n

\* Whatever symbol the acquisition found first, and whatever the window's
\* offset, the SFD position that is published is the true one in absolute
\* samples; once the anchor stands, so are the start of the preamble and the
\* position of every SYNC.
AnchoredAtFrame ==
  Returned =>
    /\ result.sfd_start # Unset => result.sfd_start = Absolute(SfdTrue(case.sig))
    /\ result.first_path # Unset =>
         /\ result.preamble_start = Absolute(case.sig.start)
         /\ \A k \in DOMAIN result.peaks :
              result.peaks[k] = Absolute(Place(case.sig, k - 1))

\* The seed may lie on a later SYNC and the first ones may be too weak to be
\* tracked: as long as at most four are lost, and the walk back reaches the
\* others, a frame that is wholly in the window is not given up before its
\* soft chips are computed.
LateSeedRecovered ==
  LET j == (rel_seed - case.sig.start + T \div 2) \div T
  IN  Returned /\ FrameWhole
        /\ j \in case.sig.lead..case.sig.reps - 1 /\ case.sig.lead <= 4
        /\ rel_seed - Place(case.sig, j) \in -255..255
        /\ j - case.sig.lead <= case.profile.backtrack
        /\ ~case.sig.biasHurts
      => result.status \notin {"TimingFailed", "CfoFailed", "SfdFailed"}

\* How many six-bit symbols of one RS block differ (the block is right-aligned).
SymbolErrors(sent, word) ==
  LET pad(w) == rs_bits_to_syms(Zeros(378 - Len(w)) \o w)
  IN  Cardinality({k \in 1..63 : pad(sent)[k] # pad(word)[k]})

\* A frame whose header was read right and whose hard decisions differ from
\* what was sent in at most four RS symbols is recovered: its bits are those
\* sent, and the status says whether they hold their FCS.
FrameRecovered ==
  LET sent == EncodeStream(case.tx.psdu)
      len  == Len(case.tx.psdu) \div 8
  IN  Returned /\ result.phr.ok /\ FrameWhole /\ result.phr.psdu_length = len
        /\ SymbolErrors(sent, HardWord(air, result.polarity, len)) <= 4
      => /\ result.payload.ok
         /\ result.status = IF WithFcs(case.tx.psdu).fcs_pass THEN "Success" ELSE "FcsFailed"
         /\ result.payload.bits = case.tx.psdu

\* The fallbacks never replace what the fixed path decoded by another RS
\* codeword, shorter or longer, unless that one's FCS holds.
FirstDecodeKept ==
  Returned /\ fixed.ok => result.payload = fixed \/ result.payload.fcs_pass

\* A header that reports a length up to two bytes off, and a payload of the
\* other polarity than the SFD, are made good when the payload is undamaged and
\* carries its FCS: what is returned is what was sent.
SlipRecovered ==
  LET len == Len(case.tx.psdu) \div 8
  IN  Returned /\ result.phr.ok /\ FrameWhole
        /\ len <= case.profile.max_psdu_bytes /\ result.phr.psdu_length > 0
        /\ result.phr.psdu_length - len \in -2..2
        /\ case.tx.halves \cup case.tx.signs \subseteq 1..21
        /\ WithFcs(case.tx.psdu).fcs_pass
      => result.status = "Success" /\ result.payload.bits = case.tx.psdu

\* SECDED, as its name and the header of stage_phr say: a header word with one
\* wrong bit is corrected.
PhrSurvivesOneError ==
  Returned /\ result.phr.ok
    /\ Cardinality({i \in 1..19 : result.phr.word[i] # case.tx.phr[i]}) = 1
  => SubSeq(result.phr.bits, 1, 13) = SubSeq(case.tx.phr, 1, 13)

=============================================================================
