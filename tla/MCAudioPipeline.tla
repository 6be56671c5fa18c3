--------------------------- MODULE MCAudioPipeline ---------------------------
(* Instances of AudioPipeline for TLC. *)
EXTENDS AudioPipeline, TLC

\* One order for every way through the stages.
MCOrders ==
  { [wants |-> {"waveform", "hls", "mp3", "flac"}, encrypt |-> FALSE],
    [wants |-> {"waveform", "hls"}, encrypt |-> TRUE],
    [wants |-> {"hls"}, encrypt |-> FALSE],
    [wants |-> {"hls"}, encrypt |-> TRUE],
    [wants |-> {"flac"}, encrypt |-> FALSE],
    [wants |-> {"waveform", "mp3"}, encrypt |-> FALSE] }

MCSymmetry == Permutations(Workers) \cup Permutations(Jobs) \cup Permutations(Keys)
=============================================================================
