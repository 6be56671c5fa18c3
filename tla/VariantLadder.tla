---------------------------- MODULE VariantLadder ----------------------------
(***************************************************************************)
(* Which renditions a video is transcoded to (internal/video/processor.go  *)
(* and transcode.go): the geometry ffprobe reports, the rungs of the       *)
(* ladder that fit, their dimensions, and the tracks that are encoded and  *)
(* packaged. Quotients of the code are floating point numbers; they are    *)
(* exact here, but where the exact number lies half way between two even   *)
(* ones, rounding may go either way.                                       *)
(***************************************************************************)
EXTENDS SequencesExt, Integers

CONSTANT Sources  \* the sources that are considered

\* What ffprobe says of a source, with rotations in degrees, rounded; and which
\* way half way quotients are rounded.
Source == [width : Int, height : Int, side : Int, tag : Int, up : BOOLEAN]

ASSUME SourcesAssumption == \A s \in Sources : s \in Source

VARIABLE source  \* the source at hand

Smaller(a, b) == IF a < b THEN a ELSE b

\* canonicalVariantSpecs.
Rung(name, w, h) == [rung |-> name, width |-> w, height |-> h]
Specs == <<Rung(1080, 1920, 1080), Rung(720, 1280, 720), Rung(480, 854, 480),
           Rung(360, 640, 360), Rung(240, 426, 240)>>

\* rotation and normalizeRotation: side data count unless they say nothing,
\* and an angle that is not a right one does not.
Rotation(s) ==
  LET degrees == (IF s.side # 0 THEN s.side ELSE s.tag) % 360
  IN  IF degrees % 90 = 0 THEN degrees ELSE 0

\* probeVideoGeometry, where it does not fail.
Probed(s) == s.width > 0 /\ s.height > 0
Geometry(s) == IF Rotation(s) \in {90, 270} THEN [width |-> s.height, height |-> s.width]
               ELSE [width |-> s.width, height |-> s.height]

EvenAtMost(v) == IF v <= 2 THEN 2 ELSE v - (v % 2)

\* Mutant of EvenNearestAtMost: the limit is not made even.
NearestAtMost(n, d, limit, up) ==
  LET halves == (n + d) \div (2 * d)
      even == 2 * (IF (n + d) % (2 * d) = 0 /\ ~up THEN halves - 1 ELSE halves)
  IN  IF limit <= 2 \/ even <= 2 THEN 2 ELSE Smaller(even, limit)

\* evenNearestAtMost of n / d.
EvenNearestAtMost(n, d, limit, up) ==
  LET halves == (n + d) \div (2 * d)
      even == 2 * (IF (n + d) % (2 * d) = 0 /\ ~up THEN halves - 1 ELSE halves)
      most == EvenAtMost(limit)
  IN  IF most <= 2 \/ even <= 2 THEN 2 ELSE Smaller(even, most)

\* Mutant of Fit: the box is filled.
FitBox(g, box, up) == [box EXCEPT !.width = EvenAtMost(Smaller(box.width, g.width)),
                                  !.height = EvenAtMost(Smaller(box.height, g.height))]

\* fitVariantDimensions: the box's or the source's width and the height that
\* goes with it, or the other way round. A side of one pixel becomes two.
Fit(g, box, up) ==
  LET w == Smaller(box.width, g.width)
      h == Smaller(box.height, g.height)
      heightFor(x) == EvenNearestAtMost(x * g.height, g.width, h, up)
      widthFor(y) == EvenNearestAtMost(y * g.width, g.height, w, up)
      byWidth == [box EXCEPT !.width = EvenAtMost(w), !.height = heightFor(EvenAtMost(w))]
      byHeight == [box EXCEPT !.width = widthFor(EvenAtMost(h)), !.height = EvenAtMost(h)]
  IN  IF g.width * box.height >= box.width * g.height
        THEN IF byWidth.height > h THEN byHeight ELSE byWidth
        ELSE IF byHeight.width > w THEN byWidth ELSE byHeight

\* Mutant of Selected: the long edge decides.
SelectedByLong(g) ==
  LET fits == {i \in DOMAIN Specs : Specs[i].width <= g.width \/ Specs[i].height <= g.width}
  IN  SubSeq(Specs, IF fits = {} THEN Len(Specs) ELSE Min(fits), Len(Specs))

\* selectVariantsForCodec: the rungs whose short edge the source has, or else
\* the last one. The short edges descend, so that they are the last rungs.
Selected(g) ==
  LET fits == {i \in DOMAIN Specs :
                 Smaller(Specs[i].width, Specs[i].height) <= Smaller(g.width, g.height)}
  IN  SubSeq(Specs, IF fits = {} THEN Len(Specs) ELSE Min(fits), Len(Specs))

\* resolveTranscodeVariants: per codec, in the order of DefaultVariants.
Codecs == <<"av1", "h264">>
Ladder(s, codec) ==
  LET g == Geometry(s)
      rungs == Selected(g)
  IN  [i \in DOMAIN rungs |-> [Fit(g, rungs[i], s.up) EXCEPT !.rung = <<rungs[i].rung, codec>>]]

Variants(s) == Ladder(s, "av1") \o Ladder(s, "h264")

\* estimateBandwidth, in thousands.
Bandwidth(v) ==
  LET base == CASE v.height >= 1080 -> 5000 [] v.height \in 720 .. 1079 -> 2500
                [] v.height \in 480 .. 719 -> 1000 [] v.height \in 360 .. 479 -> 500
                [] v.height \in 240 .. 359 -> 300 [] OTHER -> 200
  IN  IF v.rung[2] = "av1" THEN (base * 60) \div 100 ELSE base

\* Transcode encodes one codec after the other into files named for the rung,
\* and packages a track for every variant from the file of its name.
Encoded(s) == {v \in ToSet(Variants(s)) : v.rung[2] \in ToSet(Codecs)}
Tracks(s) == [i \in DOMAIN Variants(s) |-> CHOOSE e \in Encoded(s) : e.rung = Variants(s)[i].rung]

LadderInit == source = [width |-> -1, height |-> -1, side |-> 0, tag |-> 0, up |-> TRUE]
Probe(s) == source.width = -1 /\ source' = s
LadderNext == \E s \in Sources : Probe(s)
LadderSpec == LadderInit /\ [][LadderNext]_source
-----------------------------------------------------------------------------

\* Every source that can be probed has a stream in each codec, all of its
\* tracks are encoded under a name of their own, with sides an encoder takes,
\* and none has more pixels than its rung or its source allows, but for sides
\* of one pixel.
LadderIsPlayable ==
  Probed(source) =>
    LET vs == Variants(source)
        g == Geometry(source)
    IN
    /\ \A c \in ToSet(Codecs) : \E i \in DOMAIN vs : vs[i].rung[2] = c
    /\ Tracks(source) = vs
    /\ \A i, j \in DOMAIN vs : vs[i].rung = vs[j].rung => i = j
    /\ \A i \in DOMAIN vs :
         LET v == vs[i]
             spec == CHOOSE s \in ToSet(Specs) : s.rung = v.rung[1]
         IN  /\ v.width % 2 = 0 /\ v.height % 2 = 0 /\ v.width >= 2 /\ v.height >= 2
             /\ v.width <= Smaller(spec.width, IF g.width = 1 THEN 2 ELSE g.width)
             /\ v.height <= Smaller(spec.height, IF g.height = 1 THEN 2 ELSE g.height)

\* The picture keeps its shape: one of the sides of a rendition is at most
\* one pixel away from what the other one calls for, unless the picture is so
\* narrow that a side of two pixels is too much already.
LadderKeepsShape ==
  Probed(source) =>
    \A v \in ToSet(Variants(source)) :
      LET g == Geometry(source)
          off == v.width * g.height - v.height * g.width  \* in pixels, times a side of g
          apart(side) == off <= side /\ -off <= side
      IN  apart(g.width) \/ apart(g.height) \/ 2 \in {v.width, v.height}

\* The ladder goes down: no rung repeats the one before it, none is larger or
\* claims more bandwidth. Both codecs have the same rungs, and AV1 claims less,
\* so that a player which knows it prefers it.
LadderDescends ==
  Probed(source) =>
    LET av1 == Ladder(source, "av1")
        h264 == Ladder(source, "h264")
        size(v) == <<v.width, v.height>>
    IN
    /\ \A i \in 1 .. Len(av1) - 1 :
         /\ size(av1[i]) # size(av1[i + 1])
         /\ av1[i].width >= av1[i + 1].width /\ av1[i].height >= av1[i + 1].height
         /\ Bandwidth(av1[i]) >= Bandwidth(av1[i + 1])
    /\ Len(av1) = Len(h264)
    /\ \A i \in DOMAIN av1 : size(av1[i]) = size(h264[i]) /\ Bandwidth(av1[i]) < Bandwidth(h264[i])
=============================================================================
