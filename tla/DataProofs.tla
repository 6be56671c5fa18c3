----------------------------- MODULE DataProofs -----------------------------
(***************************************************************************)
(* What holds of the sequential components for every input: of the request *)
(* that a retry makes for any pipeline, of the renditions of any source,   *)
(* and of the pictures that are processed for any wish. What is recursive  *)
(* or chosen in them is reasoned about by induction over a set of numbers. *)
(***************************************************************************)
EXTENDS JobRequest, VariantLadder, ImageProcessing, FiniteSetTheorems,
        SequenceTheorems, TLAPS

(* Induction, for a set of numbers. *)

LEMMA Induction ==
  ASSUME NEW S, 0 \in S, \A n \in Nat : n \in S => n + 1 \in S
  PROVE  Nat \subseteq S
<1> SUFFICES ASSUME Nat \ S # {} PROVE FALSE
  OBVIOUS
<1> DEFINE R == OpToRel(<, Nat)
           T == Nat \ S
<1>1. IsWellFoundedOn(R, Nat)
  BY NatLessThanWellFounded
<1>2. \A y, x \in Nat : <<y, x>> \in R <=> y < x
  BY Zenon DEF OpToRel
<1> HIDE DEF R
<1>3. PICK x \in T : \A y \in T : ~(<<y, x>> \in R)
  <2>1. T \subseteq Nat /\ T # {}
    OBVIOUS
  <2> HIDE DEF T
  <2> QED BY <1>1, <2>1, WFMin
<1>4. x # 0 /\ x \in Nat /\ x \notin S
  BY <1>3
<1>5. x - 1 \in Nat /\ x - 1 < x /\ x = (x - 1) + 1
  BY <1>4
<1>6. <<x - 1, x>> \in R
  BY <1>2, <1>4, <1>5
<1>7. x - 1 \in S
  BY <1>3, <1>5, <1>6
<1> QED BY <1>4, <1>5, <1>7

\* A set of numbers that has a bound has a maximum.
LEMMA Maximum ==
  ASSUME NEW N \in Nat, NEW S \in SUBSET (0 .. N), S # {}
  PROVE  Max(S) \in S /\ \A x \in S : x <= Max(S)
<1> DEFINE Q == {n \in Nat : (\E x \in S : x + n >= N) => \E x \in S : \A y \in S : y <= x}
<1>1. 0 \in Q
  OBVIOUS
<1>2. ASSUME NEW n \in Nat, n \in Q PROVE n + 1 \in Q
  <2> SUFFICES ASSUME NEW x \in S, x + (n + 1) >= N PROVE \E m \in S : \A y \in S : y <= m
    OBVIOUS
  <2>1. CASE \E y \in S : y > x
    <3>1. PICK y \in S : y > x
      BY <2>1
    <3>2. y + n >= N
      BY <3>1
    <3> QED BY <1>2, <3>2
  <2>2. CASE ~ \E y \in S : y > x
    BY <2>2
  <2> QED BY <2>1, <2>2
<1>3. Nat \subseteq Q
  <2> HIDE DEF Q
  <2> QED BY <1>1, <1>2, Induction
<1>4. N \in Q
  BY <1>3
<1>5. PICK m \in S : \A y \in S : y <= m
  <2>1. PICK x \in S : TRUE
    OBVIOUS
  <2>2. x + N >= N
    OBVIOUS
  <2> QED BY <1>4, <2>2
<1>6. \A y \in S : m >= y
  BY <1>5
<1> QED BY <1>6 DEF Max

\* A set of natural numbers has a minimum.
LEMMA Minimum ==
  ASSUME NEW S \in SUBSET Nat, S # {}
  PROVE  Min(S) \in S /\ \A x \in S : Min(S) <= x
<1> DEFINE Q == {n \in Nat : (\E x \in S : x <= n) => \E x \in S : \A y \in S : x <= y}
<1>1. 0 \in Q
  OBVIOUS
<1>2. ASSUME NEW n \in Nat, n \in Q PROVE n + 1 \in Q
  <2> SUFFICES ASSUME NEW x \in S, x <= n + 1 PROVE \E m \in S : \A y \in S : m <= y
    OBVIOUS
  <2>1. CASE \E y \in S : y < x
    <3>1. PICK y \in S : y < x
      BY <2>1
    <3>2. y <= n
      BY <3>1
    <3> QED BY <1>2, <3>2
  <2>2. CASE ~ \E y \in S : y < x
    BY <2>2
  <2> QED BY <2>1, <2>2
<1>3. Nat \subseteq Q
  <2> HIDE DEF Q
  <2> QED BY <1>1, <1>2, Induction
<1>4. PICK m \in S : \A y \in S : m <= y
  <2>1. PICK x \in S : x \in Nat
    OBVIOUS
  <2>2. x \in Q
    BY <1>3, <2>1
  <2> QED BY <2>1, <2>2
<1> QED BY <1>4 DEF Min

\* Division, and multiplication of an inequation.
LEMMA Quotient ==
  ASSUME NEW a \in Nat, NEW e \in Nat \ {0}
  PROVE  /\ a \div e \in Nat /\ a % e \in 0 .. e - 1
         /\ a = e * (a \div e) + (a % e)
OBVIOUS

LEMMA Scaled ==
  ASSUME NEW a \in Int, NEW b \in Int, NEW c \in Nat, a <= b
  PROVE  c * a <= c * b
OBVIOUS

LEMMA ScaledUp ==
  ASSUME NEW a \in Int, NEW b \in Int, NEW c \in Nat \ {0}, a < b
  PROVE  c * a < c * b
<1>1. c * (a + 1) <= c * b
  BY Scaled
<1>2. c * (a + 1) = c * a + c
  OBVIOUS
<1> QED BY <1>1, <1>2

-----------------------------------------------------------------------------
(***************************************************************************)
(* Requests.                                                               *)
(***************************************************************************)

(* What a list of downloads comes to. *)

Options == [hls : BOOLEAN, encrypt : BOOLEAN, mp3 : BOOLEAN, flac : BOOLEAN,
            bitrate : {"unset", "128k", "320k"}, waveform : BOOLEAN, bins : Int]

\* Whether a download is an MP3 or a FLAC, whether it says at which bitrate, and which.
IsMp3(d) == d.profile = "download_mp3_high" \/ (d.profile = "unset" /\ d.format = "mp3")
Names(d) == IsMp3(d) /\ (d.profile # "unset" \/ d.bitrate # "unset")
BitrateOf(d) == IF d.profile # "unset" THEN "320k" ELSE d.bitrate

\* The downloads at is, added to o.
With(o, ps, is) ==
  LET named == {i \in is : Names(ps[i])} IN
  [hls |-> o.hls, encrypt |-> o.encrypt, waveform |-> o.waveform, bins |-> o.bins,
   mp3 |-> o.mp3 \/ (\E i \in is : IsMp3(ps[i])),
   flac |-> o.flac \/ (\E i \in is : ~ IsMp3(ps[i])),
   bitrate |-> IF named = {} THEN o.bitrate ELSE BitrateOf(ps[Max(named)])]

LEMMA OptionsAre ==
  ASSUME NEW o \in Options
  PROVE  o = [hls |-> o.hls, encrypt |-> o.encrypt, waveform |-> o.waveform, bins |-> o.bins,
              mp3 |-> o.mp3, flac |-> o.flac, bitrate |-> o.bitrate]
BY DEF Options

LEMMA ApplyIs ==
  ASSUME NEW o \in Options, NEW d \in Download
  PROVE  /\ ApplyDownload(o, d) \in Options
         /\ ApplyDownload(o, d) =
              [hls |-> o.hls, encrypt |-> o.encrypt, waveform |-> o.waveform, bins |-> o.bins,
               mp3 |-> o.mp3 \/ IsMp3(d), flac |-> o.flac \/ ~ IsMp3(d),
               bitrate |-> IF Names(d) THEN BitrateOf(d) ELSE o.bitrate]
<1>1. d.bitrate \in {"unset", "128k", "320k"}
  BY DEF Download
<1>0. o.bitrate \in {"unset", "128k", "320k"}
  BY DEF Options
<1> PICK a : a = ApplyDownload(o, d)
  OBVIOUS
<1>2. CASE d.profile = "download_mp3_high"
  <2>1. ApplyDownload(o, d) = [o EXCEPT !.mp3 = TRUE, !.bitrate = "320k"]
    BY <1>2 DEF ApplyDownload
  <2>2. IsMp3(d) /\ Names(d) /\ BitrateOf(d) = "320k"
    BY <1>2 DEF IsMp3, Names, BitrateOf
  <2>3. /\ a \in Options /\ a.hls = o.hls /\ a.encrypt = o.encrypt /\ a.waveform = o.waveform
        /\ a.bins = o.bins /\ a.mp3 = TRUE /\ a.flac = o.flac /\ a.bitrate = "320k"
    BY <2>1 DEF Options
  <2>4. (o.mp3 \/ IsMp3(d)) = TRUE /\ (o.flac \/ ~ IsMp3(d)) = o.flac
    BY <2>2 DEF Options
  <2>5. (IF Names(d) THEN BitrateOf(d) ELSE o.bitrate) = "320k"
    BY <2>2
  <2>6. a = [hls |-> o.hls, encrypt |-> o.encrypt, waveform |-> o.waveform, bins |-> o.bins,
             mp3 |-> TRUE, flac |-> o.flac, bitrate |-> "320k"]
    BY <2>3, OptionsAre
  <2> QED BY <2>3, <2>4, <2>5, <2>6
<1>3. CASE d.profile = "unset" /\ d.format = "mp3"
  <2>1. ApplyDownload(o, d) =
          [o EXCEPT !.mp3 = TRUE, !.bitrate = IF d.bitrate = "unset" THEN @ ELSE d.bitrate]
    BY <1>3 DEF ApplyDownload
  <2>2. IsMp3(d) /\ (Names(d) <=> d.bitrate # "unset") /\ BitrateOf(d) = d.bitrate
    BY <1>3 DEF IsMp3, Names, BitrateOf
  <2> PICK b : b = IF d.bitrate = "unset" THEN o.bitrate ELSE d.bitrate
    OBVIOUS
  <2>3. /\ a \in Options /\ a.hls = o.hls /\ a.encrypt = o.encrypt /\ a.waveform = o.waveform
        /\ a.bins = o.bins /\ a.mp3 = TRUE /\ a.flac = o.flac /\ a.bitrate = b
    <3>1. a = [o EXCEPT !.mp3 = TRUE, !.bitrate = b] /\ b \in {"unset", "128k", "320k"}
      BY <1>0, <1>1, <2>1
    <3> QED BY <3>1 DEF Options
  <2>4. (o.mp3 \/ IsMp3(d)) = TRUE /\ (o.flac \/ ~ IsMp3(d)) = o.flac
    BY <2>2 DEF Options
  <2>5. b = IF Names(d) THEN BitrateOf(d) ELSE o.bitrate
    BY <2>2
  <2>6. a = [hls |-> o.hls, encrypt |-> o.encrypt, waveform |-> o.waveform, bins |-> o.bins,
             mp3 |-> TRUE, flac |-> o.flac, bitrate |-> b]
    BY <2>3, OptionsAre
  <2> QED BY <2>3, <2>4, <2>5, <2>6
<1>4. CASE d.profile # "download_mp3_high" /\ ~ (d.profile = "unset" /\ d.format = "mp3")
  <2>1. ApplyDownload(o, d) = [o EXCEPT !.flac = TRUE]
    BY <1>4 DEF ApplyDownload
  <2>2. ~ IsMp3(d) /\ ~ Names(d)
    BY <1>4 DEF IsMp3, Names
  <2>3. /\ a \in Options /\ a.hls = o.hls /\ a.encrypt = o.encrypt /\ a.waveform = o.waveform
        /\ a.bins = o.bins /\ a.mp3 = o.mp3 /\ a.flac = TRUE /\ a.bitrate = o.bitrate
    BY <2>1 DEF Options
  <2>4. (o.mp3 \/ IsMp3(d)) = o.mp3 /\ (o.flac \/ ~ IsMp3(d)) = TRUE
    BY <2>2 DEF Options
  <2>5. (IF Names(d) THEN BitrateOf(d) ELSE o.bitrate) = o.bitrate
    BY <2>2
  <2>6. a = [hls |-> o.hls, encrypt |-> o.encrypt, waveform |-> o.waveform, bins |-> o.bins,
             mp3 |-> o.mp3, flac |-> TRUE, bitrate |-> o.bitrate]
    BY <2>3, OptionsAre
  <2> QED BY <2>3, <2>4, <2>5, <2>6
<1> QED BY <1>2, <1>3, <1>4

LEMMA WithType ==
  ASSUME NEW o \in Options, NEW ps \in Seq(Download), NEW is \in SUBSET DOMAIN ps
  PROVE  With(o, ps, is) \in Options
<1> DEFINE named == {i \in is : Names(ps[i])}
<1>1. named # {} => ps[Max(named)] \in Download
  <2> SUFFICES ASSUME named # {} PROVE ps[Max(named)] \in Download
    OBVIOUS
  <2>1. Len(ps) \in Nat /\ DOMAIN ps = 1 .. Len(ps) /\ named \in SUBSET (0 .. Len(ps))
    OBVIOUS
  <2>2. Max(named) \in named
    BY <2>1, Maximum
  <2> HIDE DEF named
  <2>3. Max(named) \in DOMAIN ps
    BY <2>2 DEF named
  <2> QED BY <2>1, <2>3
<1>2. named # {} => BitrateOf(ps[Max(named)]) \in {"unset", "128k", "320k"}
  BY <1>1 DEF BitrateOf, Download
<1>3. (IF named = {} THEN o.bitrate ELSE BitrateOf(ps[Max(named)])) \in {"unset", "128k", "320k"}
  BY <1>2 DEF Options
<1> QED BY <1>3 DEF Options, With

\* The last of the downloads is applied last.
LEMMA WithLast ==
  ASSUME NEW o \in Options, NEW ps \in Seq(Download), NEW is \in SUBSET DOMAIN ps, is # {}
  PROVE  /\ Max(is) \in is /\ is \ {Max(is)} \in SUBSET DOMAIN ps
         /\ With(o, ps, is) = ApplyDownload(With(o, ps, is \ {Max(is)}), ps[Max(is)])
<1>1. Len(ps) \in Nat /\ DOMAIN ps = 1 .. Len(ps) /\ is \in SUBSET (0 .. Len(ps))
  OBVIOUS
<1>2. Max(is) \in is /\ \A i \in is : i <= Max(is)
  BY <1>1, Maximum
<1> PICK x : x = Max(is)
  OBVIOUS
<1> DEFINE d == ps[x]
           rest == is \ {x}
           some == {i \in is : Names(ps[i])}
           less == {i \in rest : Names(ps[i])}
<1>3. d \in Download /\ rest \in SUBSET DOMAIN ps /\ x \in is
  BY <1>1, <1>2
<1>4. (\E i \in is : IsMp3(ps[i])) <=> (\E i \in rest : IsMp3(ps[i])) \/ IsMp3(d)
  BY <1>3
<1>5. (\E i \in is : ~ IsMp3(ps[i])) <=> (\E i \in rest : ~ IsMp3(ps[i])) \/ ~ IsMp3(d)
  BY <1>3
<1>6. CASE Names(d)
  <2>1. some # {} /\ some \in SUBSET (0 .. Len(ps)) /\ x \in some
    BY <1>1, <1>3, <1>6
  <2>2. Max(some) \in some /\ x <= Max(some)
    BY <1>1, <2>1, Maximum
  <2> PICK y : y = Max(some)
    OBVIOUS
  <2>3. y = x
    BY <1>1, <1>2, <2>2
  <2>4. (IF some = {} THEN o.bitrate ELSE BitrateOf(ps[Max(some)])) = BitrateOf(d)
    BY <2>1, <2>3
  <2>5. With(o, ps, is) =
          [hls |-> o.hls, encrypt |-> o.encrypt, waveform |-> o.waveform, bins |-> o.bins,
           mp3 |-> o.mp3 \/ (\E i \in is : IsMp3(ps[i])),
           flac |-> o.flac \/ (\E i \in is : ~ IsMp3(ps[i])),
           bitrate |-> BitrateOf(d)]
    BY <2>4 DEF With
  <2> HIDE DEF d, rest
  <2>6. /\ With(o, ps, rest).hls = o.hls /\ With(o, ps, rest).encrypt = o.encrypt
        /\ With(o, ps, rest).waveform = o.waveform /\ With(o, ps, rest).bins = o.bins
        /\ With(o, ps, rest).mp3 = (o.mp3 \/ \E i \in rest : IsMp3(ps[i]))
        /\ With(o, ps, rest).flac = (o.flac \/ \E i \in rest : ~ IsMp3(ps[i]))
    BY DEF With
  <2>7. With(o, ps, is) = ApplyDownload(With(o, ps, rest), d)
    <3>1. With(o, ps, rest) \in Options
      BY <1>3, WithType
    <3> PICK r : r = With(o, ps, rest)
      OBVIOUS
    <3>2. ApplyDownload(r, d) =
            [hls |-> r.hls, encrypt |-> r.encrypt, waveform |-> r.waveform, bins |-> r.bins,
             mp3 |-> r.mp3 \/ IsMp3(d), flac |-> r.flac \/ ~ IsMp3(d),
             bitrate |-> BitrateOf(d)]
      BY <1>3, <1>6, <3>1, ApplyIs
    <3> QED BY <1>4, <1>5, <2>5, <2>6, <3>2
  <2> QED BY <1>3, <2>7 DEF d, rest
<1>7. CASE ~ Names(d)
  <2>1. some = less
    BY <1>3, <1>7
  <2> PICK b : b = IF some = {} THEN o.bitrate ELSE BitrateOf(ps[Max(some)])
    OBVIOUS
  <2>2. With(o, ps, is) =
          [hls |-> o.hls, encrypt |-> o.encrypt, waveform |-> o.waveform, bins |-> o.bins,
           mp3 |-> o.mp3 \/ (\E i \in is : IsMp3(ps[i])),
           flac |-> o.flac \/ (\E i \in is : ~ IsMp3(ps[i])), bitrate |-> b]
    BY DEF With
  <2>3. With(o, ps, rest).bitrate = b
    BY <2>1 DEF With
  <2> HIDE DEF d, rest, some, less
  <2>4. /\ With(o, ps, rest).hls = o.hls /\ With(o, ps, rest).encrypt = o.encrypt
        /\ With(o, ps, rest).waveform = o.waveform /\ With(o, ps, rest).bins = o.bins
        /\ With(o, ps, rest).mp3 = (o.mp3 \/ \E i \in rest : IsMp3(ps[i]))
        /\ With(o, ps, rest).flac = (o.flac \/ \E i \in rest : ~ IsMp3(ps[i]))
    BY DEF With
  <2>5. With(o, ps, is) = ApplyDownload(With(o, ps, rest), d)
    <3>1. With(o, ps, rest) \in Options
      BY <1>3, WithType
    <3> PICK r : r = With(o, ps, rest)
      OBVIOUS
    <3>2. ApplyDownload(r, d) =
            [hls |-> r.hls, encrypt |-> r.encrypt, waveform |-> r.waveform, bins |-> r.bins,
             mp3 |-> r.mp3 \/ IsMp3(d), flac |-> r.flac \/ ~ IsMp3(d), bitrate |-> r.bitrate]
      BY <1>3, <1>7, <3>1, ApplyIs
    <3> QED BY <1>4, <1>5, <2>2, <2>3, <2>4, <3>2
  <2> QED BY <1>3, <2>5 DEF d, rest
<1> QED BY <1>6, <1>7

\* FoldLeft goes through all of them.
LEMMA FoldIs ==
  ASSUME NEW o \in Options, NEW ps \in Seq(Download)
  PROVE  FoldLeft(ApplyDownload, o, ps) = With(o, ps, DOMAIN ps)
<1> DEFINE D == DOMAIN ps
           F == [s \in SUBSET D |-> With(o, ps, s)]
           iter == CHOOSE f : f = [s \in SUBSET D |->
                     IF s = {} THEN o ELSE ApplyDownload(f[s \ {Max(s)}], ps[Max(s)])]
<1>1. FoldLeft(ApplyDownload, o, ps) = iter[D]
  BY DEF FoldLeft, MapThenFoldSet
<1>2. With(o, ps, {}) = o
  <2>1. {i \in {} : Names(ps[i])} = {}
    OBVIOUS
  <2>2. With(o, ps, {}) = [hls |-> o.hls, encrypt |-> o.encrypt, waveform |-> o.waveform,
                           bins |-> o.bins, mp3 |-> o.mp3, flac |-> o.flac, bitrate |-> o.bitrate]
    BY <2>1 DEF With, Options
  <2> QED BY <2>2, OptionsAre
<1>3. F = [s \in SUBSET D |-> IF s = {} THEN o ELSE ApplyDownload(F[s \ {Max(s)}], ps[Max(s)])]
  <2>1. ASSUME NEW s \in SUBSET D
        PROVE  With(o, ps, s) = IF s = {} THEN o ELSE ApplyDownload(F[s \ {Max(s)}], ps[Max(s)])
    <3>1. CASE s = {}
      BY <1>2, <3>1
    <3>2. CASE s # {}
      <4>1. /\ s \ {Max(s)} \in SUBSET D
            /\ With(o, ps, s) = ApplyDownload(With(o, ps, s \ {Max(s)}), ps[Max(s)])
        BY <3>2, WithLast
      <4>2. F[s \ {Max(s)}] = With(o, ps, s \ {Max(s)})
        BY <4>1
      <4> HIDE DEF F
      <4> QED BY <3>2, <4>1, <4>2
    <3> QED BY <3>1, <3>2
  <2> QED BY <2>1
<1>4. iter = [s \in SUBSET D |->
                IF s = {} THEN o ELSE ApplyDownload(iter[s \ {Max(s)}], ps[Max(s)])]
  <2> HIDE DEF F
  <2> QED BY <1>3
<1> HIDE DEF iter
<1> DEFINE Same(n) == \A s \in SUBSET D : Cardinality(s) = n => iter[s] = With(o, ps, s)
           T == {n \in Nat : Same(n)}
<1>5. IsFiniteSet(D)
  <2>1. D = 1 .. Len(ps) /\ Len(ps) \in Nat
    OBVIOUS
  <2> QED BY <2>1, FS_Interval
<1>6. \A s \in SUBSET D : IsFiniteSet(s) /\ Cardinality(s) \in Nat
  BY <1>5, FS_Subset, FS_CardinalityType
<1>7. Same(0)
  <2> TAKE s \in SUBSET D
  <2> HAVE Cardinality(s) = 0
  <2>1. s = {}
    BY <1>6, FS_EmptySet
  <2> QED BY <1>2, <1>4, <2>1
<1>8. ASSUME NEW n \in Nat, Same(n) PROVE Same(n + 1)
  <2> TAKE s \in SUBSET D
  <2> HAVE Cardinality(s) = n + 1
  <2>1. IsFiniteSet(s) /\ s # {}
    BY <1>6, FS_EmptySet
  <2> DEFINE x == Max(s)
             rest == s \ {x}
  <2>2. x \in s /\ rest \in SUBSET D /\ With(o, ps, s) = ApplyDownload(With(o, ps, rest), ps[x])
    BY <2>1, WithLast
  <2>3. iter[s] = ApplyDownload(iter[rest], ps[x])
    BY <1>4, <2>1
  <2> HIDE DEF x
  <2>4. Cardinality(rest) = n
    <3>1. Cardinality(rest) = Cardinality(s) - 1
      BY <2>1, <2>2, FS_RemoveElement
    <3> QED BY <3>1
  <2>5. iter[rest] = With(o, ps, rest)
    BY <1>8, <2>2, <2>4
  <2> QED BY <2>2, <2>3, <2>5
<1>9. Nat \subseteq T
  <2> HIDE DEF Same
  <2>1. 0 \in T /\ \A n \in Nat : n \in T => n + 1 \in T
    BY <1>7, <1>8
  <2> HIDE DEF T
  <2> QED BY <2>1, Induction
<1>10. Cardinality(D) \in T
  BY <1>6, <1>9
<1>11. iter[D] = With(o, ps, D)
  BY <1>10
<1> QED BY <1>1, <1>11
-----------------------------------------------------------------------------

(* Audio requests. *)

\* Options before the downloads.
Base(p) == [hls |-> p.package.state = "on",
            encrypt |-> p.package.state = "on" /\ p.package.encrypt,
            mp3 |-> FALSE, flac |-> FALSE, bitrate |-> "unset",
            waveform |-> p.waveform.state = "on",
            bins |-> IF p.waveform.state = "on" /\ p.waveform.bins > 0 THEN p.waveform.bins ELSE 0]

LEMMA AudioOptionsAre ==
  ASSUME NEW p \in AudioPipeline
  PROVE  /\ Base(p) \in Options /\ p.downloads \in Seq(Download) /\ p.package \in Package
         /\ AudioOptions(p) \in Options
         /\ AudioOptions(p) = With(Base(p), p.downloads, DOMAIN p.downloads)
<1>1. p.waveform \in Waveform /\ p.package \in Package /\ p.downloads \in Seq(Download)
  BY DEF AudioPipeline
<1>2. p.waveform.bins \in Int
  BY <1>1 DEF Waveform
<1>3. p.package.encrypt \in BOOLEAN
  BY <1>1 DEF Package
<1>4. Base(p) \in Options
  <2>1. (IF p.waveform.state = "on" /\ p.waveform.bins > 0 THEN p.waveform.bins ELSE 0) \in Int
    BY <1>2
  <2> QED BY <1>3, <2>1 DEF Base, Options
<1>5. AudioOptions(p) = FoldLeft(ApplyDownload, Base(p), p.downloads)
  BY DEF AudioOptions, Base
<1> QED BY <1>1, <1>4, <1>5, FoldIs, WithType

\* What Defaulted makes of options.
LEMMA DefaultedIs ==
  ASSUME NEW o \in Options
  PROVE  LET all == ~ (o.hls \/ o.mp3 \/ o.flac \/ o.waveform)
             r == Defaulted(o)
         IN  /\ r \in Options /\ r.encrypt = o.encrypt
             /\ r.hls = (o.hls \/ all) /\ r.mp3 = (o.mp3 \/ all)
             /\ r.flac = (o.flac \/ all) /\ r.waveform = (o.waveform \/ all)
             /\ r.bins = IF ~ r.waveform THEN 0 ELSE IF o.bins <= 0 THEN 2048 ELSE o.bins
             /\ r.bitrate = IF ~ r.mp3 THEN "unset"
                            ELSE IF o.bitrate = "unset" THEN "320k" ELSE o.bitrate
<1> DEFINE all == ~ (o.hls \/ o.mp3 \/ o.flac \/ o.waveform)
           f == [o EXCEPT !.hls = @ \/ all, !.mp3 = @ \/ all, !.flac = @ \/ all, !.waveform = @ \/ all]
           bins == CASE ~ f.waveform -> 0 [] f.waveform /\ f.bins <= 0 -> 2048 [] OTHER -> f.bins
           rate == CASE ~ f.mp3 -> "unset" [] f.mp3 /\ f.bitrate = "unset" -> "320k"
                     [] OTHER -> f.bitrate
<1>1. Defaulted(o) = [f EXCEPT !.bins = bins, !.bitrate = rate]
  BY DEF Defaulted
<1>2. /\ f \in Options /\ f.encrypt = o.encrypt /\ f.bins = o.bins /\ f.bitrate = o.bitrate
      /\ f.hls = (o.hls \/ all) /\ f.mp3 = (o.mp3 \/ all)
      /\ f.flac = (o.flac \/ all) /\ f.waveform = (o.waveform \/ all)
  BY DEF Options
<1>3. o.bins \in Int /\ o.bitrate \in {"unset", "128k", "320k"}
  BY DEF Options
<1> HIDE DEF all, f
<1>4. /\ bins = IF ~ f.waveform THEN 0 ELSE IF o.bins <= 0 THEN 2048 ELSE o.bins
      /\ bins \in Int
  BY <1>2, <1>3
<1>5. /\ rate = IF ~ f.mp3 THEN "unset" ELSE IF o.bitrate = "unset" THEN "320k" ELSE o.bitrate
      /\ rate \in {"unset", "128k", "320k"}
  BY <1>2, <1>3
<1> HIDE DEF bins, rate
<1>6. /\ Defaulted(o) \in Options /\ Defaulted(o).bins = bins /\ Defaulted(o).bitrate = rate
      /\ Defaulted(o).hls = f.hls /\ Defaulted(o).encrypt = f.encrypt
      /\ Defaulted(o).mp3 = f.mp3 /\ Defaulted(o).flac = f.flac
      /\ Defaulted(o).waveform = f.waveform
  BY <1>1, <1>2, <1>4, <1>5 DEF Options
<1> QED BY <1>2, <1>4, <1>5, <1>6 DEF all

\* Canonical options are their own canonical form.
LEMMA DefaultedTwice ==
  ASSUME NEW o \in Options
  PROVE  Defaulted(Defaulted(o)) = Defaulted(o)
<1> PICK r : r = Defaulted(o)
  OBVIOUS
<1> PICK q : q = Defaulted(r)
  OBVIOUS
<1>1. /\ r \in Options /\ (r.hls \/ r.mp3 \/ r.flac \/ r.waveform)
      /\ IF r.waveform THEN r.bins > 0 ELSE r.bins = 0
      /\ IF r.mp3 THEN r.bitrate # "unset" ELSE r.bitrate = "unset"
  <2>1. o.bins \in Int
    BY DEF Options
  <2> PICK all : all = ~ (o.hls \/ o.mp3 \/ o.flac \/ o.waveform)
    OBVIOUS
  <2>2. /\ r \in Options
        /\ r.hls = (o.hls \/ all) /\ r.mp3 = (o.mp3 \/ all)
        /\ r.flac = (o.flac \/ all) /\ r.waveform = (o.waveform \/ all)
        /\ r.bins = IF ~ r.waveform THEN 0 ELSE IF o.bins <= 0 THEN 2048 ELSE o.bins
        /\ r.bitrate = IF ~ r.mp3 THEN "unset"
                       ELSE IF o.bitrate = "unset" THEN "320k" ELSE o.bitrate
    BY DefaultedIs
  <2>3. r.hls \/ r.mp3 \/ r.flac \/ r.waveform
    BY <2>2
  <2>4. IF r.waveform THEN r.bins > 0 ELSE r.bins = 0
    BY <2>1, <2>2
  <2>5. IF r.mp3 THEN r.bitrate # "unset" ELSE r.bitrate = "unset"
    BY <2>2
  <2> QED BY <2>2, <2>3, <2>4, <2>5
<1>2. /\ q \in Options /\ q.encrypt = r.encrypt /\ q.hls = r.hls /\ q.mp3 = r.mp3
      /\ q.flac = r.flac /\ q.waveform = r.waveform
      /\ q.bins = IF ~ r.waveform THEN 0 ELSE IF r.bins <= 0 THEN 2048 ELSE r.bins
      /\ q.bitrate = IF ~ r.mp3 THEN "unset"
                     ELSE IF r.bitrate = "unset" THEN "320k" ELSE r.bitrate
  <2>1. {r.hls, r.mp3, r.flac, r.waveform} \subseteq BOOLEAN
    BY <1>1 DEF Options
  <2> QED BY <1>1, <2>1, DefaultedIs
<1>3. r.bins \in Int
  BY <1>1 DEF Options
<1>4. q.bins = r.bins /\ q.bitrate = r.bitrate
  BY <1>1, <1>2, <1>3
<1> QED BY <1>1, <1>2, <1>4, OptionsAre

\* The options of an accepted pipeline are enqueued as they are.
LEMMA EnqueuedAsStored ==
  ASSUME NEW p \in AudioPipeline, AudioAccepted(p)
  PROVE  EnqueuedAudio(Defaulted(AudioOptions(p))) = Defaulted(AudioOptions(p))
<1> PICK o : o = Defaulted(AudioOptions(p))
  OBVIOUS
<1>1. AudioOptions(p) \in Options
  BY AudioOptionsAre
<1>2. o \in Options /\ Defaulted(o) = o
  BY <1>1, DefaultedIs, DefaultedTwice
<1>3. o.encrypt => o.hls /\ ~ o.mp3 /\ ~ o.flac
  BY DEF AudioAccepted
<1>4. CASE o.encrypt
  <2>1. o.hls = TRUE /\ o.mp3 = FALSE /\ o.flac = FALSE
    BY <1>2, <1>3, <1>4 DEF Options
  <2>2. [o EXCEPT !.hls = TRUE, !.mp3 = FALSE, !.flac = FALSE] = o
    BY <1>2, <2>1 DEF Options
  <2> QED BY <1>2, <1>4, <2>2 DEF EnqueuedAudio
<1>5. CASE ~ o.encrypt
  BY <1>2, <1>5 DEF EnqueuedAudio
<1> QED BY <1>4, <1>5

\* The canonical options are what the pipeline asks for in its own terms.
LEMMA WorkIs ==
  ASSUME NEW p \in AudioPipeline, AudioWellFormed(p)
  PROVE  Defaulted(AudioOptions(p)) = AudioWork(p)
<1> DEFINE ps == p.downloads
           mp3s == {i \in DOMAIN ps : "mp3" = ps[i].format \/ ps[i].profile = "download_mp3_high"}
           named(i) == ps[i].profile # "unset" \/ ps[i].bitrate # "unset"
           chosen == {i \in mp3s : named(i)}
           parts == (IF p.package.state = "on" THEN {"hls"} ELSE {})
                    \cup (IF mp3s # {} THEN {"mp3"} ELSE {})
                    \cup (IF mp3s # DOMAIN ps THEN {"flac"} ELSE {})
                    \cup (IF p.waveform.state = "on" THEN {"waveform"} ELSE {})
           does == IF parts = {} THEN {"hls", "mp3", "flac", "waveform"} ELSE parts
           last == ps[Max(chosen)]
           bins == CASE "waveform" \notin does -> 0
                     [] p.waveform.state = "on" /\ p.waveform.bins > 0 -> p.waveform.bins
                     [] OTHER -> 2048
           rate == IF "mp3" \notin does THEN "unset"
                   ELSE IF chosen = {} \/ last.profile # "unset" THEN "320k" ELSE last.bitrate
           w == [hls |-> "hls" \in does, mp3 |-> "mp3" \in does, flac |-> "flac" \in does,
                 waveform |-> "waveform" \in does,
                 encrypt |-> p.package.state = "on" /\ p.package.encrypt,
                 bins |-> bins, bitrate |-> rate]
<1>1. AudioWork(p) = w
  BY DEF AudioWork
<1> PICK o : o = AudioOptions(p)
  OBVIOUS
<1> PICK r : r = Defaulted(o)
  OBVIOUS
<1>2. /\ o \in Options /\ o = With(Base(p), ps, DOMAIN ps)
      /\ ps \in Seq(Download)
  BY AudioOptionsAre
<1>3. ASSUME NEW i \in DOMAIN ps PROVE i \in mp3s <=> IsMp3(ps[i])
  <2>1. DownloadOK(ps[i]) /\ ps[i] \in Download
    BY <1>2, <1>3 DEF AudioWellFormed
  <2>2. ps[i].profile \in {"unset", "download_mp3_high", "download_flac_standard", "other"}
    BY <2>1 DEF Download
  <2>3. ps[i].profile = "download_flac_standard" => ps[i].format # "mp3"
    BY <2>1 DEF DownloadOK
  <2>4. ps[i].profile # "other"
    BY <2>1 DEF DownloadOK
  <2> QED BY <2>2, <2>3, <2>4 DEF IsMp3
<1>4. mp3s = {i \in DOMAIN ps : IsMp3(ps[i])}
  BY <1>3
<1>5. chosen = {i \in DOMAIN ps : Names(ps[i])}
  BY <1>4 DEF Names
<1>6. /\ o.hls = (p.package.state = "on")
      /\ o.encrypt = (p.package.state = "on" /\ p.package.encrypt)
      /\ o.waveform = (p.waveform.state = "on")
      /\ o.bins = IF p.waveform.state = "on" /\ p.waveform.bins > 0 THEN p.waveform.bins ELSE 0
      /\ o.mp3 = (\E i \in DOMAIN ps : IsMp3(ps[i]))
      /\ o.flac = (\E i \in DOMAIN ps : ~ IsMp3(ps[i]))
      /\ o.bitrate = IF chosen = {} THEN "unset" ELSE BitrateOf(last)
  <2> DEFINE names == {i \in DOMAIN ps : Names(ps[i])}
  <2>1. /\ o.hls = Base(p).hls /\ o.encrypt = Base(p).encrypt /\ o.waveform = Base(p).waveform
        /\ o.bins = Base(p).bins
        /\ o.mp3 = (Base(p).mp3 \/ \E i \in DOMAIN ps : IsMp3(ps[i]))
        /\ o.flac = (Base(p).flac \/ \E i \in DOMAIN ps : ~ IsMp3(ps[i]))
        /\ o.bitrate = IF names = {} THEN Base(p).bitrate ELSE BitrateOf(ps[Max(names)])
    <3> HIDE DEF chosen
    <3> QED BY <1>2 DEF With
  <2>2. names = chosen
    BY <1>5
  <2> HIDE DEF names, chosen, mp3s
  <2> QED BY <2>1, <2>2 DEF Base
<1>7. o.mp3 = (mp3s # {}) /\ o.flac = (mp3s # DOMAIN ps)
  BY <1>4, <1>6
<1> HIDE DEF mp3s
<1>8. /\ ("hls" \in parts <=> o.hls) /\ ("mp3" \in parts <=> o.mp3)
      /\ ("flac" \in parts <=> o.flac) /\ ("waveform" \in parts <=> o.waveform)
      /\ (parts = {} <=> ~ (o.hls \/ o.mp3 \/ o.flac \/ o.waveform))
  BY <1>6, <1>7
<1> HIDE DEF parts
<1> PICK all : all = ~ (o.hls \/ o.mp3 \/ o.flac \/ o.waveform)
  OBVIOUS
<1>9. /\ ("hls" \in does <=> o.hls \/ all) /\ ("mp3" \in does <=> o.mp3 \/ all)
      /\ ("flac" \in does <=> o.flac \/ all) /\ ("waveform" \in does <=> o.waveform \/ all)
  BY <1>8
<1>10. /\ r \in Options /\ r.encrypt = o.encrypt
       /\ r.hls = (o.hls \/ all) /\ r.mp3 = (o.mp3 \/ all)
       /\ r.flac = (o.flac \/ all) /\ r.waveform = (o.waveform \/ all)
       /\ r.bins = IF ~ r.waveform THEN 0 ELSE IF o.bins <= 0 THEN 2048 ELSE o.bins
       /\ r.bitrate = IF ~ r.mp3 THEN "unset"
                      ELSE IF o.bitrate = "unset" THEN "320k" ELSE o.bitrate
  BY <1>2, DefaultedIs
<1>91. (r.waveform <=> "waveform" \in does) /\ (r.mp3 <=> "mp3" \in does)
  BY <1>9, <1>10
<1>92. (p.waveform.state = "on" <=> o.waveform) /\ (o.waveform => "waveform" \in does)
  BY <1>6, <1>9
<1> HIDE DEF does
<1>11. r.bins = bins
  <2>1. p.waveform.bins \in Int
    BY DEF AudioPipeline, Waveform
  <2>2. r.bins = IF ~ r.waveform THEN 0 ELSE IF o.bins <= 0 THEN 2048 ELSE o.bins
    BY <1>10
  <2>3. o.bins = IF o.waveform /\ p.waveform.bins > 0 THEN p.waveform.bins ELSE 0
    BY <1>6
  <2> QED BY <1>91, <1>92, <2>1, <2>2, <2>3
<1>12. r.bitrate = rate
  <2>1. CASE chosen = {}
    <3>1. o.bitrate = "unset"
      BY <1>6, <2>1
    <3> QED BY <1>10, <1>91, <2>1, <3>1
  <2>2. CASE chosen # {}
    <3>1. /\ Max(chosen) \in chosen
      <4>1. Len(ps) \in Nat /\ DOMAIN ps = 1 .. Len(ps) /\ chosen \in SUBSET (0 .. Len(ps))
        BY <1>2, <1>5
      <4> QED BY <2>2, <4>1, Maximum
    <3> HIDE DEF chosen
    <3>2. Names(last)
      BY <1>5, <3>1
    <3>3. BitrateOf(last) # "unset"
      BY <3>2 DEF Names, BitrateOf
    <3>4. o.bitrate = BitrateOf(last)
      BY <1>6, <2>2
    <3>5. BitrateOf(last) = IF last.profile # "unset" THEN "320k" ELSE last.bitrate
      BY DEF BitrateOf
    <3> HIDE DEF last
    <3>6. r.bitrate = IF ~ r.mp3 THEN "unset" ELSE o.bitrate
      BY <1>10, <3>3, <3>4
    <3> QED BY <1>91, <2>2, <3>4, <3>5, <3>6
  <2> QED BY <2>1, <2>2
<1> HIDE DEF bins, rate
<1>13. r = [hls |-> r.hls, encrypt |-> r.encrypt, waveform |-> r.waveform, bins |-> r.bins,
            mp3 |-> r.mp3, flac |-> r.flac, bitrate |-> r.bitrate]
  BY <1>10, OptionsAre
<1>14. /\ r.hls = ("hls" \in does) /\ r.mp3 = ("mp3" \in does)
       /\ r.flac = ("flac" \in does) /\ r.waveform = ("waveform" \in does)
       /\ r.encrypt = (p.package.state = "on" /\ p.package.encrypt)
  <2>1. {r.hls, r.mp3, r.flac, r.waveform} \subseteq BOOLEAN
    BY <1>10 DEF Options
  <2>2. /\ (r.hls <=> "hls" \in does) /\ (r.mp3 <=> "mp3" \in does)
        /\ (r.flac <=> "flac" \in does) /\ (r.waveform <=> "waveform" \in does)
    BY <1>9, <1>10
  <2>3. r.encrypt = (p.package.state = "on" /\ p.package.encrypt)
    BY <1>6, <1>10
  <2>4. r.hls = ("hls" \in does) /\ r.mp3 = ("mp3" \in does)
    BY <2>1, <2>2
  <2>5. r.flac = ("flac" \in does) /\ r.waveform = ("waveform" \in does)
    BY <2>1, <2>2
  <2> QED BY <2>3, <2>4, <2>5
<1>15. r = w
  BY <1>11, <1>12, <1>13, <1>14
<1> QED BY <1>1, <1>15
-----------------------------------------------------------------------------

(* Video requests. *)

Stages == {"cover", "preview", "transcode"}
Setting == {"nil", "none", "zero", "tuned", "encrypt"}
StageOptions == [cover : Setting, preview : Setting, transcode : Setting]

LEMMA DeliverablesAre ==
  ASSUME NEW p
  PROVE  /\ Deliverables(p) \subseteq {"cover", "preview", "hls"}
         /\ "cover" \in Deliverables(p) <=> p.cover.state = "on"
         /\ "preview" \in Deliverables(p) <=> p.preview.state = "on"
         /\ "hls" \in Deliverables(p) <=> p.package.state = "on"
BY DEF Deliverables

Tidy(x) == IF x = "zero" THEN "nil" ELSE x

LEMMA FullIs ==
  ASSUME NEW o \in StageOptions
  PROVE  /\ FullCanonical(o) = [cover |-> Tidy(o.cover), preview |-> Tidy(o.preview),
                                transcode |-> Tidy(o.transcode)]
         /\ FullCanonical(o) \in StageOptions
         /\ FullCanonical(FullCanonical(o)) = FullCanonical(o)
<1> PICK f : f = FullCanonical(o)
  OBVIOUS
<1>1. f = [cover |-> Tidy(o.cover), preview |-> Tidy(o.preview), transcode |-> Tidy(o.transcode)]
  BY DEF FullCanonical, StageOptions, Tidy
<1>2. {Tidy(o.cover), Tidy(o.preview), Tidy(o.transcode)} \subseteq Setting \ {"zero"}
  BY DEF StageOptions, Setting, Tidy
<1>3. FullCanonical(f) = f
  BY <1>1, <1>2 DEF FullCanonical, Tidy
<1>4. f \in StageOptions
  BY <1>1, <1>2 DEF StageOptions
<1> QED BY <1>1, <1>3, <1>4

LEMMA VideoRequestType ==
  ASSUME NEW p \in VideoPipeline
  PROVE  /\ VideoRequest(p).type \in {"video:full", "video:cover", "video:preview", "video:transcode"}
         /\ VideoRequest(p).options \in StageOptions
         /\ VideoRequest(p) = [type |-> VideoRequest(p).type, options |-> VideoRequest(p).options]
<1>1. p.cover \in Stage /\ p.preview \in Stage /\ p.package \in Package
  BY DEF VideoPipeline
<1>2. p.cover.settings \in {"zero", "tuned"} /\ p.preview.settings \in {"zero", "tuned"}
  BY <1>1 DEF Stage
<1>3. Encryption(p) \in {"encrypt", "zero"}
  BY DEF Encryption
<1> QED BY <1>2, <1>3 DEF VideoRequest, StageOptions, Setting

LEMMA CanonicalIs ==
  ASSUME NEW p \in VideoPipeline
  PROVE  LET r == VideoRequest(p)
             c == Canonical(r)
         IN  /\ c = [type |-> r.type,
                     options |-> IF r.type = "video:full" THEN FullCanonical(r.options) ELSE r.options]
             /\ Canonical(c) = c /\ Payload(c) = c.options
<1> PICK r : r = VideoRequest(p)
  OBVIOUS
<1>1. /\ r.type \in {"video:full", "video:cover", "video:preview", "video:transcode"}
      /\ r.options \in StageOptions /\ r = [type |-> r.type, options |-> r.options]
  BY VideoRequestType
<1>2. CASE r.type = "video:full"
  <2> PICK f : f = FullCanonical(r.options)
    OBVIOUS
  <2>1. FullCanonical(f) = f
    BY <1>1, FullIs
  <2> PICK c : c = [type |-> "video:full", options |-> f]
    OBVIOUS
  <2>2. Canonical(r) = c
    BY <1>1, <1>2 DEF Canonical
  <2>3. Canonical(c) = c /\ Payload(c) = f
    BY <2>1 DEF Canonical, Payload
  <2> QED BY <1>2, <2>2, <2>3
<1>3. CASE r.type # "video:full"
  <2>1. Canonical(r) = r /\ Payload(r) = r.options
    BY <1>1, <1>3 DEF Canonical, Payload
  <2> QED BY <1>1, <1>3, <2>1
<1> QED BY <1>2, <1>3

\* What an accepted pipeline is, by its deliverables.
LEMMA AcceptedIs ==
  ASSUME NEW p \in VideoPipeline, VideoAccepted(p)
  PROVE  /\ p.transcode = FALSE /\ p.downloads = FALSE
         /\ \/ /\ IsDefault(p) /\ p.cover.state = "absent" /\ p.preview.state = "absent"
               /\ p.package.state = "absent"
            \/ /\ ~ IsDefault(p)
               /\ \/ p.cover.state = "on" /\ p.preview.state # "on" /\ p.package.state # "on"
                  \/ p.cover.state # "on" /\ p.preview.state = "on" /\ p.package.state # "on"
                  \/ p.cover.state # "on" /\ p.preview.state # "on" /\ p.package.state = "on"
                  \/ p.cover.state = "on" /\ p.preview.state = "on" /\ p.package.state = "on"
<1>1. p.transcode \in BOOLEAN /\ p.downloads \in BOOLEAN
  BY DEF VideoPipeline
<1>2. CASE IsDefault(p)
  BY <1>1, <1>2 DEF IsDefault
<1>3. CASE ~ IsDefault(p)
  <2>1. /\ ~ p.transcode /\ ~ p.downloads
        /\ Deliverables(p) \in {{"cover"}, {"preview"}, {"hls"}, {"cover", "preview", "hls"}}
    BY <1>3 DEF VideoAccepted
  <2> QED BY <1>1, <1>3, <2>1, DeliverablesAre
<1> QED BY <1>2, <1>3


\* The request of a pipeline, by its deliverables.
Only(c, v, t) == [cover |-> c, preview |-> v, transcode |-> t]

LEMMA RequestIs ==
  ASSUME NEW p
  PROVE  /\ IsDefault(p) =>
              VideoRequest(p) = [type |-> "video:full", options |-> Only("nil", "nil", "nil")]
         /\ ~ IsDefault(p) =>
            /\ p.cover.state = "on" /\ p.preview.state # "on" /\ p.package.state # "on" =>
                 VideoRequest(p) = [type |-> "video:cover",
                                    options |-> Only(p.cover.settings, "none", "none")]
            /\ p.cover.state # "on" /\ p.preview.state = "on" /\ p.package.state # "on" =>
                 VideoRequest(p) = [type |-> "video:preview",
                                    options |-> Only("none", p.preview.settings, "none")]
            /\ p.cover.state # "on" /\ p.preview.state # "on" /\ p.package.state = "on" =>
                 VideoRequest(p) = [type |-> "video:transcode",
                                    options |-> Only("none", "none", Encryption(p))]
            /\ p.cover.state = "on" /\ p.preview.state = "on" /\ p.package.state = "on" =>
                 VideoRequest(p) = [type |-> "video:full",
                                    options |-> Only(p.cover.settings, p.preview.settings, Encryption(p))]
<1> PICK ds : ds = Deliverables(p)
  OBVIOUS
<1>1. /\ ds \subseteq {"cover", "preview", "hls"}
      /\ "cover" \in ds <=> p.cover.state = "on"
      /\ "preview" \in ds <=> p.preview.state = "on"
      /\ "hls" \in ds <=> p.package.state = "on"
  BY DeliverablesAre
<1>2. ASSUME IsDefault(p)
      PROVE  VideoRequest(p) = [type |-> "video:full", options |-> Only("nil", "nil", "nil")]
  <2>1. ds = {}
    BY <1>1, <1>2 DEF IsDefault
  <2> QED BY <1>2, <2>1 DEF VideoRequest, Only
<1>3. ASSUME ~ IsDefault(p), ds = {"cover"}
      PROVE  VideoRequest(p) = [type |-> "video:cover",
                                options |-> Only(p.cover.settings, "none", "none")]
  BY <1>3 DEF VideoRequest, Only
<1>4. ASSUME ~ IsDefault(p), ds = {"preview"}
      PROVE  VideoRequest(p) = [type |-> "video:preview",
                                options |-> Only("none", p.preview.settings, "none")]
  BY <1>4 DEF VideoRequest, Only
<1>5. ASSUME ~ IsDefault(p), ds = {"hls"}
      PROVE  VideoRequest(p) = [type |-> "video:transcode",
                                options |-> Only("none", "none", Encryption(p))]
  BY <1>5 DEF VideoRequest, Only
<1>6. ASSUME ~ IsDefault(p), ds = {"cover", "preview", "hls"}
      PROVE  VideoRequest(p) = [type |-> "video:full",
                                options |-> Only(p.cover.settings, p.preview.settings, Encryption(p))]
  BY <1>6 DEF VideoRequest, Only
<1>7. /\ p.cover.state = "on" /\ p.preview.state # "on" /\ p.package.state # "on" => ds = {"cover"}
      /\ p.cover.state # "on" /\ p.preview.state = "on" /\ p.package.state # "on" => ds = {"preview"}
      /\ p.cover.state # "on" /\ p.preview.state # "on" /\ p.package.state = "on" => ds = {"hls"}
      /\ p.cover.state = "on" /\ p.preview.state = "on" /\ p.package.state = "on" =>
           ds = {"cover", "preview", "hls"}
  BY <1>1
<1> QED BY <1>2, <1>3, <1>4, <1>5, <1>6, <1>7

\* A part of an accepted full job, asked for directly.
LEMMA PartIs ==
  ASSUME NEW p \in VideoPipeline, VideoAccepted(p), VideoRequest(p).type = "video:full", NEW t \in Parts
  PROVE  /\ VideoAccepted(Alone(t, p))
         /\ VideoRequest(Alone(t, p)) = PartRequest(t, FullCanonical(VideoRequest(p).options))
<1> DEFINE set(s) == IF IsDefault(p) THEN "zero" ELSE s.settings
           on(s) == [state |-> "on", settings |-> set(s)]
           package == [state |-> IF t = "video:transcode" THEN "on" ELSE "absent",
                       profile |-> "unset", encrypt |-> p.package.encrypt /\ ~ IsDefault(p)]
           cover == IF t = "video:cover" THEN on(p.cover) ELSE Off
           preview == IF t = "video:preview" THEN on(p.preview) ELSE Off
<1> PICK a : a = Alone(t, p)
  OBVIOUS
<1>1. t \in {"video:cover", "video:preview", "video:transcode"}
  BY DEF Parts, TypeOf
<1>2. p.transcode = FALSE /\ p.downloads = FALSE
  BY AcceptedIs
<1>3. /\ a.cover = cover /\ a.preview = preview /\ a.package = package
      /\ a.waveform = "absent" /\ a.normalize = "absent"
      /\ a.transcode = FALSE /\ a.downloads = FALSE
  BY <1>2 DEF Alone, VideoPipeline
<1>4. /\ a.cover.state = "on" <=> t = "video:cover"
      /\ a.preview.state = "on" <=> t = "video:preview"
      /\ a.package.state = "on" <=> t = "video:transcode"
  BY <1>1, <1>3 DEF Off
<1>5. ~ IsDefault(a)
  BY <1>1, <1>4 DEF IsDefault
<1>6. VideoAccepted(a)
  <2>1. Deliverables(a) \in {{"cover"}, {"preview"}, {"hls"}, {"cover", "preview", "hls"}}
    BY <1>1, <1>4, DeliverablesAre
  <2> QED BY <1>3, <2>1 DEF VideoAccepted
<1>7. Encryption(p) \in {"encrypt", "zero"} /\ p.cover.settings \in {"zero", "tuned"}
      /\ p.preview.settings \in {"zero", "tuned"}
  BY DEF VideoPipeline, Stage, Encryption
<1> PICK f : f = FullCanonical(VideoRequest(p).options)
  OBVIOUS
<1>8. /\ f.cover = IF set(p.cover) = "zero" THEN "nil" ELSE set(p.cover)
      /\ f.preview = IF set(p.preview) = "zero" THEN "nil" ELSE set(p.preview)
      /\ f.transcode = IF IsDefault(p) \/ Encryption(p) = "zero" THEN "nil" ELSE Encryption(p)
  <2>1. VideoRequest(p).options \in StageOptions
    BY VideoRequestType
  <2>2. f = [cover |-> Tidy(VideoRequest(p).options.cover),
             preview |-> Tidy(VideoRequest(p).options.preview),
             transcode |-> Tidy(VideoRequest(p).options.transcode)]
    BY <2>1, FullIs
  <2>3. CASE IsDefault(p)
    <3>1. VideoRequest(p).options = Only("nil", "nil", "nil")
      BY <2>3, RequestIs
    <3> QED BY <2>2, <2>3, <3>1 DEF Only, Tidy
  <2>4. CASE ~ IsDefault(p)
    <3>1. VideoRequest(p).options = Only(p.cover.settings, p.preview.settings, Encryption(p))
      <4>1. p.cover.state = "on" /\ p.preview.state = "on" /\ p.package.state = "on"
        <5>1. \/ p.cover.state = "on" /\ p.preview.state # "on" /\ p.package.state # "on"
              \/ p.cover.state # "on" /\ p.preview.state = "on" /\ p.package.state # "on"
              \/ p.cover.state # "on" /\ p.preview.state # "on" /\ p.package.state = "on"
              \/ p.cover.state = "on" /\ p.preview.state = "on" /\ p.package.state = "on"
          BY <2>4, AcceptedIs
        <5>2. VideoRequest(p).type = "video:full"
          OBVIOUS
        <5> QED BY <2>4, <5>1, <5>2, RequestIs
      <4> QED BY <2>4, <4>1, RequestIs
    <3> QED BY <2>2, <2>4, <3>1 DEF Only, Tidy
  <2> QED BY <2>3, <2>4
<1>9. PartRequest(t, f) =
        [type |-> t,
         options |-> Only(IF t # "video:cover" THEN "none" ELSE IF f.cover = "nil" THEN "zero" ELSE f.cover,
                          IF t # "video:preview" THEN "none" ELSE IF f.preview = "nil" THEN "zero" ELSE f.preview,
                          IF t # "video:transcode" THEN "none"
                          ELSE IF f.transcode = "nil" THEN "zero" ELSE f.transcode)]
  BY DEF PartRequest, TypeOf, Only
<1>10. set(p.cover) \in {"zero", "tuned"} /\ set(p.preview) \in {"zero", "tuned"}
  BY <1>7
<1> HIDE DEF set
<1>11. CASE t = "video:cover"
  <2>1. VideoRequest(a) = [type |-> t, options |-> Only(a.cover.settings, "none", "none")]
    BY <1>4, <1>5, <1>11, RequestIs
  <2>2. a.cover.settings = set(p.cover)
    BY <1>3, <1>11
  <2> QED BY <1>6, <1>8, <1>9, <1>10, <1>11, <2>1, <2>2
<1>12. CASE t = "video:preview"
  <2>1. VideoRequest(a) = [type |-> t, options |-> Only("none", a.preview.settings, "none")]
    BY <1>4, <1>5, <1>12, RequestIs
  <2>2. a.preview.settings = set(p.preview)
    BY <1>3, <1>12
  <2> QED BY <1>6, <1>8, <1>9, <1>10, <1>12, <2>1, <2>2
<1>13. CASE t = "video:transcode"
  <2>1. VideoRequest(a) = [type |-> t, options |-> Only("none", "none", Encryption(a))]
    BY <1>4, <1>5, <1>13, RequestIs
  <2>2. Encryption(a) = IF IsDefault(p) THEN "zero" ELSE Encryption(p)
    <3>1. a.package.encrypt = (p.package.encrypt /\ ~ IsDefault(p))
      BY <1>3
    <3>2. p.package.encrypt \in BOOLEAN
      BY DEF VideoPipeline, Package
    <3> HIDE DEF package, cover, preview
    <3> QED BY <3>1, <3>2 DEF Encryption
  <2> QED BY <1>6, <1>7, <1>8, <1>9, <1>13, <2>1, <2>2
<1> QED BY <1>1, <1>11, <1>12, <1>13

\* A video pipeline is as good as one that only says what is to be done.
PlainStage(p, d, s) ==
  IF d \in Deliverables(p) \/ IsDefault(p)
    THEN [state |-> "on", settings |-> IF IsDefault(p) THEN "zero" ELSE s.settings]
    ELSE Off
PlainPipeline(p) ==
  [p EXCEPT !.analyze = FALSE, !.outputs = FALSE, !.waveform = "absent", !.normalize = "absent",
            !.cover = PlainStage(p, "cover", @), !.preview = PlainStage(p, "preview", @),
            !.package = [state |-> IF PlainStage(p, "hls", Off) # Off THEN "on" ELSE "absent",
                         profile |-> "unset", encrypt |-> @.encrypt /\ "hls" \in Deliverables(p)]]

LEMMA PlainIs ==
  ASSUME NEW p \in VideoPipeline, VideoAccepted(p)
  PROVE  Canonical(VideoRequest(PlainPipeline(p))) = Canonical(VideoRequest(p))
<1> PICK a : a = PlainPipeline(p)
  OBVIOUS
<1> PICK ds : ds = Deliverables(p)
  OBVIOUS
<1>1. p.transcode = FALSE /\ p.downloads = FALSE
  BY AcceptedIs
<1>2. /\ a.cover = PlainStage(p, "cover", p.cover) /\ a.preview = PlainStage(p, "preview", p.preview)
      /\ a.package.state = IF PlainStage(p, "hls", Off) # Off THEN "on" ELSE "absent"
      /\ a.package.encrypt = (p.package.encrypt /\ "hls" \in ds)
      /\ a.analyze = FALSE /\ a.transcode = FALSE
  BY <1>1 DEF PlainPipeline, VideoPipeline
<1>3. /\ "cover" \in ds <=> p.cover.state = "on"
      /\ "preview" \in ds <=> p.preview.state = "on"
      /\ "hls" \in ds <=> p.package.state = "on"
  BY DeliverablesAre
<1>4. /\ p.cover.settings \in {"zero", "tuned"} /\ p.preview.settings \in {"zero", "tuned"}
      /\ p.package.encrypt \in BOOLEAN
  BY DEF VideoPipeline, Stage, Package
<1>5. /\ a.cover.state = "on" <=> "cover" \in ds \/ IsDefault(p)
      /\ a.preview.state = "on" <=> "preview" \in ds \/ IsDefault(p)
      /\ a.package.state = "on" <=> "hls" \in ds \/ IsDefault(p)
  BY <1>2 DEF PlainStage, Off
<1>6. CASE IsDefault(p)
  <2>1. p.cover.state = "absent" /\ p.preview.state = "absent" /\ p.package.state = "absent"
    BY <1>6, AcceptedIs
  <2>2. a.cover.settings = "zero" /\ a.preview.settings = "zero" /\ Encryption(a) = "zero"
    <3>1. a.package.encrypt = FALSE
      BY <1>2, <1>3, <2>1
    <3>2. a.cover.settings = "zero" /\ a.preview.settings = "zero"
      BY <1>2, <1>6 DEF PlainStage
    <3> QED BY <3>1, <3>2 DEF Encryption
  <2>3. ~ IsDefault(a)
    BY <1>5, <1>6 DEF IsDefault
  <2>4. VideoRequest(a) = [type |-> "video:full", options |-> Only("zero", "zero", "zero")]
    BY <1>5, <1>6, <2>2, <2>3, RequestIs
  <2>5. VideoRequest(p) = [type |-> "video:full", options |-> Only("nil", "nil", "nil")]
    BY <1>6, RequestIs
  <2>6. FullCanonical(Only("zero", "zero", "zero")) = FullCanonical(Only("nil", "nil", "nil"))
    <3>1. Only("zero", "zero", "zero") \in StageOptions /\ Only("nil", "nil", "nil") \in StageOptions
      BY DEF Only, StageOptions, Setting
    <3> QED BY <3>1, FullIs DEF Only, Tidy
  <2> QED BY <2>4, <2>5, <2>6 DEF Canonical
<1>7. CASE ~ IsDefault(p)
  <2>1. \/ p.cover.state = "on" /\ p.preview.state # "on" /\ p.package.state # "on"
        \/ p.cover.state # "on" /\ p.preview.state = "on" /\ p.package.state # "on"
        \/ p.cover.state # "on" /\ p.preview.state # "on" /\ p.package.state = "on"
        \/ p.cover.state = "on" /\ p.preview.state = "on" /\ p.package.state = "on"
    BY <1>7, AcceptedIs
  <2>2. /\ a.cover.state = "on" <=> p.cover.state = "on"
        /\ a.preview.state = "on" <=> p.preview.state = "on"
        /\ a.package.state = "on" <=> p.package.state = "on"
    BY <1>3, <1>5, <1>7
  <2>3. ~ IsDefault(a)
    BY <2>1, <2>2 DEF IsDefault
  <2>4. /\ p.cover.state = "on" => a.cover.settings = p.cover.settings
        /\ p.preview.state = "on" => a.preview.settings = p.preview.settings
        /\ p.package.state = "on" => Encryption(a) = Encryption(p)
    <3>1. p.package.state = "on" => a.package.encrypt = p.package.encrypt
      BY <1>2, <1>3, <1>4
    <3>2. p.cover.state = "on" => a.cover.settings = p.cover.settings
      BY <1>2, <1>3, <1>7 DEF PlainStage
    <3>3. p.preview.state = "on" => a.preview.settings = p.preview.settings
      BY <1>2, <1>3, <1>7 DEF PlainStage
    <3> QED BY <3>1, <3>2, <3>3 DEF Encryption
  <2>5. VideoRequest(a) = VideoRequest(p)
    <3>1. CASE p.cover.state = "on" /\ p.preview.state # "on" /\ p.package.state # "on"
      BY <1>7, <2>2, <2>3, <2>4, <3>1, RequestIs
    <3>2. CASE p.cover.state # "on" /\ p.preview.state = "on" /\ p.package.state # "on"
      BY <1>7, <2>2, <2>3, <2>4, <3>2, RequestIs
    <3>3. CASE p.cover.state # "on" /\ p.preview.state # "on" /\ p.package.state = "on"
      BY <1>7, <2>2, <2>3, <2>4, <3>3, RequestIs
    <3>4. CASE p.cover.state = "on" /\ p.preview.state = "on" /\ p.package.state = "on"
      BY <1>7, <2>2, <2>3, <2>4, <3>4, RequestIs
    <3> QED BY <2>1, <3>1, <3>2, <3>3, <3>4
  <2> QED BY <2>5
<1> QED BY <1>6, <1>7
-----------------------------------------------------------------------------

(* The request at hand. *)

AskedTypeOK ==
  asked \in [kind : {"none"}] \cup [kind : {"audio"}, pipeline : AudioPipelines]
            \cup [kind : {"video"}, pipeline : VideoPipelines]

LEMMA AskedType == RequestSpec => []AskedTypeOK
<1>1. RequestInit => AskedTypeOK
  BY DEF RequestInit, AskedTypeOK
<1>2. AskedTypeOK /\ [RequestNext]_asked => AskedTypeOK'
  BY DEF AskedTypeOK, RequestNext, AskAudio, AskVideo
<1> QED BY <1>1, <1>2, PTL DEF RequestSpec

LEMMA AskedAre ==
  ASSUME AskedTypeOK, Accepted
  PROVE  \/ asked.kind = "audio" /\ asked.pipeline \in AudioPipeline /\ AudioAccepted(asked.pipeline)
         \/ asked.kind = "video" /\ asked.pipeline \in VideoPipeline /\ VideoAccepted(asked.pipeline)
BY PipelinesAssumption DEF AskedTypeOK, Accepted

LEMMA AudioRow ==
  ASSUME asked.kind = "audio"
  PROVE  /\ Row = [type |-> "audio:transcode", options |-> Defaulted(AudioOptions(asked.pipeline))]
         /\ Canonical(Row) = [type |-> "audio:transcode",
                              options |-> Defaulted(Defaulted(AudioOptions(asked.pipeline)))]
         /\ Payload(Row) = EnqueuedAudio(Defaulted(AudioOptions(asked.pipeline)))
<1>1. Row = [type |-> "audio:transcode", options |-> Defaulted(AudioOptions(asked.pipeline))]
  BY DEF Row, Request, Canonical
<1> QED BY <1>1 DEF Canonical, Payload

LEMMA VideoRow ==
  ASSUME asked.kind = "video"
  PROVE  Row = Canonical(VideoRequest(asked.pipeline))
BY DEF Row, Request

\* The row of a job, its fingerprint, a retry of it and the task that is
\* enqueued for it say the same (the canonical forms of request.go and of
\* enqueueTask in handler/job.go), for every pipeline that is accepted.
THEOREM RetriesAreTheSameJob == RequestSpec => []RetryIsSameJob
<1>1. AskedTypeOK => RetryIsSameJob
  <2> SUFFICES ASSUME AskedTypeOK, Accepted
               PROVE  Canonical(Row) = Row /\ Payload(Row) = Row.options
    BY DEF RetryIsSameJob, Fingerprint
  <2> PICK p : p = asked.pipeline
    OBVIOUS
  <2>1. CASE asked.kind = "audio" /\ p \in AudioPipeline /\ AudioAccepted(p)
    <3>1. AudioOptions(p) \in Options
      BY <2>1, AudioOptionsAre
    <3> QED BY <2>1, <3>1, AudioRow, DefaultedTwice, EnqueuedAsStored
  <2>2. CASE asked.kind = "video" /\ p \in VideoPipeline /\ VideoAccepted(p)
    BY <2>2, VideoRow, CanonicalIs
  <2> QED BY <2>1, <2>2, AskedAre
<1> QED BY <1>1, AskedType, PTL

\* A part of a full video job that a retry asks for is the job of a client who
\* asks for this part directly (retryRequestForVideoFull, requestFingerprint).
THEOREM PartsAreDirectRequests == RequestSpec => []PartIsDirectRequest
<1>1. AskedTypeOK => PartIsDirectRequest
  <2> SUFFICES ASSUME AskedTypeOK, Accepted, Row.type = "video:full", NEW t \in Parts
               PROVE  /\ VideoAccepted(Alone(t, asked.pipeline))
                      /\ Fingerprint(Canonical(PartRequest(t, Row.options)))
                           = Fingerprint(Canonical(VideoRequest(Alone(t, asked.pipeline))))
    BY DEF PartIsDirectRequest
  <2> PICK p : p = asked.pipeline
    OBVIOUS
  <2>1. asked.kind = "video" /\ p \in VideoPipeline /\ VideoAccepted(p)
    <3>1. asked.kind # "audio"
      BY AudioRow
    <3> QED BY <3>1, AskedAre
  <2>2. VideoRequest(p).type = "video:full" /\ Row.options = FullCanonical(VideoRequest(p).options)
    <3>1. Row = [type |-> VideoRequest(p).type,
                 options |-> IF VideoRequest(p).type = "video:full"
                               THEN FullCanonical(VideoRequest(p).options)
                               ELSE VideoRequest(p).options]
      BY <2>1, VideoRow, CanonicalIs
    <3> QED BY <3>1
  <2>3. /\ VideoAccepted(Alone(t, p))
        /\ VideoRequest(Alone(t, p)) = PartRequest(t, Row.options)
    BY <2>1, <2>2, PartIs
  <2> QED BY <2>3
<1> QED BY <1>1, AskedType, PTL

\* A job does what was asked for: the downloads of an audio pipeline come to the
\* formats that are named and the bitrate that was named last, nothing asked for
\* is everything, and a video pipeline is no more than its deliverables.
THEOREM WorkIsAsked == RequestSpec => []WorkIsWhatWasAsked
<1>1. AskedTypeOK => WorkIsWhatWasAsked
  <2> SUFFICES ASSUME AskedTypeOK, Accepted PROVE WorkIsWhatWasAsked
    BY DEF WorkIsWhatWasAsked
  <2> PICK p : p = asked.pipeline
    OBVIOUS
  <2>1. CASE asked.kind = "audio" /\ p \in AudioPipeline /\ AudioAccepted(p)
    <3> PICK o : o = Defaulted(AudioOptions(p))
      OBVIOUS
    <3>1. Payload(Row) = o
      BY <2>1, AudioRow, EnqueuedAsStored
    <3>2. o = AudioWork(p)
      BY <2>1, WorkIs DEF AudioAccepted
    <3>3. o.encrypt => ~ o.mp3 /\ ~ o.flac
      BY <2>1 DEF AudioAccepted
    <3> QED BY <2>1, <3>1, <3>2, <3>3 DEF WorkIsWhatWasAsked
  <2>2. CASE asked.kind = "video" /\ p \in VideoPipeline /\ VideoAccepted(p)
    <3>1. Fingerprint(Row) = Fingerprint(Canonical(VideoRequest(PlainPipeline(p))))
      BY <2>2, VideoRow, PlainIs
    <3> QED BY <2>2, <3>1 DEF WorkIsWhatWasAsked, PlainPipeline, PlainStage
  <2> QED BY <2>1, <2>2, AskedAre
<1> QED BY <1>1, AskedType, PTL

-----------------------------------------------------------------------------
(***************************************************************************)
(* The ladder.                                                             *)
(***************************************************************************)

\* The even number next to n / d, before it is cut.
Even(n, d, up) ==
  LET halves == (n + d) \div (2 * d)
  IN  2 * (IF (n + d) % (2 * d) = 0 /\ ~up THEN halves - 1 ELSE halves)

LEMMA EvenIs ==
  ASSUME NEW n \in Nat, NEW d \in Nat \ {0}, NEW up
  PROVE  \E x \in Int : /\ Even(n, d, up) = 2 * x
                        /\ d * (2 * x) <= n + d /\ n - d <= d * (2 * x)
<1> PICK a \in Nat, e \in Nat \ {0} : a = n + d /\ e = 2 * d
  OBVIOUS
<1> PICK q : q = a \div e
  OBVIOUS
<1> PICK m : m = a % e
  OBVIOUS
<1>1. q \in Nat /\ m \in 0 .. e - 1 /\ a = e * q + m
  BY Quotient
<1> PICK x : x = IF m = 0 /\ ~up THEN q - 1 ELSE q
  OBVIOUS
<1>2. Even(n, d, up) = 2 * x /\ x \in Int
  BY <1>1 DEF Even
<1>3. e * q = d * (2 * q) /\ d * (2 * (q - 1)) = d * (2 * q) - e
  <2>1. \A y \in Nat : (2 * d) * y = d * (2 * y) /\ d * (2 * (y - 1)) = d * (2 * y) - 2 * d
    OBVIOUS
  <2>2. (2 * d) * q = d * (2 * q) /\ d * (2 * (q - 1)) = d * (2 * q) - 2 * d
    BY <1>1, <2>1
  <2> QED BY <2>1, <2>2
<1>4. d * (2 * q) \in Int
  BY <1>1
<1>5. d * (2 * x) <= n + d /\ n - d <= d * (2 * x)
  BY <1>1, <1>3, <1>4
<1> QED BY <1>2, <1>5

LEMMA EvenReaches ==
  ASSUME NEW n \in Nat, NEW d \in Nat \ {0}, NEW up, NEW y \in Nat, (2 * y) * d <= n
  PROVE  Even(n, d, up) >= 2 * y
<1>1. PICK x \in Int : Even(n, d, up) = 2 * x /\ n - d <= d * (2 * x)
  BY EvenIs
<1> SUFFICES ASSUME x < y PROVE FALSE
  BY <1>1
<1>2. d * (2 * x) <= d * (2 * (y - 1))
  <2>1. 2 * x <= 2 * (y - 1) /\ 2 * x \in Int /\ 2 * (y - 1) \in Int /\ d \in Nat
    OBVIOUS
  <2> QED BY <2>1, Scaled
<1>3. d * (2 * (y - 1)) = (2 * y) * d - 2 * d
  OBVIOUS
<1>4. (2 * y) * d \in Nat /\ d * (2 * x) \in Int
  OBVIOUS
<1> QED BY <1>1, <1>2, <1>3, <1>4

LEMMA EvenGrows ==
  ASSUME NEW n \in Nat, NEW m \in Nat, NEW d \in Nat \ {0}, NEW up, n <= m
  PROVE  Even(n, d, up) <= Even(m, d, up)
<1>1. PICK x \in Int : Even(n, d, up) = 2 * x /\ d * (2 * x) <= n + d
  BY EvenIs
<1>2. PICK y \in Int : Even(m, d, up) = 2 * y /\ m - d <= d * (2 * y)
  BY EvenIs
<1> SUFFICES ASSUME y < x PROVE FALSE
  BY <1>1, <1>2
<1>3. d * (2 * (y + 1)) <= d * (2 * x) /\ d * (2 * (y + 1)) = d * (2 * y) + 2 * d
  <2>1. 2 * (y + 1) <= 2 * x /\ 2 * x \in Int /\ 2 * (y + 1) \in Int /\ d \in Nat
    OBVIOUS
  <2> QED BY <2>1, Scaled
<1>4. d * (2 * y) \in Int /\ d * (2 * x) \in Int
  OBVIOUS
<1>5. n = m
  BY <1>1, <1>2, <1>3, <1>4
<1> QED BY <1>1, <1>2, <1>5

\* What is cut.
LEMMA EvenAtMostIs ==
  ASSUME NEW v \in Nat
  PROVE  /\ EvenAtMost(v) \in Nat /\ EvenAtMost(v) >= 2 /\ EvenAtMost(v) % 2 = 0
         /\ v >= 2 => EvenAtMost(v) <= v
         /\ v >= 1 => EvenAtMost(v) >= v - 1
         /\ v <= 2 => EvenAtMost(v) = 2
         /\ v >= 2 /\ v % 2 = 0 => EvenAtMost(v) = v
BY DEF EvenAtMost

LEMMA EvenAtMostGrows ==
  ASSUME NEW v \in Nat, NEW u \in Nat, u <= v
  PROVE  EvenAtMost(u) <= EvenAtMost(v)
BY DEF EvenAtMost

LEMMA NearestIs ==
  ASSUME NEW n \in Nat, NEW d \in Nat \ {0}, NEW limit \in Nat, NEW up
  PROVE  LET r == EvenNearestAtMost(n, d, limit, up)
         IN  /\ r = IF EvenAtMost(limit) <= 2 \/ Even(n, d, up) <= 2 THEN 2
                    ELSE IF Even(n, d, up) < EvenAtMost(limit) THEN Even(n, d, up)
                    ELSE EvenAtMost(limit)
             /\ r \in Nat /\ r >= 2 /\ r % 2 = 0 /\ r <= EvenAtMost(limit)
<1> PICK e : e = Even(n, d, up)
  OBVIOUS
<1> PICK most : most = EvenAtMost(limit)
  OBVIOUS
<1>1. PICK x \in Int : e = 2 * x
  BY EvenIs
<1>2. most \in Nat /\ most >= 2 /\ most % 2 = 0
  BY EvenAtMostIs
<1>3. EvenNearestAtMost(n, d, limit, up) = IF most <= 2 \/ e <= 2 THEN 2 ELSE IF e < most THEN e ELSE most
  BY DEF EvenNearestAtMost, Smaller, Even
<1>4. e \in Int /\ e % 2 = 0
  BY <1>1
<1> QED BY <1>2, <1>3, <1>4

LEMMA NearestReaches ==
  ASSUME NEW n \in Nat, NEW d \in Nat \ {0}, NEW limit \in Nat, NEW up,
         NEW side \in Nat, side % 2 = 0, side * d <= n, side <= limit
  PROVE  EvenNearestAtMost(n, d, limit, up) >= side
<1> PICK y \in Nat : side = 2 * y
  OBVIOUS
<1>1. Even(n, d, up) >= 2 * y
  <2>1. (2 * y) * d <= n
    OBVIOUS
  <2> QED BY <2>1, EvenReaches
<1>2. EvenAtMost(limit) >= side
  BY DEF EvenAtMost
<1>3. PICK x \in Int : Even(n, d, up) = 2 * x
  BY EvenIs
<1>4. EvenAtMost(limit) \in Nat
  BY EvenAtMostIs
<1>a. PICK e, most : e = Even(n, d, up) /\ most = EvenAtMost(limit)
  OBVIOUS
<1>5. EvenNearestAtMost(n, d, limit, up) = IF most <= 2 \/ e <= 2 THEN 2
                                           ELSE IF e < most THEN e ELSE most
  BY <1>a, NearestIs
<1>6. e \in Int /\ most \in Nat /\ e >= side /\ most >= side
  BY <1>a, <1>1, <1>2, <1>3, <1>4
<1> QED BY <1>5, <1>6

LEMMA NearestGrows ==
  ASSUME NEW n \in Nat, NEW m \in Nat, NEW d \in Nat \ {0}, NEW limit \in Nat, NEW wider \in Nat, NEW up,
         n <= m, limit <= wider
  PROVE  EvenNearestAtMost(n, d, limit, up) <= EvenNearestAtMost(m, d, wider, up)
<1>1. Even(n, d, up) <= Even(m, d, up) /\ EvenAtMost(limit) <= EvenAtMost(wider)
  BY EvenGrows, EvenAtMostGrows
<1>2. PICK x \in Int, y \in Int : Even(n, d, up) = 2 * x /\ Even(m, d, up) = 2 * y
  BY EvenIs
<1>3. EvenAtMost(limit) \in Nat /\ EvenAtMost(wider) \in Nat
  BY EvenAtMostIs
<1> PICK e, f, most, more : e = Even(n, d, up) /\ f = Even(m, d, up)
                            /\ most = EvenAtMost(limit) /\ more = EvenAtMost(wider)
  OBVIOUS
<1>4. EvenNearestAtMost(n, d, limit, up) = IF most <= 2 \/ e <= 2 THEN 2 ELSE IF e < most THEN e ELSE most
  BY DEF EvenNearestAtMost, Smaller, Even
<1>5. EvenNearestAtMost(m, d, wider, up) = IF more <= 2 \/ f <= 2 THEN 2 ELSE IF f < more THEN f ELSE more
  BY DEF EvenNearestAtMost, Smaller, Even
<1>6. e \in Int /\ f \in Int /\ most \in Nat /\ more \in Nat /\ e <= f /\ most <= more
  BY <1>1, <1>2, <1>3
<1> QED BY <1>4, <1>5, <1>6

\* The rungs.
LEMMA SpecsAre ==
  /\ Len(Specs) = 5 /\ DOMAIN Specs = 1 .. 5
  /\ Specs[1] = Rung(1080, 1920, 1080) /\ Specs[2] = Rung(720, 1280, 720)
  /\ Specs[3] = Rung(480, 854, 480) /\ Specs[4] = Rung(360, 640, 360)
  /\ Specs[5] = Rung(240, 426, 240)
BY DEF Specs

\* What is used of them: sides are even and not small, wider than high, and descend.
LEMMA RungsAre ==
  ASSUME NEW i \in 1 .. 5
  PROVE  /\ \E x \in Nat : Specs[i].width = 2 * x /\ x >= 120
         /\ \E y \in Nat : Specs[i].height = 2 * y /\ y >= 120
         /\ Specs[i].height < Specs[i].width
         /\ Specs[i] = Rung(Specs[i].rung, Specs[i].width, Specs[i].height)
         /\ Specs[i].rung \in Nat
         /\ \A j \in 1 .. 5 : /\ Specs[i].rung = Specs[j].rung => i = j
                              /\ i < j => /\ Specs[i].width > Specs[j].width
                                          /\ Specs[i].height > Specs[j].height
<1>1. \A j \in 1 .. 5 : j = 1 \/ j = 2 \/ j = 3 \/ j = 4 \/ j = 5
  OBVIOUS
<1>2. \A j \in 1 .. 5 :
        /\ Specs[j].width = IF j = 1 THEN 1920 ELSE IF j = 2 THEN 1280 ELSE IF j = 3 THEN 854
                            ELSE IF j = 4 THEN 640 ELSE 426
        /\ Specs[j].height = IF j = 1 THEN 1080 ELSE IF j = 2 THEN 720 ELSE IF j = 3 THEN 480
                             ELSE IF j = 4 THEN 360 ELSE 240
        /\ Specs[j].rung = IF j = 1 THEN 1080 ELSE IF j = 2 THEN 720 ELSE IF j = 3 THEN 480
                           ELSE IF j = 4 THEN 360 ELSE 240
        /\ Specs[j] = Rung(Specs[j].rung, Specs[j].width, Specs[j].height)
  BY <1>1, SpecsAre DEF Rung
<1>3. Specs[i].width = 2 * (Specs[i].width \div 2) /\ Specs[i].height = 2 * (Specs[i].height \div 2)
  BY <1>1, <1>2
<1>4. /\ Specs[i].width \div 2 \in Nat /\ Specs[i].width \div 2 >= 120
      /\ Specs[i].height \div 2 \in Nat /\ Specs[i].height \div 2 >= 120
  BY <1>1, <1>2
<1>5. /\ Specs[i].height < Specs[i].width /\ Specs[i].rung \in Nat
      /\ \A j \in 1 .. 5 : /\ Specs[i].rung = Specs[j].rung => i = j
                           /\ i < j => /\ Specs[i].width > Specs[j].width
                                       /\ Specs[i].height > Specs[j].height
  BY <1>1, <1>2
<1> QED BY <1>2, <1>3, <1>4, <1>5

LEMMA RungSides ==
  ASSUME NEW i \in 1 .. 5
  PROVE  /\ Specs[i].width \in Nat /\ Specs[i].width >= 240 /\ Specs[i].width % 2 = 0
         /\ Specs[i].height \in Nat /\ Specs[i].height >= 240 /\ Specs[i].height % 2 = 0
<1>1. PICK x \in Nat : Specs[i].width = 2 * x /\ x >= 120
  BY RungsAre
<1>2. PICK y \in Nat : Specs[i].height = 2 * y /\ y >= 120
  BY RungsAre
<1> QED BY <1>1, <1>2

\* The rungs of a source are those from the first that fits to the last one.
Fits(g, i) == Specs[i].height <= g.width /\ Specs[i].height <= g.height

LEMMA SelectedIs ==
  ASSUME NEW g, g.width \in Nat, g.height \in Nat
  PROVE  \E k \in 1 .. 5 : /\ Selected(g) = SubSeq(Specs, k, 5)
                           /\ Len(Selected(g)) = 6 - k /\ DOMAIN Selected(g) = 1 .. 6 - k
                           /\ \A i \in 1 .. 6 - k : Selected(g)[i] = Specs[k + i - 1]
                           /\ k < 5 => \A i \in k .. 5 : Fits(g, i)
<1> DEFINE fits == {i \in DOMAIN Specs :
                      Smaller(Specs[i].width, Specs[i].height) <= Smaller(g.width, g.height)}
           k == IF fits = {} THEN 5 ELSE Min(fits)
<1>1. \A i \in 1 .. 5 : Specs[i].width \in Nat /\ Specs[i].height \in Nat /\ Specs[i].height < Specs[i].width
  BY RungsAre
<1>2. fits \subseteq 1 .. 5 /\ \A i \in 1 .. 5 : i \in fits <=> Fits(g, i)
  <2>1. \A i \in 1 .. 5 : Smaller(Specs[i].width, Specs[i].height) = Specs[i].height
    BY <1>1 DEF Smaller
  <2>2. \A n \in Nat : n <= Smaller(g.width, g.height) <=> n <= g.width /\ n <= g.height
    BY DEF Smaller
  <2>3. \A i \in 1 .. 5 : Smaller(Specs[i].width, Specs[i].height) <= Smaller(g.width, g.height)
                             <=> Fits(g, i)
    BY <1>1, <2>1, <2>2 DEF Fits
  <2> QED BY <2>3, SpecsAre
<1>3. fits # {} => Min(fits) \in fits /\ \A i \in fits : Min(fits) <= i
  <2>1. fits \in SUBSET Nat
    BY <1>2
  <2> HIDE DEF fits
  <2> QED BY <2>1, Minimum
<1>4. k \in 1 .. 5
  <2> HIDE DEF fits
  <2> PICK m : m = Min(fits)
    OBVIOUS
  <2>1. fits # {} => m \in 1 .. 5
    BY <1>2, <1>3
  <2>2. k = IF fits = {} THEN 5 ELSE m
    OBVIOUS
  <2> HIDE DEF k
  <2> QED BY <2>1, <2>2
<1>5. k < 5 => \A i \in k .. 5 : Fits(g, i)
  <2> SUFFICES ASSUME k < 5, NEW i \in k .. 5 PROVE Fits(g, i)
    OBVIOUS
  <2>1. fits # {}
    OBVIOUS
  <2> PICK l : l = k
    OBVIOUS
  <2>2. l \in 1 .. 5 /\ l <= i /\ i \in 1 .. 5 /\ Fits(g, l)
    <3> HIDE DEF fits
    <3> QED BY <1>2, <1>3, <1>4, <2>1
  <2> HIDE DEF fits, k
  <2>3. Specs[l].height >= Specs[i].height
    BY <1>1, <2>2, RungsAre
  <2> QED BY <1>1, <2>2, <2>3 DEF Fits
<1>6. Selected(g) = SubSeq(Specs, k, 5)
  BY SpecsAre DEF Selected
<1> HIDE DEF k
<1> PICK S : S = {Specs[j] : j \in 1 .. 5}
  OBVIOUS
<1>7. \A i \in k .. 5 : Specs[i] \in S
  BY <1>4
<1>8. /\ Len(SubSeq(Specs, k, 5)) = 6 - k
      /\ \A i \in 1 .. 6 - k : SubSeq(Specs, k, 5)[i] = Specs[k + i - 1]
      /\ DOMAIN SubSeq(Specs, k, 5) = 1 .. 6 - k
  <2>1. /\ SubSeq(Specs, k, 5) \in Seq(S)
        /\ Len(SubSeq(Specs, k, 5)) = IF k <= 5 THEN 5 - k + 1 ELSE 0
        /\ \A i \in 1 .. 5 - k + 1 : SubSeq(Specs, k, 5)[i] = Specs[k + i - 1]
    <3>1. k \in Int /\ 5 \in Int
      BY <1>4
    <3> QED BY <1>7, <3>1, SubSeqProperties
  <2>2. 5 - k + 1 = 6 - k /\ k <= 5 /\ 6 - k \in Nat
    BY <1>4
  <2>3. Len(SubSeq(Specs, k, 5)) = 6 - k
    BY <2>1, <2>2
  <2>4. DOMAIN SubSeq(Specs, k, 5) = 1 .. 6 - k
    BY <2>1, <2>3
  <2> QED BY <2>1, <2>2, <2>3, <2>4
<1> QED BY <1>4, <1>5, <1>6, <1>8

\* The dimensions of a rendition.
HeightFor(g, x, h, up) == EvenNearestAtMost(x * g.height, g.width, h, up)
WidthFor(g, y, w, up) == EvenNearestAtMost(y * g.width, g.height, w, up)

Boxes == [rung : Nat, width : Nat, height : Nat]
Sized(box, x, y) == [box EXCEPT !.width = x, !.height = y]

LEMMA Resized ==
  ASSUME NEW box \in Boxes, NEW x \in Nat, NEW y \in Nat
  PROVE  Sized(box, x, y) = [rung |-> box.rung, width |-> x, height |-> y]
<1> PICK t : t = Sized(box, x, y)
  OBVIOUS
<1>1. t \in Boxes /\ t.rung = box.rung /\ t.width = x /\ t.height = y
  BY DEF Boxes, Sized
<1>2. t = [rung |-> box.rung, width |-> x, height |-> y]
  <2> PICK r : r = box.rung
    OBVIOUS
  <2> QED BY <1>1 DEF Boxes
<1> QED BY <1>2

Wide(f, g, w, h, up) == f.width = EvenAtMost(w) /\ f.height = HeightFor(g, EvenAtMost(w), h, up)
Tall(f, g, w, h, up) == f.height = EvenAtMost(h) /\ f.width = WidthFor(g, EvenAtMost(h), w, up)

LEMMA FitIs ==
  ASSUME NEW g, g.width \in Nat \ {0}, g.height \in Nat \ {0}, NEW i \in 1 .. 5, NEW up,
         NEW box, box = Specs[i], NEW f, f = Fit(g, box, up),
         NEW w, NEW h, w = Smaller(box.width, g.width), h = Smaller(box.height, g.height)
  PROVE  /\ f = [rung |-> box.rung, width |-> f.width, height |-> f.height]
         /\ g.width * box.height >= box.width * g.height =>
              IF HeightFor(g, EvenAtMost(w), h, up) > h THEN Tall(f, g, w, h, up) ELSE Wide(f, g, w, h, up)
         /\ ~ (g.width * box.height >= box.width * g.height) =>
              IF WidthFor(g, EvenAtMost(h), w, up) > w THEN Wide(f, g, w, h, up) ELSE Tall(f, g, w, h, up)
<1> PICK x, y : x = EvenAtMost(w) /\ y = EvenAtMost(h)
  OBVIOUS
<1> PICK a, b : a = WidthFor(g, y, w, up) /\ b = HeightFor(g, x, h, up)
  OBVIOUS
<1>1. box = [rung |-> box.rung, width |-> box.width, height |-> box.height]
  BY RungsAre DEF Rung
<1> PICK wide : wide = Sized(box, x, b)
  OBVIOUS
<1> PICK tall : tall = Sized(box, a, y)
  OBVIOUS
<1>2. /\ wide = [rung |-> box.rung, width |-> x, height |-> b]
      /\ tall = [rung |-> box.rung, width |-> a, height |-> y]
  <2>1. box \in Boxes
    BY <1>1, RungsAre DEF Boxes
  <2>2. w \in Nat /\ h \in Nat
    BY <2>1 DEF Smaller, Boxes
  <2>3. x \in Nat /\ y \in Nat
    BY <2>2, EvenAtMostIs
  <2>4. a \in Nat /\ b \in Nat
    <3>1. x * g.height \in Nat /\ y * g.width \in Nat
      BY <2>3
    <3>2. a \in Nat
      BY <2>2, <3>1, NearestIs DEF WidthFor
    <3>3. b \in Nat
      BY <2>2, <3>1, NearestIs DEF HeightFor
    <3> QED BY <3>2, <3>3
  <2>5. wide = [rung |-> box.rung, width |-> x, height |-> b]
    BY <2>1, <2>3, <2>4, Resized
  <2>6. tall = [rung |-> box.rung, width |-> a, height |-> y]
    BY <2>1, <2>3, <2>4, Resized
  <2> QED BY <2>5, <2>6
<1>3. Fit(g, box, up) = IF g.width * box.height >= box.width * g.height
                          THEN IF wide.height > h THEN tall ELSE wide
                          ELSE IF tall.width > w THEN wide ELSE tall
  BY DEF Fit, WidthFor, HeightFor, Sized
<1>4. /\ wide.width = x /\ wide.height = b /\ tall.width = a /\ tall.height = y
      /\ wide = [rung |-> box.rung, width |-> wide.width, height |-> wide.height]
      /\ tall = [rung |-> box.rung, width |-> tall.width, height |-> tall.height]
  BY <1>2
<1>5. Wide(wide, g, w, h, up) /\ Tall(tall, g, w, h, up)
  BY <1>4 DEF Wide, Tall
<1>6. CASE g.width * box.height >= box.width * g.height
  <2>1. f = IF b > h THEN tall ELSE wide
    BY <1>3, <1>4, <1>6
  <2> QED BY <1>4, <1>5, <1>6, <2>1
<1>7. CASE ~ (g.width * box.height >= box.width * g.height)
  <2>1. f = IF a > w THEN wide ELSE tall
    BY <1>3, <1>4, <1>7
  <2> QED BY <1>4, <1>5, <1>7, <2>1
<1> QED BY <1>6, <1>7

\* Its sides are even, and in the box and the picture, but for a side of one pixel.
LEMMA FitFits ==
  ASSUME NEW g, g.width \in Nat \ {0}, g.height \in Nat \ {0}, NEW i \in 1 .. 5, NEW up
  PROVE  LET box == Specs[i]
             f == Fit(g, box, up)
         IN  /\ f.width \in Nat /\ f.width >= 2 /\ f.width % 2 = 0
             /\ f.width <= EvenAtMost(Smaller(box.width, g.width))
             /\ f.height \in Nat /\ f.height >= 2 /\ f.height % 2 = 0
             /\ f.height <= EvenAtMost(Smaller(box.height, g.height))
<1> PICK box : box = Specs[i]
  OBVIOUS
<1>1. box.width \in Nat /\ box.height \in Nat
  BY RungsAre
<1> PICK w, h : w = Smaller(box.width, g.width) /\ h = Smaller(box.height, g.height)
  OBVIOUS
<1>2. w \in Nat /\ h \in Nat
  BY <1>1 DEF Smaller
<1> PICK x, y : x = EvenAtMost(w) /\ y = EvenAtMost(h)
  OBVIOUS
<1>3. x \in Nat /\ x >= 2 /\ x % 2 = 0 /\ y \in Nat /\ y >= 2 /\ y % 2 = 0
  BY <1>2, EvenAtMostIs
<1>4. x * g.height \in Nat /\ y * g.width \in Nat
  BY <1>3
<1> PICK a, b : a = WidthFor(g, y, w, up) /\ b = HeightFor(g, x, h, up)
  OBVIOUS
<1>5. a \in Nat /\ a >= 2 /\ a % 2 = 0 /\ a <= x
  BY <1>2, <1>4, NearestIs DEF WidthFor
<1>6. b \in Nat /\ b >= 2 /\ b % 2 = 0 /\ b <= y
  BY <1>2, <1>4, NearestIs DEF HeightFor
<1> PICK f : f = Fit(g, box, up)
  OBVIOUS
<1>7. (f.width = x /\ f.height = b) \/ (f.width = a /\ f.height = y)
  <2>1. Wide(f, g, w, h, up) \/ Tall(f, g, w, h, up)
    BY FitIs
  <2> QED BY <2>1 DEF Wide, Tall
<1> QED BY <1>3, <1>5, <1>6, <1>7

\* How a rung that fits is filled: the one side is that of the box, the other one
\* is next to what belongs to it.
LEMMA FitFills ==
  ASSUME NEW g, g.width \in Nat \ {0}, g.height \in Nat \ {0}, NEW i \in 1 .. 5, NEW up, Fits(g, i)
  PROVE  LET box == Specs[i]
             f == Fit(g, box, up)
         IN  IF g.width * box.height >= box.width * g.height
               THEN f.width = box.width /\ f.height = HeightFor(g, box.width, box.height, up)
               ELSE /\ f.height = box.height
                    /\ f.width = WidthFor(g, box.height, Smaller(box.width, g.width), up)
<1> PICK box : box = Specs[i]
  OBVIOUS
<1> PICK gw \in Nat \ {0}, gh \in Nat \ {0} : gw = g.width /\ gh = g.height
  OBVIOUS
<1>1. PICK bw \in Nat, bh \in Nat : /\ bw = box.width /\ bh = box.height /\ bw >= 240 /\ bh >= 240
                                    /\ bw % 2 = 0 /\ bh % 2 = 0
  BY RungSides
<1>2. bh <= gw /\ bh <= gh
  BY <1>1 DEF Fits
<1> PICK w, h : w = Smaller(bw, gw) /\ h = Smaller(bh, gh)
  OBVIOUS
<1>3. w \in Nat /\ h = bh /\ w >= 240 /\ w <= gw /\ w <= bw
  BY <1>1, <1>2 DEF Smaller
<1>4. EvenAtMost(h) = bh /\ EvenAtMost(w) <= w /\ EvenAtMost(w) \in Nat
  BY <1>1, <1>3, EvenAtMostIs
<1> PICK f : f = Fit(g, box, up)
  OBVIOUS
<1>5. CASE gw * bh >= bw * gh
  <2>1. gw >= bw
    <3> SUFFICES ASSUME gw < bw PROVE FALSE
      BY <1>1
    <3>1. bh * gw < bh * bw
      BY <1>1, ScaledUp
    <3>2. bw * bh <= bw * gh
      BY <1>1, <1>2, Scaled
    <3>3. bh * bw \in Nat /\ bh * gw \in Nat /\ bw * gh \in Nat
      OBVIOUS
    <3> QED BY <1>5, <3>1, <3>2, <3>3
  <2>2. w = bw /\ EvenAtMost(w) = bw
    <3>1. w = bw
      BY <1>1, <2>1 DEF Smaller
    <3> QED BY <1>1, <3>1, EvenAtMostIs
  <2>3. HeightFor(g, bw, h, up) <= h
    <3>1. bw * gh \in Nat
      OBVIOUS
    <3> QED BY <1>3, <1>4, <3>1, NearestIs DEF HeightFor
  <2>4. HeightFor(g, bw, h, up) \in Nat
    <3>1. bw * gh \in Nat
      OBVIOUS
    <3> QED BY <1>3, <3>1, NearestIs DEF HeightFor
  <2>5. f.width = bw /\ f.height = HeightFor(g, bw, h, up)
    <3>1. ~ (HeightFor(g, EvenAtMost(w), h, up) > h)
      BY <1>3, <2>2, <2>3, <2>4
    <3>2. w = Smaller(box.width, g.width) /\ h = Smaller(box.height, g.height)
      BY <1>1
    <3>3. g.width * box.height >= box.width * g.height
      BY <1>1, <1>5
    <3>4. Wide(f, g, w, h, up)
      BY <3>1, <3>2, <3>3, FitIs
    <3> QED BY <2>2, <3>4 DEF Wide
  <2> QED BY <1>1, <1>3, <1>5, <2>5
<1>6. CASE ~ (gw * bh >= bw * gh)
  <2>1. WidthFor(g, bh, w, up) <= w /\ WidthFor(g, bh, w, up) \in Nat
    <3>1. bh * gw \in Nat
      OBVIOUS
    <3> QED BY <1>3, <1>4, <3>1, NearestIs DEF WidthFor
  <2>2. f.height = bh /\ f.width = WidthFor(g, bh, w, up)
    <3>1. ~ (WidthFor(g, EvenAtMost(h), w, up) > w)
      BY <1>3, <1>4, <2>1
    <3>2. w = Smaller(box.width, g.width) /\ h = Smaller(box.height, g.height)
      BY <1>1
    <3>3. ~ (g.width * box.height >= box.width * g.height)
      BY <1>1, <1>6
    <3>4. Tall(f, g, w, h, up)
      BY <3>1, <3>2, <3>3, FitIs
    <3> QED BY <1>4, <3>4 DEF Tall
  <2> QED BY <1>1, <1>6, <2>2
<1> QED BY <1>5, <1>6

\* The geometry of a source that can be probed.
LEMMA GeometryIs ==
  ASSUME NEW s \in Source, Probed(s)
  PROVE  Geometry(s).width \in Nat \ {0} /\ Geometry(s).height \in Nat \ {0}
BY DEF Geometry, Probed, Source

\* v is the rendition for the i-th rung in the codec.
Of(s, i, codec, v) == /\ v.rung = <<Specs[i].rung, codec>>
                      /\ v.width = Fit(Geometry(s), Specs[i], s.up).width
                      /\ v.height = Fit(Geometry(s), Specs[i], s.up).height

\* The ladder of a codec, from the k-th rung on.
From(s, k, codec) == /\ Len(Ladder(s, codec)) = 6 - k /\ DOMAIN Ladder(s, codec) = 1 .. 6 - k
                     /\ Ladder(s, codec) \in Seq({Ladder(s, codec)[i] : i \in 1 .. 6 - k})
                     /\ \A i \in 1 .. 6 - k : Of(s, k + i - 1, codec, Ladder(s, codec)[i])

Named(f, name) == [f EXCEPT !.rung = name]

LEMMA LadderIs ==
  ASSUME NEW s \in Source, Probed(s)
  PROVE  \E k \in 1 .. 5 : /\ From(s, k, "av1") /\ From(s, k, "h264")
                           /\ k < 5 => \A i \in k .. 5 : Fits(Geometry(s), i)
<1> PICK g : g = Geometry(s)
  OBVIOUS
<1>1. g.width \in Nat \ {0} /\ g.height \in Nat \ {0}
  BY GeometryIs
<1>2. PICK k \in 1 .. 5 : /\ Len(Selected(g)) = 6 - k /\ DOMAIN Selected(g) = 1 .. 6 - k
                          /\ \A i \in 1 .. 6 - k : Selected(g)[i] = Specs[k + i - 1]
                          /\ k < 5 => \A i \in k .. 5 : Fits(g, i)
  BY <1>1, SelectedIs
<1>3. ASSUME NEW codec PROVE From(s, k, codec)
  <2> PICK l : l = Ladder(s, codec)
    OBVIOUS
  <2>1. l = [i \in 1 .. 6 - k |-> Named(Fit(g, Selected(g)[i], s.up), <<Selected(g)[i].rung, codec>>)]
    BY <1>2 DEF Ladder, Named
  <2>2. 6 - k \in Nat
    OBVIOUS
  <2>3. l \in Seq({l[i] : i \in 1 .. 6 - k}) /\ Len(l) = 6 - k /\ DOMAIN l = 1 .. 6 - k
    <3>1. l = [i \in 1 .. 6 - k |-> l[i]]
      BY <2>1
    <3> PICK n \in Nat : n = 6 - k
      BY <2>2
    <3> QED BY <3>1
  <2>4. ASSUME NEW i \in 1 .. 6 - k PROVE Of(s, k + i - 1, codec, l[i])
    <3> PICK j : j = k + i - 1
      OBVIOUS
    <3>1. j \in 1 .. 5 /\ Selected(g)[i] = Specs[j]
      BY <1>2
    <3> PICK f : f = Fit(g, Specs[j], s.up)
      OBVIOUS
    <3>2. f = [rung |-> Specs[j].rung, width |-> f.width, height |-> f.height]
      BY <1>1, <3>1, FitIs
    <3>3. l[i] = Named(f, <<Specs[j].rung, codec>>)
      BY <2>1, <3>1
    <3>4. l[i].rung = <<Specs[j].rung, codec>> /\ l[i].width = f.width /\ l[i].height = f.height
      BY <3>2, <3>3 DEF Named
    <3> QED BY <3>4 DEF Of
  <2> QED BY <2>3, <2>4 DEF From
<1> QED BY <1>2, <1>3

LEMMA VariantsAre ==
  ASSUME NEW s, NEW k \in 1 .. 5, From(s, k, "av1"), From(s, k, "h264")
  PROVE  /\ Variants(s) = [i \in 1 .. 12 - 2 * k |-> IF i <= 6 - k THEN Ladder(s, "av1")[i]
                                                    ELSE Ladder(s, "h264")[i - (6 - k)]]
         /\ \A i \in 1 .. 6 - k : Of(s, k + i - 1, "av1", Variants(s)[i])
         /\ \A i \in 7 - k .. 12 - 2 * k : Of(s, i + 2 * k - 7, "h264", Variants(s)[i])
<1> PICK a, b : a = Ladder(s, "av1") /\ b = Ladder(s, "h264")
  OBVIOUS
<1> PICK n \in Nat : n = 6 - k /\ n >= 1
  OBVIOUS
<1>1. /\ Len(a) = n /\ Len(b) = n /\ a \in Seq({a[i] : i \in 1 .. n}) /\ b \in Seq({b[i] : i \in 1 .. n})
      /\ \A i \in 1 .. n : Of(s, k + i - 1, "av1", a[i]) /\ Of(s, k + i - 1, "h264", b[i])
  BY DEF From
<1> PICK S : S = {a[i] : i \in 1 .. n} \cup {b[i] : i \in 1 .. n}
  OBVIOUS
<1>2. a \in Seq(S) /\ b \in Seq(S)
  <2>1. \A A : \A c \in Seq(A) : A \subseteq S => c \in Seq(S)
    BY SeqMonotonic
  <2>2. {a[i] : i \in 1 .. n} \subseteq S /\ {b[i] : i \in 1 .. n} \subseteq S
    OBVIOUS
  <2> QED BY <1>1, <2>1, <2>2
<1> PICK v : v = Variants(s)
  OBVIOUS
<1>3. v = [i \in 1 .. 2 * n |-> IF i <= n THEN a[i] ELSE b[i - n]]
  <2>1. v = a \o b
    BY DEF Variants
  <2>2. /\ v \in Seq(S) /\ Len(v) = Len(a) + Len(b)
        /\ \A i \in 1 .. Len(a) + Len(b) : v[i] = IF i <= Len(a) THEN a[i] ELSE b[i - Len(a)]
    BY <1>2, <2>1, ConcatProperties
  <2>3. v = [i \in 1 .. Len(v) |-> v[i]]
    <3>1. v \in [1 .. Len(v) -> S]
      BY <2>2, LenProperties
    <3> QED BY <3>1
  <2>4. Len(v) = 2 * n /\ \A i \in 1 .. 2 * n : v[i] = IF i <= n THEN a[i] ELSE b[i - n]
    <3>1. Len(a) + Len(b) = 2 * n /\ Len(a) = n
      BY <1>1
    <3>2. Len(v) = 2 * n
      BY <2>2, <3>1, Zenon
    <3>3. \A i \in 1 .. 2 * n : v[i] = IF i <= n THEN a[i] ELSE b[i - n]
      BY <2>2, <3>1, Zenon
    <3> QED BY <3>2, <3>3
  <2> QED BY <2>3, <2>4
<1>4. 2 * n = 12 - 2 * k /\ 7 - k = n + 1
  OBVIOUS
<1>5. \A i \in 1 .. n : v[i] = a[i] /\ i \in 1 .. 2 * n
  BY <1>3
<1>6. \A i \in n + 1 .. 2 * n : v[i] = b[i - n] /\ i - n \in 1 .. n /\ i + 2 * k - 7 = k + (i - n) - 1
  BY <1>3
<1>7. v = [i \in 1 .. 12 - 2 * k |-> IF i <= 6 - k THEN a[i] ELSE b[i - (6 - k)]]
  BY <1>3, <1>4
<1>8. \A i \in 1 .. 6 - k : Of(s, k + i - 1, "av1", v[i])
  BY <1>1, <1>5
<1>9. \A i \in 7 - k .. 12 - 2 * k : Of(s, i + 2 * k - 7, "h264", v[i])
  <2> SUFFICES ASSUME NEW i \in n + 1 .. 2 * n PROVE Of(s, i + 2 * k - 7, "h264", v[i])
    BY <1>4
  <2> PICK j : j = i - n
    OBVIOUS
  <2>1. v[i] = b[j] /\ j \in 1 .. n /\ i + 2 * k - 7 = k + j - 1
    BY <1>6
  <2>2. Of(s, k + j - 1, "h264", b[j])
    BY <1>1, <2>1
  <2> QED BY <2>1, <2>2
<1> QED BY <1>7, <1>8, <1>9

\* The codecs, and the rung of a name.
LEMMA CodecsAre ==
  ToSet(Codecs) = {"av1", "h264"}
<1>1. DOMAIN Codecs = 1 .. 2 /\ Codecs[1] = "av1" /\ Codecs[2] = "h264"
  BY DEF Codecs
<1> QED BY <1>1 DEF ToSet

LEMMA SpecOf ==
  ASSUME NEW i \in 1 .. 5
  PROVE  (CHOOSE r \in ToSet(Specs) : r.rung = Specs[i].rung) = Specs[i]
<1>1. ToSet(Specs) = {Specs[j] : j \in 1 .. 5}
  BY SpecsAre DEF ToSet
<1>2. \A r \in ToSet(Specs) : r.rung = Specs[i].rung => r = Specs[i]
  BY <1>1, RungsAre
<1> QED BY <1>1, <1>2

\* A side of a source that is smaller than a rung is made even, and two at least.
LEMMA EvenSide ==
  ASSUME NEW a \in Nat, a >= 240, NEW b \in Nat \ {0}
  PROVE  LET n == EvenAtMost(Smaller(a, b))
             most == Smaller(a, IF b = 1 THEN 2 ELSE b)
         IN  n \in Nat /\ most \in Nat /\ n <= most
BY DEF EvenAtMost, Smaller

LEMMA Playable ==
  ASSUME source \in Source
  PROVE  LadderIsPlayable
<1> SUFFICES ASSUME Probed(source) PROVE LadderIsPlayable
  BY DEF LadderIsPlayable
<1> PICK vs, g : vs = Variants(source) /\ g = Geometry(source)
  OBVIOUS
<1>1. g.width \in Nat \ {0} /\ g.height \in Nat \ {0}
  BY GeometryIs
<1>2. PICK k \in 1 .. 5 : From(source, k, "av1") /\ From(source, k, "h264")
  BY LadderIs
<1>3. /\ DOMAIN vs = 1 .. 12 - 2 * k
      /\ vs = [i \in DOMAIN vs |-> vs[i]]
      /\ \A i \in 1 .. 6 - k : Of(source, k + i - 1, "av1", vs[i])
      /\ \A i \in 7 - k .. 12 - 2 * k : Of(source, i + 2 * k - 7, "h264", vs[i])
  <2> PICK f : f = [i \in 1 .. 12 - 2 * k |-> IF i <= 6 - k THEN Ladder(source, "av1")[i]
                                             ELSE Ladder(source, "h264")[i - (6 - k)]]
    OBVIOUS
  <2>1. vs = f /\ \A i \in 1 .. 6 - k : Of(source, k + i - 1, "av1", vs[i])
               /\ \A j \in 7 - k .. 12 - 2 * k : Of(source, j + 2 * k - 7, "h264", vs[j])
    BY <1>2, VariantsAre
  <2>2. DOMAIN f = 1 .. 12 - 2 * k /\ f = [i \in DOMAIN f |-> f[i]]
    OBVIOUS
  <2> QED BY <1>2, <2>1, <2>2, VariantsAre
<1> PICK rung, codec :
      /\ rung = [i \in DOMAIN vs |-> IF i <= 6 - k THEN k + i - 1 ELSE i + 2 * k - 7]
      /\ codec = [i \in DOMAIN vs |-> IF i <= 6 - k THEN "av1" ELSE "h264"]
  OBVIOUS
<1>4. ASSUME NEW i \in DOMAIN vs
      PROVE  rung[i] \in 1 .. 5 /\ codec[i] \in {"av1", "h264"} /\ Of(source, rung[i], codec[i], vs[i])
  <2>1. CASE i <= 6 - k
    BY <1>3, <2>1
  <2>2. CASE ~ (i <= 6 - k)
    <3>1. i \in 7 - k .. 12 - 2 * k /\ i + 2 * k - 7 \in 1 .. 5
      BY <1>3, <2>2
    <3>2. rung[i] = i + 2 * k - 7 /\ codec[i] = "h264"
      BY <2>2
    <3> QED BY <1>3, <3>1, <3>2
  <2> QED BY <2>1, <2>2
<1>5. \A i, j \in DOMAIN vs : rung[i] = rung[j] /\ codec[i] = codec[j] => i = j
  BY <1>3
<1>6. \A i \in DOMAIN vs : vs[i].rung = <<Specs[rung[i]].rung, codec[i]>>
  BY <1>4 DEF Of
<1>7. \A i, j \in DOMAIN vs : vs[i].rung = vs[j].rung => i = j
  <2> SUFFICES ASSUME NEW i \in DOMAIN vs, NEW j \in DOMAIN vs, vs[i].rung = vs[j].rung PROVE i = j
    OBVIOUS
  <2>1. Specs[rung[i]].rung = Specs[rung[j]].rung /\ codec[i] = codec[j]
    BY <1>6
  <2>2. rung[i] = rung[j]
    BY <1>4, <2>1, RungsAre
  <2> QED BY <1>5, <2>1, <2>2
<1>8. \A c \in ToSet(Codecs) : \E i \in DOMAIN vs : vs[i].rung[2] = c
  <2>1. 1 \in DOMAIN vs /\ 7 - k \in DOMAIN vs /\ codec[1] = "av1" /\ codec[7 - k] = "h264"
    BY <1>3
  <2>2. vs[1].rung[2] = "av1" /\ vs[7 - k].rung[2] = "h264"
    BY <1>6, <2>1
  <2> QED BY <2>1, <2>2, CodecsAre
<1>9. Tracks(source) = vs
  <2>1. \A i \in DOMAIN vs : (CHOOSE e \in Encoded(source) : e.rung = vs[i].rung) = vs[i]
    <3> SUFFICES ASSUME NEW i \in DOMAIN vs
                 PROVE  (CHOOSE e \in Encoded(source) : e.rung = vs[i].rung) = vs[i]
      OBVIOUS
    <3>1. \A e \in Encoded(source) : \E j \in DOMAIN vs : e = vs[j]
      BY DEF Encoded, ToSet
    <3>2. vs[i] \in Encoded(source)
      <4>1. vs[i].rung[2] \in ToSet(Codecs)
        BY <1>4, <1>6, CodecsAre
      <4> QED BY <4>1 DEF Encoded, ToSet
    <3>3. \A e \in Encoded(source) : e.rung = vs[i].rung => e = vs[i]
      BY <1>7, <3>1
    <3> QED BY <3>2, <3>3
  <2>2. Tracks(source) = [i \in DOMAIN vs |-> CHOOSE e \in Encoded(source) : e.rung = vs[i].rung]
    BY DEF Tracks
  <2>3. Tracks(source) = [i \in DOMAIN vs |-> vs[i]]
    BY <2>1, <2>2
  <2> QED BY <1>3, <2>3
<1>10. ASSUME NEW i \in DOMAIN vs
       PROVE  LET v == vs[i]
                  spec == CHOOSE r \in ToSet(Specs) : r.rung = v.rung[1]
              IN  /\ v.width % 2 = 0 /\ v.height % 2 = 0 /\ v.width >= 2 /\ v.height >= 2
                  /\ v.width <= Smaller(spec.width, IF g.width = 1 THEN 2 ELSE g.width)
                  /\ v.height <= Smaller(spec.height, IF g.height = 1 THEN 2 ELSE g.height)
  <2> PICK v, spec : v = vs[i] /\ spec = CHOOSE r \in ToSet(Specs) : r.rung = v.rung[1]
    OBVIOUS
  <2> PICK l, c : l = rung[i] /\ c = codec[i]
    OBVIOUS
  <2>0. l \in 1 .. 5 /\ Of(source, l, c, v)
    BY <1>4
  <2>1. spec = Specs[l]
    <3>1. v.rung[1] = Specs[l].rung
      BY <2>0 DEF Of
    <3> QED BY <2>0, <3>1, SpecOf
  <2>2. PICK x \in Nat, y \in Nat : x = spec.width /\ y = spec.height /\ x >= 240 /\ y >= 240
    <3>1. /\ Specs[l].width \in Nat /\ Specs[l].width >= 240
          /\ Specs[l].height \in Nat /\ Specs[l].height >= 240
      BY <2>0, RungSides
    <3> QED BY <2>1, <3>1
  <2>a. PICK p \in Nat, q \in Nat : p = g.width /\ q = g.height /\ p # 0 /\ q # 0
    BY <1>1
  <2>3. Specs[l].width = x /\ Specs[l].height = y
    BY <2>1, <2>2
  <2>4. PICK n, m : n = EvenAtMost(Smaller(x, p)) /\ m = EvenAtMost(Smaller(y, q))
    OBVIOUS
  <2>5. PICK f : f = Fit(g, Specs[l], source.up)
    OBVIOUS
  <2>6. v.width = f.width /\ v.height = f.height
    BY <2>0, <2>5 DEF Of
  <2>7. /\ f.width \in Nat /\ f.width >= 2 /\ f.width % 2 = 0
        /\ f.height \in Nat /\ f.height >= 2 /\ f.height % 2 = 0
        /\ f.width <= EvenAtMost(Smaller(Specs[l].width, g.width))
        /\ f.height <= EvenAtMost(Smaller(Specs[l].height, g.height))
    <3>1. l \in 1 .. 5
      BY <2>0
    <3> QED BY <1>1, <2>5, <3>1, FitFits
  <2>8. EvenAtMost(Smaller(Specs[l].width, g.width)) = n
        /\ EvenAtMost(Smaller(Specs[l].height, g.height)) = m
    BY <2>a, <2>3, <2>4, Zenon
  <2>9. f.width <= n /\ f.height <= m
    BY <2>7, <2>8, Zenon
  <2>10. PICK N, M : N = Smaller(x, IF p = 1 THEN 2 ELSE p) /\ M = Smaller(y, IF q = 1 THEN 2 ELSE q)
    OBVIOUS
  <2>11. n \in Nat /\ N \in Nat /\ n <= N
    BY <2>a, <2>2, <2>4, <2>10, EvenSide
  <2>12. m \in Nat /\ M \in Nat /\ m <= M
    BY <2>a, <2>2, <2>4, <2>10, EvenSide
  <2>13. v.width <= N /\ v.height <= M
    BY <2>6, <2>7, <2>9, <2>11, <2>12
  <2>14. N = Smaller(spec.width, IF g.width = 1 THEN 2 ELSE g.width)
         /\ M = Smaller(spec.height, IF g.height = 1 THEN 2 ELSE g.height)
    BY <2>a, <2>2, <2>10, Zenon
  <2> QED BY <2>6, <2>7, <2>13, <2>14
<1> QED BY <1>7, <1>8, <1>9, <1>10 DEF LadderIsPlayable

\* Of two rungs that fit the larger one has the larger picture.
LEMMA RungsDescend ==
  ASSUME NEW g, g.width \in Nat \ {0}, g.height \in Nat \ {0}, NEW i \in 1 .. 4, NEW up,
         Fits(g, i), Fits(g, i + 1), NEW f, f = Fit(g, Specs[i], up),
         NEW e, e = Fit(g, Specs[i + 1], up)
  PROVE  /\ f.width >= e.width /\ f.height >= e.height
         /\ f.width > e.width \/ f.height > e.height
<1> PICK gw \in Nat \ {0}, gh \in Nat \ {0} : gw = g.width /\ gh = g.height
  OBVIOUS
<1>0. i \in 1 .. 5 /\ i + 1 \in 1 .. 5 /\ i < i + 1
  OBVIOUS
<1> PICK j : j = i + 1
  OBVIOUS
<1>1. PICK w \in Nat, h \in Nat, x \in Nat, y \in Nat :
        /\ w = Specs[i].width /\ h = Specs[i].height /\ x = Specs[j].width /\ y = Specs[j].height
        /\ w > x /\ h > y /\ x >= 2 /\ y >= 2 /\ x % 2 = 0 /\ y % 2 = 0
  <2>1. /\ Specs[i].width \in Nat /\ Specs[i].height \in Nat
    BY <1>0, RungSides
  <2>2. /\ Specs[j].width \in Nat /\ Specs[j].width >= 240 /\ Specs[j].width % 2 = 0
        /\ Specs[j].height \in Nat /\ Specs[j].height >= 240 /\ Specs[j].height % 2 = 0
    BY <1>0, RungSides
  <2>3. Specs[i].width > Specs[j].width /\ Specs[i].height > Specs[j].height
    BY <1>0, RungsAre
  <2> QED BY <2>1, <2>2, <2>3
<1>2. h <= gw /\ h <= gh /\ y <= gw /\ y <= gh
  BY <1>1 DEF Fits
<1>3. /\ w * gh \in Nat /\ h * gw \in Nat /\ x * gh \in Nat /\ y * gw \in Nat
      /\ x * gh <= w * gh /\ y * gw <= h * gw
      /\ gw * h = h * gw /\ gw * y = y * gw
  <2>1. gh * x <= gh * w /\ gw * y <= gw * h
    BY <1>1, Scaled
  <2>2. gh * x = x * gh /\ gh * w = w * gh /\ gw * y = y * gw /\ gw * h = h * gw
    OBVIOUS
  <2> QED BY <2>1, <2>2
<1> PICK n, m : n = Smaller(w, gw) /\ m = Smaller(x, gw)
  OBVIOUS
<1>4. n \in Nat /\ m \in Nat /\ m <= n /\ m <= x
  <2>1. n = (IF w < gw THEN w ELSE gw) /\ m = (IF x < gw THEN x ELSE gw)
    BY DEF Smaller
  <2> QED BY <1>1, <2>1
<1>a. PICK wg \in Nat, hg \in Nat, xg \in Nat, yg \in Nat :
      wg = w * gh /\ hg = h * gw /\ xg = x * gh /\ yg = y * gw
  BY <1>3
<1> PICK H, I, V, W : /\ H = HeightFor(g, w, h, up) /\ I = HeightFor(g, x, y, up)
                      /\ V = WidthFor(g, h, n, up) /\ W = WidthFor(g, y, m, up)
  OBVIOUS
<1>5. IF hg >= wg THEN f.width = w /\ f.height = H ELSE f.height = h /\ f.width = V
  <2>1. IF g.width * Specs[i].height >= Specs[i].width * g.height
          THEN f.width = Specs[i].width /\ f.height = HeightFor(g, Specs[i].width, Specs[i].height, up)
          ELSE /\ f.height = Specs[i].height
               /\ f.width = WidthFor(g, Specs[i].height, Smaller(Specs[i].width, g.width), up)
    BY <1>0, FitFills
  <2>2. g.width * Specs[i].height = hg /\ Specs[i].width * g.height = wg
    BY <1>1, <1>3, <1>a
  <2> QED BY <1>1, <2>1, <2>2, Zenon
<1>6. IF yg >= xg THEN e.width = x /\ e.height = I ELSE e.height = y /\ e.width = W
  <2>1. IF g.width * Specs[j].height >= Specs[j].width * g.height
          THEN e.width = Specs[j].width /\ e.height = HeightFor(g, Specs[j].width, Specs[j].height, up)
          ELSE /\ e.height = Specs[j].height
               /\ e.width = WidthFor(g, Specs[j].height, Smaller(Specs[j].width, g.width), up)
    BY <1>0, FitFills
  <2>2. g.width * Specs[j].height = yg /\ Specs[j].width * g.height = xg
    BY <1>1, <1>3, <1>a
  <2> QED BY <1>1, <2>1, <2>2, Zenon
<1>7. /\ H = EvenNearestAtMost(wg, gw, h, up) /\ I = EvenNearestAtMost(xg, gw, y, up)
      /\ V = EvenNearestAtMost(hg, gh, n, up) /\ W = EvenNearestAtMost(yg, gh, m, up)
  <2>1. w * gh = wg /\ x * gh = xg /\ h * gw = hg /\ y * gw = yg
    BY <1>a
  <2>2. /\ H = EvenNearestAtMost(w * gh, gw, h, up) /\ I = EvenNearestAtMost(x * gh, gw, y, up)
        /\ V = EvenNearestAtMost(h * gw, gh, n, up) /\ W = EvenNearestAtMost(y * gw, gh, m, up)
    BY Zenon DEF HeightFor, WidthFor
  <2> QED BY <2>1, <2>2, Zenon
<1>8. H \in Nat /\ I \in Nat /\ V \in Nat /\ W \in Nat
  <2>1. EvenNearestAtMost(wg, gw, h, up) \in Nat /\ EvenNearestAtMost(xg, gw, y, up) \in Nat
    BY NearestIs
  <2>2. EvenNearestAtMost(hg, gh, n, up) \in Nat /\ EvenNearestAtMost(yg, gh, m, up) \in Nat
    BY <1>4, NearestIs
  <2> QED BY <1>7, <2>1, <2>2, Zenon
<1>9. I <= y /\ W <= x
  <2>1. I <= EvenAtMost(y) /\ W <= EvenAtMost(m)
    BY <1>4, <1>7, NearestIs
  <2>2. EvenAtMost(y) = y /\ EvenAtMost(m) \in Nat /\ (m >= 2 => EvenAtMost(m) <= m)
        /\ (m < 2 => EvenAtMost(m) = 2)
    BY <1>1, <1>4 DEF EvenAtMost
  <2> QED BY <1>1, <1>4, <1>8, <2>1, <2>2
<1>10. xg <= wg /\ yg <= hg
  BY <1>3, <1>a
<1>11. I <= H /\ W <= V
  <2>1. y <= h
    BY <1>1
  <2>2. EvenNearestAtMost(xg, gw, y, up) <= EvenNearestAtMost(wg, gw, h, up)
    BY <1>10, <2>1, NearestGrows
  <2>3. EvenNearestAtMost(yg, gh, m, up) <= EvenNearestAtMost(hg, gh, n, up)
    BY <1>4, <1>10, NearestGrows
  <2> QED BY <1>7, <2>2, <2>3
<1>12. hg >= wg /\ yg < xg => H >= y
  <2> SUFFICES ASSUME yg < xg PROVE H >= y
    OBVIOUS
  <2>1. y * gw <= wg
    <3>1. yg <= wg /\ y * gw = yg
      BY <1>a, <1>10
    <3> QED BY <3>1, Zenon
  <2>2. y % 2 = 0 /\ y <= h
    BY <1>1
  <2>3. EvenNearestAtMost(wg, gw, h, up) >= y
    BY <2>1, <2>2, NearestReaches
  <2> QED BY <1>7, <2>3, Zenon
<1>13. hg < wg /\ yg >= xg => V >= x
  <2> SUFFICES ASSUME yg >= xg PROVE V >= x
    OBVIOUS
  <2>1. x <= gw
    <3> SUFFICES ASSUME gw < x PROVE FALSE
      OBVIOUS
    <3>1. gh * gw < gh * x
      BY ScaledUp
    <3>2. gw * y <= gw * gh
      BY <1>2, Scaled
    <3>3. gh * gw = gw * gh /\ gh * x = xg /\ gw * gh \in Nat /\ gw * y = yg
      BY <1>a
    <3> QED BY <3>1, <3>2, <3>3
  <2>2. x <= n
    BY <1>1, <2>1 DEF Smaller
  <2>3. x * gh <= hg
    <3>1. x * gh = xg /\ xg <= hg
      BY <1>a, <1>10
    <3> QED BY <3>1, Zenon
  <2>4. x % 2 = 0 /\ n \in Nat
    BY <1>1, <1>4
  <2>5. EvenNearestAtMost(hg, gh, n, up) >= x
    BY <2>2, <2>3, <2>4, NearestReaches
  <2> QED BY <1>7, <2>5, Zenon
<1>14. CASE hg >= wg /\ yg >= xg
  BY <1>1, <1>5, <1>6, <1>8, <1>11, <1>14
<1>15. CASE hg >= wg /\ yg < xg
  BY <1>1, <1>5, <1>6, <1>8, <1>9, <1>12, <1>15
<1>16. CASE hg < wg /\ yg >= xg
  BY <1>1, <1>5, <1>6, <1>8, <1>9, <1>13, <1>16
<1>17. CASE hg < wg /\ yg < xg
  BY <1>1, <1>5, <1>6, <1>8, <1>11, <1>17
<1> QED BY <1>14, <1>15, <1>16, <1>17

\* The bandwidth grows with the height, and is less for AV1.
Kilobits(h) == IF h >= 1080 THEN 5000 ELSE IF h >= 720 THEN 2500 ELSE IF h >= 480 THEN 1000
           ELSE IF h >= 360 THEN 500 ELSE IF h >= 240 THEN 300 ELSE 200

LEMMA BandwidthIs ==
  ASSUME NEW v, NEW h \in Nat, v.height = h
  PROVE  Bandwidth(v) = IF v.rung[2] = "av1" THEN (Kilobits(h) * 60) \div 100 ELSE Kilobits(h)
<1>a. PICK b : b = CASE v.height >= 1080 -> 5000 [] v.height \in 720 .. 1079 -> 2500
                   [] v.height \in 480 .. 719 -> 1000 [] v.height \in 360 .. 479 -> 500
                   [] v.height \in 240 .. 359 -> 300 [] OTHER -> 200
  OBVIOUS
<1>1. b = Kilobits(h)
  <2>1. CASE h >= 1080
    BY <1>a, <2>1 DEF Kilobits
  <2>2. CASE h \in 720 .. 1079
    BY <1>a, <2>2 DEF Kilobits
  <2>3. CASE h \in 480 .. 719
    BY <1>a, <2>3 DEF Kilobits
  <2>4. CASE h \in 360 .. 479
    BY <1>a, <2>4 DEF Kilobits
  <2>5. CASE h \in 240 .. 359
    BY <1>a, <2>5 DEF Kilobits
  <2>6. CASE h < 240
    BY <1>a, <2>6 DEF Kilobits
  <2>7. h >= 1080 \/ h \in 720 .. 1079 \/ h \in 480 .. 719 \/ h \in 360 .. 479
        \/ h \in 240 .. 359 \/ h < 240
    OBVIOUS
  <2> QED BY <2>1, <2>2, <2>3, <2>4, <2>5, <2>6, <2>7
<1>2. Bandwidth(v) = IF v.rung[2] = "av1" THEN (b * 60) \div 100 ELSE b
  BY <1>a DEF Bandwidth
<1> QED BY <1>1, <1>2

LEMMA BandwidthGrows ==
  ASSUME NEW v, NEW u, v.height \in Nat, u.height \in Nat, u.height <= v.height, u.rung[2] = v.rung[2]
  PROVE  Bandwidth(u) <= Bandwidth(v)
<1> PICK h \in Nat, k \in Nat : h = v.height /\ k = u.height /\ k <= h
  OBVIOUS
<1>1. /\ Kilobits(k) \in Nat /\ Kilobits(h) \in Nat /\ Kilobits(k) <= Kilobits(h)
      /\ (Kilobits(k) * 60) \div 100 <= (Kilobits(h) * 60) \div 100
  BY DEF Kilobits
<1> QED BY <1>1, BandwidthIs

LEMMA BandwidthIsNat ==
  ASSUME NEW v, v.height \in Nat
  PROVE  Bandwidth(v) \in Nat
<1> PICK h \in Nat : h = v.height
  OBVIOUS
<1>1. Kilobits(h) \in Nat /\ (Kilobits(h) * 60) \div 100 \in Nat
  BY DEF Kilobits
<1> QED BY <1>1, BandwidthIs

LEMMA BandwidthOfAV1 ==
  ASSUME NEW v, NEW u, v.height \in Nat, u.height = v.height, v.rung[2] = "av1", u.rung[2] = "h264"
  PROVE  Bandwidth(v) < Bandwidth(u)
<1> PICK h \in Nat : h = v.height
  OBVIOUS
<1>1. (Kilobits(h) * 60) \div 100 < Kilobits(h)
  BY DEF Kilobits
<1> QED BY <1>1, BandwidthIs

LEMMA Descends ==
  ASSUME source \in Source
  PROVE  LadderDescends
<1> SUFFICES ASSUME Probed(source) PROVE LadderDescends
  BY DEF LadderDescends
<1> PICK g : g = Geometry(source)
  OBVIOUS
<1>1. g.width \in Nat \ {0} /\ g.height \in Nat \ {0}
  BY GeometryIs
<1>2. PICK k \in 1 .. 5 : /\ From(source, k, "av1") /\ From(source, k, "h264")
                          /\ k < 5 => \A i \in k .. 5 : Fits(g, i)
  BY LadderIs
<1> PICK n \in Nat : n = 6 - k /\ n >= 1
  OBVIOUS
<1> PICK a, b : a = Ladder(source, "av1") /\ b = Ladder(source, "h264")
  OBVIOUS
<1>3. /\ Len(a) = n /\ Len(b) = n /\ DOMAIN a = 1 .. n
      /\ \A i \in 1 .. n : Of(source, k + i - 1, "av1", a[i]) /\ Of(source, k + i - 1, "h264", b[i])
  BY <1>2 DEF From
<1> PICK f : f = [i \in 1 .. 5 |-> Fit(g, Specs[i], source.up)]
  OBVIOUS
<1>4. \A i \in 1 .. 5 : f[i].width \in Nat /\ f[i].height \in Nat
  BY <1>1, FitFits
<1>5. \A i \in 1 .. n : /\ k + i - 1 \in 1 .. 5
                        /\ a[i].width = f[k + i - 1].width /\ a[i].height = f[k + i - 1].height
                        /\ b[i].width = f[k + i - 1].width /\ b[i].height = f[k + i - 1].height
                        /\ a[i].rung[2] = "av1" /\ b[i].rung[2] = "h264"
  <2> SUFFICES ASSUME NEW i \in 1 .. n
               PROVE  /\ k + i - 1 \in 1 .. 5
                      /\ a[i].width = f[k + i - 1].width /\ a[i].height = f[k + i - 1].height
                      /\ b[i].width = f[k + i - 1].width /\ b[i].height = f[k + i - 1].height
                      /\ a[i].rung[2] = "av1" /\ b[i].rung[2] = "h264"
    OBVIOUS
  <2> PICK l \in 1 .. 5 : l = k + i - 1
    OBVIOUS
  <2>1. Of(source, l, "av1", a[i]) /\ Of(source, l, "h264", b[i])
    BY <1>3
  <2>2. f[l] = Fit(g, Specs[l], source.up)
    OBVIOUS
  <2> QED BY <2>1, <2>2 DEF Of
<1>6. \A i \in 1 .. n : /\ <<a[i].width, a[i].height>> = <<b[i].width, b[i].height>>
                        /\ Bandwidth(a[i]) < Bandwidth(b[i])
  <2> SUFFICES ASSUME NEW i \in 1 .. n
               PROVE  /\ a[i].width = b[i].width /\ a[i].height = b[i].height
                      /\ Bandwidth(a[i]) < Bandwidth(b[i])
    OBVIOUS
  <2>1. a[i].width = b[i].width /\ a[i].height = b[i].height /\ b[i].height \in Nat
        /\ a[i].rung[2] = "av1" /\ b[i].rung[2] = "h264"
    BY <1>4, <1>5
  <2> QED BY <2>1, BandwidthOfAV1
<1>7. ASSUME NEW i \in 1 .. n - 1
      PROVE  /\ <<a[i].width, a[i].height>> # <<a[i + 1].width, a[i + 1].height>>
             /\ a[i].width >= a[i + 1].width /\ a[i].height >= a[i + 1].height
             /\ Bandwidth(a[i]) >= Bandwidth(a[i + 1])
  <2> PICK l : l = k + i - 1
    OBVIOUS
  <2>1. l \in 1 .. 4 /\ k < 5 /\ l \in k .. 5 /\ l + 1 \in k .. 5 /\ i \in 1 .. n /\ i + 1 \in 1 .. n
        /\ k + (i + 1) - 1 = l + 1
    OBVIOUS
  <2>2. Fits(g, l) /\ Fits(g, l + 1)
    BY <1>2, <2>1
  <2>3. /\ f[l].width >= f[l + 1].width /\ f[l].height >= f[l + 1].height
        /\ f[l].width > f[l + 1].width \/ f[l].height > f[l + 1].height
    <3>1. f[l] = Fit(g, Specs[l], source.up) /\ f[l + 1] = Fit(g, Specs[l + 1], source.up)
      BY <2>1
    <3> QED BY <1>1, <2>1, <2>2, <3>1, RungsDescend
  <2>4. /\ a[i].width = f[l].width /\ a[i].height = f[l].height
        /\ a[i + 1].width = f[l + 1].width /\ a[i + 1].height = f[l + 1].height
        /\ a[i].rung[2] = "av1" /\ a[i + 1].rung[2] = "av1"
        /\ f[l].width \in Nat /\ f[l].height \in Nat /\ f[l + 1].width \in Nat /\ f[l + 1].height \in Nat
    <3>1. l \in 1 .. 5 /\ l + 1 \in 1 .. 5 /\ k + i - 1 = l
      BY <2>1
    <3>2. a[i].width = f[l].width /\ a[i].height = f[l].height /\ a[i].rung[2] = "av1"
      BY <1>5, <2>1, <3>1
    <3>3. /\ a[i + 1].width = f[l + 1].width /\ a[i + 1].height = f[l + 1].height
          /\ a[i + 1].rung[2] = "av1"
      <4>1. PICK m \in 1 .. n : m = i + 1 /\ k + m - 1 = l + 1
        BY <2>1
      <4>2. /\ a[m].width = f[k + m - 1].width /\ a[m].height = f[k + m - 1].height
            /\ a[m].rung[2] = "av1"
        BY <1>5
      <4> QED BY <4>1, <4>2
    <3>4. /\ f[l].width \in Nat /\ f[l].height \in Nat
          /\ f[l + 1].width \in Nat /\ f[l + 1].height \in Nat
      BY <1>4, <3>1
    <3> QED BY <3>2, <3>3, <3>4
  <2>5. Bandwidth(a[i]) >= Bandwidth(a[i + 1])
    BY <2>3, <2>4, BandwidthGrows, BandwidthIsNat
  <2> QED BY <2>3, <2>4, <2>5
<1> QED BY <1>3, <1>6, <1>7 DEF LadderDescends

\* The side that is rounded is next to what the other one calls for.
LEMMA RoundedShape ==
  ASSUME NEW p \in Nat \ {0}, NEW q \in Nat \ {0}, NEW x \in Nat, NEW limit \in Nat, NEW up,
         x * q <= limit * p, NEW b, b = EvenNearestAtMost(x * q, p, limit, up)
  PROVE  b = 2 \/ (b \in Nat /\ x * q - b * p <= p /\ b * p - x * q <= p)
<1> PICK n \in Nat : n = x * q
  OBVIOUS
<1>1. PICK e \in Int : Even(n, p, up) = e /\ p * e <= n + p /\ n - p <= p * e
  <2>1. PICK h \in Int : Even(n, p, up) = 2 * h /\ p * (2 * h) <= n + p /\ n - p <= p * (2 * h)
    BY EvenIs
  <2> QED BY <2>1
<1> PICK most \in Nat : most = EvenAtMost(limit)
  BY EvenAtMostIs
<1>2. b = 2 \/ b = e \/ (b = most /\ most <= e)
  BY <1>1, NearestIs
<1>3. b \in Nat
  BY NearestIs
<1>4. CASE b = e
  BY <1>1, <1>3, <1>4
<1>5. CASE b = most /\ most <= e
  <2>1. p * most <= p * e
    BY <1>5, Scaled
  <2>2. limit = 0 \/ limit <= most + 1
    BY EvenAtMostIs
  <2>3. CASE limit <= most + 1
    <3>1. p * limit <= p * (most + 1)
      BY <2>3, Scaled
    <3>2. p * (most + 1) = p * most + p /\ p * limit = limit * p /\ p * most = b * p
      BY <1>5
    <3>3. p * most \in Nat /\ p * e \in Int /\ limit * p \in Nat
      BY <1>1
    <3> QED BY <1>1, <1>3, <2>1, <3>1, <3>2, <3>3
  <2>4. CASE limit = 0
    BY <1>5, <2>4, EvenAtMostIs
  <2> QED BY <2>2, <2>3, <2>4
<1> QED BY <1>2, <1>4, <1>5

LEMMA FitShape ==
  ASSUME NEW g, NEW p \in Nat \ {0}, NEW q \in Nat \ {0}, g.width = p, g.height = q,
         NEW i \in 1 .. 5, NEW up, NEW f, f = Fit(g, Specs[i], up)
  PROVE  LET off == f.width * q - f.height * p
         IN  \/ off <= p /\ -off <= p
             \/ off <= q /\ -off <= q
             \/ 2 \in {f.width, f.height}
<1>1. PICK bw \in Nat, bh \in Nat : bw = Specs[i].width /\ bh = Specs[i].height /\ bw >= 2 /\ bh >= 2
  BY RungSides
<1>a. PICK w \in Nat, h \in Nat : w = Smaller(bw, p) /\ h = Smaller(bh, q) /\ w <= bw /\ w <= p /\ h <= bh /\ h <= q
                                /\ (w = bw \/ w = p) /\ (h = bh \/ h = q)
  <2> PICK w, h : w = Smaller(bw, p) /\ h = Smaller(bh, q)
    OBVIOUS
  <2>1. w = (IF bw < p THEN bw ELSE p) /\ h = (IF bh < q THEN bh ELSE q)
    BY DEF Smaller
  <2>2. w \in Nat /\ w <= bw /\ w <= p /\ (w = bw \/ w = p)
    BY <2>1
  <2>3. h \in Nat /\ h <= bh /\ h <= q /\ (h = bh \/ h = q)
    BY <2>1
  <2> QED BY <2>2, <2>3
<1>b. PICK x \in Nat, y \in Nat : x = EvenAtMost(w) /\ y = EvenAtMost(h) /\ (x = 2 \/ x <= w) /\ (y = 2 \/ y <= h)
                                /\ (w >= 2 => x <= w) /\ (h >= 2 => y <= h)
                                /\ (w < 2 => x = 2) /\ (h < 2 => y = 2)
  <2> PICK x, y : x = EvenAtMost(w) /\ y = EvenAtMost(h)
    OBVIOUS
  <2>1. x \in Nat /\ (w >= 2 => x <= w) /\ (w <= 2 => x = 2)
    BY EvenAtMostIs
  <2>2. y \in Nat /\ (h >= 2 => y <= h) /\ (h <= 2 => y = 2)
    BY EvenAtMostIs
  <2> QED BY <2>1, <2>2
<1>c. PICK a, b : a = WidthFor(g, y, w, up) /\ b = HeightFor(g, x, h, up)
  OBVIOUS
<1>2. x * q \in Nat /\ y * p \in Nat
  OBVIOUS
<1>3. a = EvenNearestAtMost(y * p, q, w, up) /\ b = EvenNearestAtMost(x * q, p, h, up)
  BY <1>c DEF WidthFor, HeightFor
<1>4. a \in Nat /\ b \in Nat /\ a <= x /\ b <= y
  <2>1. /\ a \in Nat /\ a <= EvenAtMost(w)
        /\ b \in Nat /\ b <= EvenAtMost(h)
    BY <1>2, <1>3, NearestIs
  <2> QED BY <1>b, <2>1
<1>5. /\ p * bh >= bw * q => IF b > h THEN Tall(f, g, w, h, up) ELSE Wide(f, g, w, h, up)
      /\ ~ (p * bh >= bw * q) => IF a > w THEN Wide(f, g, w, h, up) ELSE Tall(f, g, w, h, up)
  <2> PICK box : box = Specs[i]
    OBVIOUS
  <2>1. box.width = bw /\ box.height = bh
    BY <1>1
  <2> QED BY <1>a, <1>b, <1>c, <2>1, FitIs
<1>6. Wide(f, g, w, h, up) => f.width = x /\ f.height = b
  BY <1>b, <1>c DEF Wide
<1>7. Tall(f, g, w, h, up) => f.height = y /\ f.width = a
  BY <1>b, <1>c DEF Tall
<1>8. CASE p * bh >= bw * q
  <2>1. CASE b > h
    <3>1. y = 2
      BY <1>b, <1>4, <2>1
    <3> QED BY <1>5, <1>7, <1>8, <2>1, <3>1
  <2>2. CASE ~ (b > h) /\ x <= w
    <3>1. x * q <= h * p
      <4>1. q * x <= q * w /\ q * w <= q * bw /\ q * w <= q * p
        BY <1>a, <2>2, Scaled
      <4>2. q * x = x * q /\ q * bw = bw * q /\ q * p = p * q /\ q * w \in Nat
            /\ x * q \in Nat /\ bw * q \in Nat /\ p * q \in Nat /\ p * bh \in Nat
        OBVIOUS
      <4>3. x * q <= p * bh /\ x * q <= p * q
        BY <1>8, <4>1, <4>2
      <4>4. h * p = p * bh \/ h * p = p * q
        BY <1>a
      <4> QED BY <4>3, <4>4, Zenon
    <3>2. b = 2 \/ (x * q - b * p <= p /\ b * p - x * q <= p)
      BY <1>3, <3>1, RoundedShape
    <3>3. f.width = x /\ f.height = b
      BY <1>5, <1>6, <1>8, <2>2
    <3>4. PICK n \in Nat, m \in Nat : n = x * q /\ m = b * p
      BY <1>4
    <3>5. b = 2 \/ (n - m <= p /\ -(n - m) <= p)
      BY <3>2, <3>4
    <3>6. f.width * q - f.height * p = n - m
      BY <3>3, <3>4
    <3> QED BY <3>3, <3>5, <3>6, Zenon
  <2>3. CASE ~ (b > h) /\ x = 2
    BY <1>5, <1>6, <1>8, <2>3
  <2> QED BY <1>b, <2>1, <2>2, <2>3
<1>9. CASE ~ (p * bh >= bw * q)
  <2>1. CASE a > w
    <3>1. x = 2
      BY <1>b, <1>4, <2>1
    <3> QED BY <1>5, <1>6, <1>9, <2>1, <3>1
  <2>2. CASE ~ (a > w) /\ y <= h
    <3>1. y * p <= w * q
      <4>1. p * y <= p * h /\ p * h <= p * bh /\ p * h <= p * q
        BY <1>a, <2>2, Scaled
      <4>2. p * y = y * p /\ y * p \in Nat /\ p * h \in Nat
            /\ bw * q \in Nat /\ p * q \in Nat /\ p * bh \in Nat
        OBVIOUS
      <4>3. y * p <= bw * q /\ y * p <= p * q
        BY <1>9, <4>1, <4>2
      <4>4. w * q = bw * q \/ w * q = p * q
        BY <1>a
      <4> QED BY <4>3, <4>4, Zenon
    <3>2. a = 2 \/ (y * p - a * q <= q /\ a * q - y * p <= q)
      BY <1>3, <3>1, RoundedShape
    <3>3. f.width = a /\ f.height = y
      BY <1>5, <1>7, <1>9, <2>2
    <3>4. PICK n \in Nat, m \in Nat : n = a * q /\ m = y * p
      BY <1>4
    <3>5. a = 2 \/ (n - m <= q /\ -(n - m) <= q)
      BY <3>2, <3>4
    <3>6. f.width * q - f.height * p = n - m
      BY <3>3, <3>4
    <3> QED BY <3>3, <3>5, <3>6, Zenon
  <2>3. CASE ~ (a > w) /\ y = 2
    BY <1>5, <1>7, <1>9, <2>3
  <2> QED BY <1>b, <2>1, <2>2, <2>3
<1> QED BY <1>8, <1>9

LEMMA KeepsShape ==
  ASSUME source \in Source
  PROVE  LadderKeepsShape
<1> SUFFICES ASSUME Probed(source), NEW v \in ToSet(Variants(source))
             PROVE  LET g == Geometry(source)
                        off == v.width * g.height - v.height * g.width
                        apart(side) == off <= side /\ -off <= side
                    IN  apart(g.width) \/ apart(g.height) \/ 2 \in {v.width, v.height}
  BY DEF LadderKeepsShape
<1> PICK g : g = Geometry(source)
  OBVIOUS
<1>1. g.width \in Nat \ {0} /\ g.height \in Nat \ {0}
  BY GeometryIs
<1>2. PICK i \in 1 .. 5, codec \in {"av1", "h264"} : Of(source, i, codec, v)
  <2>1. PICK k \in 1 .. 5 : From(source, k, "av1") /\ From(source, k, "h264")
    BY LadderIs
  <2>2. PICK j \in 1 .. 12 - 2 * k : v = Variants(source)[j]
    BY <2>1, VariantsAre DEF ToSet
  <2>3. CASE j <= 6 - k
    <3>1. k + j - 1 \in 1 .. 5 /\ Of(source, k + j - 1, "av1", v)
      BY <2>1, <2>2, <2>3, VariantsAre
    <3> QED BY <3>1
  <2>4. CASE ~ (j <= 6 - k)
    <3>1. j + 2 * k - 7 \in 1 .. 5 /\ Of(source, j + 2 * k - 7, "h264", v)
      BY <2>1, <2>2, <2>4, VariantsAre
    <3> QED BY <3>1
  <2> QED BY <2>3, <2>4
<1> PICK f : f = Fit(g, Specs[i], source.up)
  OBVIOUS
<1>3. v.width = f.width /\ v.height = f.height
  BY <1>2 DEF Of
<1>4. LET off == f.width * g.height - f.height * g.width
      IN  \/ off <= g.width /\ -off <= g.width
          \/ off <= g.height /\ -off <= g.height
          \/ 2 \in {f.width, f.height}
  BY <1>1, FitShape
<1> QED BY <1>3, <1>4

\* Every source that is looked at is one of those that are considered.
LEMMA SourceIs ==
  LadderSpec => [](source \in Source)
<1>1. LadderInit => source \in Source
  BY DEF LadderInit, Source
<1>2. source \in Source /\ [LadderNext]_source => (source \in Source)'
  BY SourcesAssumption DEF LadderNext, Probe
<1> QED BY <1>1, <1>2, PTL DEF LadderSpec

\* However a source that can be probed is proportioned and rotated, it has a
\* stream in each codec, made of tracks that are encoded under names of their own,
\* with sides an encoder takes and no larger than the rung or the source
\* (resolveTranscodeVariants, selectVariantsForCodec, fitVariantDimensions).
THEOREM LaddersArePlayable == LadderSpec => []LadderIsPlayable
<1>1. source \in Source => LadderIsPlayable
  BY Playable
<1> QED BY <1>1, SourceIs, PTL

\* The renditions have the shape of the source, but for a pixel
\* (fitVariantDimensions, evenNearestAtMost).
THEOREM LaddersKeepShape == LadderSpec => []LadderKeepsShape
<1>1. source \in Source => LadderKeepsShape
  BY KeepsShape
<1> QED BY <1>1, SourceIs, PTL

\* The rungs go down, in size and in bandwidth, and are the same in both codecs
\* (selectVariantsForCodec, fitVariantDimensions, estimateBandwidth).
THEOREM LaddersDescend == LadderSpec => []LadderDescends
<1>1. source \in Source => LadderDescends
  BY Descends
<1> QED BY <1>1, SourceIs, PTL

-----------------------------------------------------------------------------
(***************************************************************************)
(* Pictures.                                                               *)
(***************************************************************************)

\* A rounded quotient is half a unit off at most.
LEMMA RoundedIs ==
  ASSUME NEW n \in Nat, NEW d \in Nat \ {0}, NEW up
  PROVE  LET r == Rounded(n, d, up)
         IN  r \in Int /\ d * (2 * r) <= 2 * n + d /\ 2 * n - d <= d * (2 * r)
<1> PICK a \in Nat, e \in Nat \ {0} : a = 2 * n + d /\ e = 2 * d
  OBVIOUS
<1> PICK q : q = a \div e
  OBVIOUS
<1> PICK m : m = a % e
  OBVIOUS
<1>1. q \in Nat /\ m \in 0 .. e - 1 /\ a = e * q + m
  BY Quotient
<1>2. Rounded(n, d, up) = IF m = 0 /\ ~up THEN q - 1 ELSE q
  BY DEF Rounded
<1>3. e * q = d * (2 * q) /\ d * (2 * (q - 1)) = d * (2 * q) - e
  <2>1. \A x \in Nat : (2 * d) * x = d * (2 * x) /\ d * (2 * (x - 1)) = d * (2 * x) - 2 * d
    OBVIOUS
  <2>2. (2 * d) * q = d * (2 * q) /\ d * (2 * (q - 1)) = d * (2 * q) - 2 * d
    BY <1>1, <2>1
  <2> QED BY <2>1, <2>2
<1>4. d * (2 * q) \in Int
  BY <1>1
<1> QED BY <1>1, <1>2, <1>3, <1>4

\* It reaches what the quotient reaches.
LEMMA RoundedReaches ==
  ASSUME NEW n \in Nat, NEW d \in Nat \ {0}, NEW up, NEW v \in Nat, v * d <= n
  PROVE  Rounded(n, d, up) >= v
<1> PICK r : r = Rounded(n, d, up)
  OBVIOUS
<1>1. r \in Int /\ 2 * n - d <= d * (2 * r)
  BY RoundedIs
<1> SUFFICES ASSUME r < v PROVE FALSE
  BY <1>1
<1>2. d * (2 * r) <= d * (2 * (v - 1))
  <2>1. 2 * r <= 2 * (v - 1) /\ 2 * r \in Int /\ 2 * (v - 1) \in Int /\ d \in Nat
    BY <1>1
  <2> HIDE <1>1
  <2> QED BY <2>1, Scaled
<1>3. d * (2 * (v - 1)) = 2 * (v * d) - 2 * d
  OBVIOUS
<1>4. v * d \in Nat /\ d * (2 * r) \in Int
  BY <1>1
<1> QED BY <1>1, <1>2, <1>3, <1>4

\* A side a is scaled to w, the other side, b, with it to the pixel, and a then
\* with what became of b: only if a is the longer one it does not reach w again.
LEMMA ComesBack ==
  ASSUME NEW a \in Nat \ {0}, NEW b \in Nat \ {0}, NEW w \in Nat, NEW up, NEW vipsUp,
         NEW r, r = Rounded(b * w, a, up), r \in Nat, Rounded(a * r, b, vipsUp) < w
  PROVE  a > b
<1> PICK t : t = Rounded(a * r, b, vipsUp)
  OBVIOUS
<1> PICK bw, ar, bt : bw = b * w /\ ar = a * r /\ bt = b * t
  OBVIOUS
<1>1. bw \in Nat /\ ar \in Nat
  OBVIOUS
<1>2. a * (2 * r) <= 2 * bw + a /\ 2 * bw - a <= a * (2 * r)
  BY <1>1, RoundedIs
<1>3. t \in Int /\ b * (2 * t) <= 2 * ar + b /\ 2 * ar - b <= b * (2 * t)
  BY <1>1, RoundedIs
<1>4. bt \in Int /\ b * (2 * t) = 2 * bt /\ a * (2 * r) = 2 * ar
  BY <1>1, <1>3
<1>5. b * t <= b * (w - 1) /\ b * (w - 1) = bw - b
  <2>1. t <= w - 1 /\ w - 1 \in Int /\ b \in Nat
    BY <1>3
  <2>2. b * t <= b * (w - 1)
    BY <1>3, <2>1, Scaled
  <2> QED BY <2>2
<1>6. a >= b
  BY <1>1, <1>2, <1>3, <1>4, <1>5
<1>7. CASE a = b
  <2>1. 2 * r <= 2 * w + 1 /\ 2 * w - 1 <= 2 * r
    <3>1. a * (2 * r) <= a * (2 * w + 1)
      BY <1>2, <1>7
    <3>2. a * (2 * w - 1) <= a * (2 * r)
      BY <1>2, <1>7
    <3> QED BY <3>1, <3>2
  <2>2. r = w
    BY <2>1
  <2>3. 2 * t >= 2 * w - 1
    <3>1. a * (2 * w - 1) <= a * (2 * t)
      BY <1>3, <1>7, <2>2
    <3> QED BY <1>3, <3>1
  <2> QED BY <1>3, <2>3
<1> QED BY <1>6, <1>7

PicturesOK ==
  \/ picture = NoPicture
  \/ picture \in Pictures /\ wish \in Wishes

LEMMA PicturesAre == ProcessSpec => []PicturesOK
<1>1. ProcessInit => PicturesOK
  BY DEF ProcessInit, PicturesOK
<1>2. PicturesOK /\ [ProcessNext]_<<picture, wish>> => PicturesOK'
  BY DEF PicturesOK, ProcessNext, Submit
<1> QED BY <1>1, <1>2, PTL DEF ProcessSpec

\* Why a crop does not fit.
LEMMA Crops ==
  ASSUME NEW p \in Picture, NEW w \in Wish, NeedCrop(w), ~ CropFits(Thumbnail(p, CoverSize(p, w)), w)
  PROVE  IF WidthDecides(p, w)
           THEN p.width > p.height /\ Thumbnail(p, CoverSize(p, w)).height >= w.height
           ELSE p.height > p.width /\ Thumbnail(p, CoverSize(p, w)).width >= w.width
<1>1. PICK a \in Nat \ {0}, b \in Nat \ {0} : a = p.width /\ b = p.height
  BY DEF Picture
<1>2. PICK x \in Nat, y \in Nat : x = w.width /\ y = w.height
  BY DEF Wish
<1> PICK up, vipsUp : up = p.up /\ vipsUp = p.vipsUp
  OBVIOUS
<1> PICK thumb : thumb = Thumbnail(p, CoverSize(p, w))
  OBVIOUS
<1>3. ~ (thumb.width >= x /\ thumb.height >= y)
  BY <1>2 DEF CropFits
<1>4. CASE WidthDecides(p, w)
  <2> PICK r : r = Rounded(b * x, a, up)
    OBVIOUS
  <2>1. y * a <= b * x
    BY <1>1, <1>2, <1>4 DEF WidthDecides
  <2>2. b * x \in Nat /\ r \in Int /\ r >= y
    BY <2>1, RoundedIs, RoundedReaches
  <2>3. r \in Nat
    BY <2>2
  <2>4. thumb = IF a * r >= x * b THEN Size(x, Rounded(b * x, a, vipsUp))
                ELSE Size(Rounded(a * r, b, vipsUp), r)
    BY <1>1, <1>2, <1>4 DEF Thumbnail, CoverSize, Size
  <2>5. CASE a * r >= x * b
    <3>1. Rounded(b * x, a, vipsUp) >= y
      BY <2>1, <2>2, RoundedReaches
    <3>2. thumb.width = x /\ thumb.height = Rounded(b * x, a, vipsUp)
      BY <2>4, <2>5 DEF Size
    <3> QED BY <1>3, <3>1, <3>2
  <2>6. CASE ~ (a * r >= x * b)
    <3>1. thumb.width = Rounded(a * r, b, vipsUp) /\ thumb.height = r
      BY <2>4, <2>6 DEF Size
    <3>2. Rounded(a * r, b, vipsUp) \in Int
      <4>1. a * r \in Nat
        BY <2>3
      <4> QED BY <4>1, RoundedIs
    <3>3. Rounded(a * r, b, vipsUp) < x
      BY <1>3, <2>2, <3>1, <3>2
    <3>4. a > b
      BY <2>3, <3>3, ComesBack
    <3> QED BY <1>1, <1>2, <1>4, <2>2, <3>1, <3>4
  <2> QED BY <2>5, <2>6
<1>5. CASE ~ WidthDecides(p, w)
  <2> PICK r : r = Rounded(a * y, b, up)
    OBVIOUS
  <2>1. x * b <= a * y
    BY <1>1, <1>2, <1>5 DEF WidthDecides
  <2>2. a * y \in Nat /\ r \in Int /\ r >= x
    BY <2>1, RoundedIs, RoundedReaches
  <2>3. r \in Nat
    BY <2>2
  <2>4. thumb = IF a * y >= r * b THEN Size(r, Rounded(b * r, a, vipsUp))
                ELSE Size(Rounded(a * y, b, vipsUp), y)
    BY <1>1, <1>2, <1>5 DEF Thumbnail, CoverSize, Size
  <2>5. CASE ~ (a * y >= r * b)
    <3>1. Rounded(a * y, b, vipsUp) >= x
      BY <2>1, <2>2, RoundedReaches
    <3>2. thumb.height = y /\ thumb.width = Rounded(a * y, b, vipsUp)
      BY <2>4, <2>5 DEF Size
    <3> QED BY <1>3, <3>1, <3>2
  <2>6. CASE a * y >= r * b
    <3>1. thumb.height = Rounded(b * r, a, vipsUp) /\ thumb.width = r
      BY <2>4, <2>6 DEF Size
    <3>2. Rounded(b * r, a, vipsUp) \in Int
      <4>1. b * r \in Nat
        BY <2>3
      <4> QED BY <4>1, RoundedIs
    <3>3. Rounded(b * r, a, vipsUp) < y
      BY <1>3, <2>2, <3>1, <3>2
    <3>4. b > a
      BY <2>3, <3>3, ComesBack
    <3> QED BY <1>1, <1>2, <1>5, <2>2, <3>1, <3>4
  <2> QED BY <2>5, <2>6
<1> QED BY <1>4, <1>5

\* A picture comes out with all its frames in the size that was asked for, or is
\* refused with a reason; an animation is refused because the scaled frame is
\* short of the crop only on its longer side (animatedCoverCrop), for sources
\* and wishes of any size.
THEOREM PicturesAreProcessedAsAsked == ProcessSpec => []ProcessedAsAsked
<1>1. PicturesOK => ProcessedAsAsked
  <2> SUFFICES ASSUME PicturesOK, picture # NoPicture PROVE ProcessedAsAsked
    BY DEF ProcessedAsAsked
  <2> PICK p, w : p = picture /\ w = wish
    OBVIOUS
  <2>1. /\ p \in Picture /\ w \in Wish /\ (p.pages > 1 => p.animates)
        /\ p.pages \in Nat \ {0} /\ MaxFrames \in Nat \ {0}
    <3>1. p \in Picture /\ w \in Wish /\ (p.pages > 1 => p.animates)
      BY PicturesAssumption, WishesAssumption DEF PicturesOK
    <3> QED BY <3>1, MaxFramesAssumption DEF Picture
  <2> PICK out : out = Process(p, w)
    OBVIOUS
  <2> PICK thumb : thumb = Thumbnail(p, CoverSize(p, w))
    OBVIOUS
  <2>2. out = IF LoadAllFrames(p, w) /\ NeedCrop(w) /\ ~ CropFits(thumb, w) THEN Refused("crop")
              ELSE IF ~ SupportsAnimation(w) /\ p.pages > 1 THEN Refused("static")
              ELSE IF p.pages > MaxFrames THEN Refused("frames")
              ELSE [error |-> "none", pages |-> IF LoadAllFrames(p, w) THEN p.pages ELSE 1,
                    size |-> IF NeedCrop(w) THEN Size(w.width, w.height)
                             ELSE IF w.width = 0 /\ w.height = 0 THEN Size(p.width, p.height)
                             ELSE Size(0, 0)]
    BY DEF Process
  <2>3. CASE LoadAllFrames(p, w) /\ NeedCrop(w) /\ ~ CropFits(thumb, w)
    <3>1. out.error = "crop"
      BY <2>2, <2>3 DEF Refused
    <3>2. IF WidthDecides(p, w) THEN p.width > p.height /\ thumb.height >= w.height
                                ELSE p.height > p.width /\ thumb.width >= w.width
      BY <2>1, <2>3, Crops
    <3> QED BY <3>1, <3>2 DEF ProcessedAsAsked
  <2>4. CASE ~ (LoadAllFrames(p, w) /\ NeedCrop(w) /\ ~ CropFits(thumb, w))
    <3>1. CASE ~ SupportsAnimation(w) /\ p.pages > 1
      <4>1. out.error = "static"
        BY <2>2, <2>4, <3>1 DEF Refused
      <4> QED BY <3>1, <4>1 DEF ProcessedAsAsked
    <3>2. CASE ~ (~ SupportsAnimation(w) /\ p.pages > 1) /\ p.pages > MaxFrames
      <4>1. out.error = "frames"
        BY <2>2, <2>4, <3>2 DEF Refused
      <4> QED BY <3>2, <4>1 DEF ProcessedAsAsked
    <3>3. CASE ~ (~ SupportsAnimation(w) /\ p.pages > 1) /\ ~ (p.pages > MaxFrames)
      <4>1. /\ out.error = "none" /\ out.pages = IF LoadAllFrames(p, w) THEN p.pages ELSE 1
            /\ NeedCrop(w) => out.size = Size(w.width, w.height)
        BY <2>2, <2>4, <3>3
      <4>2. LoadAllFrames(p, w) \/ p.pages = 1
        BY <2>1, <3>3 DEF LoadAllFrames
      <4>3. out.pages = p.pages /\ out.pages <= MaxFrames
        BY <2>1, <3>3, <4>1, <4>2
      <4> QED BY <4>1, <4>3 DEF ProcessedAsAsked
    <3> QED BY <3>1, <3>2, <3>3
  <2> QED BY <2>3, <2>4
<1> QED BY <1>1, PicturesAre, PTL
=============================================================================
