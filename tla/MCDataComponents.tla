--------------------------- MODULE MCDataComponents ---------------------------
(* Instances of the components that share no state with anything: the memory *)
(* cache, the requests, the ladder of renditions and the processing of       *)
(* pictures. One of them at a time.                                          *)
EXTENDS LRUCache, JobRequest, VariantLadder, ImageProcessing

\* Three entries fit, or a large one; one kind of data is too large.
MCData == {[size |-> n, body |-> "a"] : n \in {0, 1, 2, 4}} \cup {[size |-> 1, body |-> "b"]}

\* All pipelines with at most one download, or two that are well formed.
MCAudioPipelines ==
  [waveform : [state : Switch, known : BOOLEAN, bins : {0, 1024, 2048}],
   normalize : {"off", "on"}, package : Package,
   downloads : {<<>>} \cup {<<d>> : d \in Download}
     \cup {<<c, d>> : c, d \in {d \in Download : DownloadOK(d) /\ d.format # "unset"}}]

MCVideoPipelines == VideoPipeline

\* Sources around the edges of the rungs, and sideways ones.
Around(n) == n - 2 .. n + 2
MCSides == (0 .. 12) \cup {3840, 4095, 7680}
           \cup UNION {Around(n) : n \in {240, 360, 426, 480, 640, 720, 854, 1080, 1280, 1920}}
MCSources == [width : MCSides, height : MCSides, side : {0}, tag : {0}, up : BOOLEAN]
             \cup [width : {1919, 240}, height : {426, 1080}, side : {0, 45, -90, 180},
                   tag : {0, 90, -270, 450}, up : {TRUE}]

\* Banners, squares and columns, stills and animations of up to one frame too many.
MCFrames == {1, 2, 3, 90, 279, 281, 500, 728}
MCPictures == [width : MCFrames, height : MCFrames, pages : {1}, animates : BOOLEAN,
               up : BOOLEAN, vipsUp : BOOLEAN]
              \cup [width : MCFrames, height : MCFrames, pages : {2, 3}, animates : {TRUE},
                    up : {TRUE}, vipsUp : {TRUE}]
MCWishes == [width : {0, 1, 2, 50, 300}, height : {0, 1, 37, 150, 301}, format : {"gif", "png"}]

Init == LRUInit /\ RequestInit /\ LadderInit /\ ProcessInit

Fresh == asked.kind = "none" /\ source.width = -1 /\ picture = NoPicture

Next ==
  \/ Fresh /\ LRUNext /\ UNCHANGED <<asked, source, picture, wish>>
  \/ /\ Fresh /\ recency = <<>> /\ \A k \in CacheKeys : newest[k] = Nothing
     /\ \/ RequestNext /\ UNCHANGED <<source, picture, wish>>
        \/ LadderNext /\ UNCHANGED <<asked, picture, wish>>
        \/ ProcessNext /\ UNCHANGED <<asked, source>>
     /\ UNCHANGED lruVars

Spec == Init /\ [][Next]_<<lruVars, asked, source, picture, wish>>
=============================================================================
