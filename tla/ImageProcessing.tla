--------------------------- MODULE ImageProcessing ---------------------------
(***************************************************************************)
(* What becomes of a picture on its way through internal/image/processor:  *)
(* which frames are loaded, how an animation is scaled and cropped, and    *)
(* what is refused. Still pictures are left to libvips, and so is any      *)
(* picture of which one side only is asked for: their size is not modelled.*)
(***************************************************************************)
EXTENDS Integers

CONSTANTS
  Pictures,  \* the sources that are considered
  Wishes,    \* the options that are considered
  MaxFrames  \* Limits.MaxAnimationFrames

\* A source: the size of a frame, how many it has, whether it is a GIF or a
\* WebP; and which way floating point numbers go, here and in libvips, for a
\* side half way between two pixels.
Picture == [width : Nat \ {0}, height : Nat \ {0}, pages : Nat \ {0},
            animates : BOOLEAN, up : BOOLEAN, vipsUp : BOOLEAN]

\* ParseOptions, and the format of the URL. A side of 0 is not asked for.
Wish == [width : Nat, height : Nat, format : {"webp", "gif", "avif", "jpeg", "png"}]

ASSUME PicturesAssumption ==
  \A p \in Pictures : p \in Picture /\ (p.pages > 1 => p.animates)
ASSUME WishesAssumption == \A w \in Wishes : w \in Wish
ASSUME MaxFramesAssumption == MaxFrames \in Nat \ {0}

VARIABLES picture, wish  \* what is processed

Rounded(n, d, up) ==
  LET half == (2 * n + d) \div (2 * d)
  IN  IF (2 * n + d) % (2 * d) = 0 /\ ~up THEN half - 1 ELSE half

SupportsAnimation(w) == w.format \in {"webp", "gif"}
LoadAllFrames(p, w) == SupportsAnimation(w) /\ p.animates
NeedCrop(w) == w.width > 0 /\ w.height > 0

Size(w, h) == [width |-> w, height |-> h]

\* Width decides how far a picture has to be scaled to cover the wish.
WidthDecides(p, w) == w.width * p.height >= w.height * p.width

\* Mutant of CoverSize: the other side is cut off, not rounded.
CoverSizeCut(p, w) ==
  IF WidthDecides(p, w) THEN Size(w.width, (p.height * w.width) \div p.width)
                        ELSE Size((p.width * w.height) \div p.height, w.height)

\* animatedCoverCrop: coverW and coverH.
CoverSize(p, w) ==
  IF WidthDecides(p, w) THEN Size(w.width, Rounded(p.height * w.width, p.width, p.up))
                        ELSE Size(Rounded(p.width * w.height, p.height, p.up), w.height)

\* vips_thumbnail scales a picture to fit into a box, and rounds.
Thumbnail(p, box) ==
  IF p.width * box.height >= box.width * p.height
    THEN Size(box.width, Rounded(p.height * box.width, p.width, p.vipsUp))
    ELSE Size(Rounded(p.width * box.height, p.height, p.vipsUp), box.height)

\* ExtractAreaMultiPage fails when the area is not inside of the frame. The
\* offsets, half of what is too much but not negative, put it inside if it fits.
CropFits(frame, w) == frame.width >= w.width /\ frame.height >= w.height

Refused(why) == [error |-> why, size |-> Size(0, 0), pages |-> 0]

\* Process: the frames that are loaded, then what is refused.
Process(p, w) ==
  IF LoadAllFrames(p, w) /\ NeedCrop(w) /\ ~CropFits(Thumbnail(p, CoverSize(p, w)), w)
    THEN Refused("crop")
  ELSE IF ~SupportsAnimation(w) /\ p.pages > 1 THEN Refused("static")
  ELSE IF p.pages > MaxFrames THEN Refused("frames")
  ELSE [error |-> "none", pages |-> IF LoadAllFrames(p, w) THEN p.pages ELSE 1,
        size |-> IF NeedCrop(w) THEN Size(w.width, w.height)
                 ELSE IF w.width = 0 /\ w.height = 0 THEN Size(p.width, p.height)
                 ELSE Size(0, 0)]  \* libvips decides

NoPicture == [width |-> 0, height |-> 0, pages |-> 0, animates |-> FALSE,
              up |-> TRUE, vipsUp |-> TRUE]
NoWish == [width |-> 0, height |-> 0, format |-> "png"]

ProcessInit == picture = NoPicture /\ wish = NoWish
Submit(p, w) == picture = NoPicture /\ picture' = p /\ wish' = w
ProcessNext == \E p \in Pictures, w \in Wishes : Submit(p, w)
ProcessSpec == ProcessInit /\ [][ProcessNext]_<<picture, wish>>
-----------------------------------------------------------------------------

\* A picture comes out with all its frames and in the size that was asked for,
\* or it is refused, and not without a reason. The scaled frame of a GIF or WebP
\* can be short of the crop it is scaled for, since libvips fits it into the
\* rounded size; but only a picture that is wider than tall and scaled by its
\* width, or taller than wide and scaled by its height, and only on that side.
ProcessedAsAsked ==
  picture # NoPicture =>
    LET out == Process(picture, wish)
        thumb == Thumbnail(picture, CoverSize(picture, wish))
    IN
    /\ out.error = "none" => /\ out.pages = picture.pages /\ out.pages <= MaxFrames
                             /\ NeedCrop(wish) => out.size = Size(wish.width, wish.height)
    /\ out.error = "static" => picture.pages > 1 /\ ~SupportsAnimation(wish)
    /\ out.error = "frames" => picture.pages > MaxFrames
    /\ out.error = "crop" =>
         IF WidthDecides(picture, wish)
           THEN picture.width > picture.height /\ thumb.height >= wish.height
           ELSE picture.height > picture.width /\ thumb.width >= wish.width
=============================================================================
