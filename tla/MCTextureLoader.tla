-------------------------- MODULE MCTextureLoader ---------------------------
(* Small instances of TextureLoader for TLC. *)
EXTENDS TextureLoader, TLC

CONSTANTS t1, t2, a, b, lost, text

\* An image beside a texture of each of the other types.
ImageAndOther == {(t1 :> "ImageTexture") @@ (t2 :> o) :
                    o \in {"PixelTexture", "MovieTexture"}}
OneImage      == {t1 :> "ImageTexture"}

\* No url, one image, a missing file before a file that is no image.
Urls     == {<<>>, <<a>>, <<lost, text>>}
TwoUrls  == {<<a>>, <<b>>}
=============================================================================
