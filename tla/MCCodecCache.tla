--------------------------- MODULE MCCodecCache ---------------------------
(* Instances of CodecCache for TLC. *)
EXTENDS CodecCache
CONSTANTS t1, t2, h264, h265, av1, caps1, caps2

MCThreads == {t1, t2}
MCCodecs == {h264, h265, av1}
MCCapabilities == {caps1, caps2}
=============================================================================
