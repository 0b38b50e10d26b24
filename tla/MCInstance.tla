----------------------------- MODULE MCInstance -----------------------------
(* Instances of Instance for TLC. *)
EXTENDS Instance
CONSTANTS t1, t2

MCThreads == {t1, t2}

\* The two drivers the build knows of.
MCRegistrations == <<"vulkan", "videotoolbox">>
=============================================================================
