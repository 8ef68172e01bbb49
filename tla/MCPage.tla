------------------------------- MODULE MCPage -------------------------------
(***************************************************************************)
(* Five parts of the page that share no state, for TLC: mesh, saves and    *)
(* picker, audio sink, held keys, replay stream.  A behaviour is one of    *)
(* one part, with the others at rest, so that the run's states are the sum *)
(* of theirs.                                                              *)
(***************************************************************************)
EXTENDS Mesh, MCSaves, Sink, Keys, ReplayCodec

VARIABLE part \* the one that moves

pageVars == <<vars, savesVars, sinkVars, keysVars, codecVars, part>>

PageInit ==
  /\ part \in {"mesh", "saves", "sink", "keys", "codec"}
  /\ Init /\ SavesInit /\ SinkInit /\ KeysInit /\ CodecInit

PageNext ==
  \/ /\ part = "mesh" /\ Next
     /\ UNCHANGED <<savesVars, sinkVars, keysVars, codecVars, part>>
  \/ /\ part = "saves" /\ SavesNext
     /\ UNCHANGED <<vars, sinkVars, keysVars, codecVars, part>>
  \/ /\ part = "sink" /\ SinkNext
     /\ UNCHANGED <<vars, savesVars, keysVars, codecVars, part>>
  \/ /\ part = "keys" /\ KeysNext
     /\ UNCHANGED <<vars, savesVars, sinkVars, codecVars, part>>
  \/ /\ part = "codec" /\ CodecNext
     /\ UNCHANGED <<vars, savesVars, sinkVars, keysVars, part>>

PageSpec == PageInit /\ [][PageNext]_pageVars
=============================================================================
