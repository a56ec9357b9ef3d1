--------------------------- MODULE MCPlayerParts ---------------------------
(***************************************************************************)
(* One instance of the web player: the controller with its worker, and the *)
(* four stages of the worker and of the audio output by themselves.  They  *)
(* share no variable: part says which of them this behaviour is about, and *)
(* the others stay in one of their initial states.                         *)
(***************************************************************************)
EXTENDS PlaybackController, HlsSource, TsDemux, Mp4Remux, PcmAudio

VARIABLE part
RefDur == [video |-> 5, audio |-> 3]
RemuxJumps == {-3, 5}
Replacing == {"none", "live", "cmaf"}   \* bound: what replaces the first stream

PartsInit ==
  /\ part \in {"playback", "source", "demux", "remux", "audio"}
  /\ Init /\ HlsInit /\ TsInit /\ RemuxInit /\ PcmInit
  /\ part # "playback" => mt.refuses = {}
  /\ part # "source" => srv = [first |-> 0, last |-> 0, ended |-> FALSE, multi |-> FALSE]
  /\ part # "demux" => net.start = 0 /\ ~net.hls /\ x.audio = "mp3"
  /\ part # "remux" => mux.offset = 0 /\ ~mux.silent /\ sender.mode = "hls"
  /\ part # "audio" => a.from = 0
PartsNext ==
  /\ UNCHANGED part
  /\ \/ part = "playback" /\ Next /\ (mt.gen = 1 /\ mt'.gen = 2 => mt'.segs \in Replacing)
        /\ UNCHANGED <<hlsVars, tsVars, remuxVars, pcmVars>>
     \/ part = "source" /\ HlsNext /\ UNCHANGED <<vars, tsVars, remuxVars, pcmVars>>
     \/ part = "demux" /\ TsNext /\ UNCHANGED <<vars, hlsVars, remuxVars, pcmVars>>
     \/ part = "remux" /\ RemuxNext /\ UNCHANGED <<vars, hlsVars, tsVars, pcmVars>>
     \/ part = "audio" /\ PcmNext /\ UNCHANGED <<vars, hlsVars, tsVars, remuxVars>>
PartsSpec == PartsInit /\ [][PartsNext]_<<part, vars, hlsVars, tsVars, remuxVars, pcmVars>>
=============================================================================
