----------------------------- MODULE VoiceNotes ------------------------------
(***************************************************************************)
(* produce_voice_note (audio_pipeline.py) for one RESERVED delivery, run   *)
(* by ticks that may overlap and die.  The temporary path of a delivery is *)
(* t16-<id> for every tick (delivery.py), so overlapping ones write and    *)
(* delete each other's files.  A file is written over time, and a reader   *)
(* gets what is there; both are steps of their own.                        *)
(*                                                                         *)
(* All ticks speak the same sentence: it matters only whether a file is    *)
(* whole.  ffmpeg is taken to die with the tick that started it.           *)
(***************************************************************************)
EXTENDS Naturals, FiniteSets

CONSTANTS
  Producers,  \* ticks
  MaxCrashes  \* bound: ticks that die

ASSUME VoiceAssumption == MaxCrashes \in Nat

VARIABLES
  wav, ogg,  \* the two temporary files
  stored,    \* deliveries.audio_data, Nothing while RESERVED
  job,       \* the locals of each tick's produce_voice_note
  leftovers, \* history: the files last removed before a tick died
  crashes

vars == <<wav, ogg, stored, job, leftovers, crashes>>

Nothing == [there |-> FALSE, open |-> {}, sound |-> FALSE]

\* open is who is writing; sound tells that what they wrote is no mixture and
\* was cut short by nobody.
File == [there : BOOLEAN, open : SUBSET Producers, sound : BOOLEAN]

Whole(file) == file.there /\ file.open = {} /\ file.sound

\* Opening for writing truncates; another writer's data goes on arriving.
Opened(file, p) ==
  [there |-> TRUE, open |-> file.open \cup {p}, sound |-> file.open = {}]

\* The writer is done; it wrote what it should or not.  A file that was
\* deleted meanwhile, or deleted and made again, is not p's any more.
Closed(file, p, sound) ==
  IF p \in file.open
    THEN [file EXCEPT !.open = @ \ {p}, !.sound = @ /\ sound]
    ELSE file

\* alone is history: no other tick was at work since this one began.
Job ==
  [pc : {"idle", "synthesize", "speak", "convert", "encode", "validate", "read",
         "unlink", "remove", "mark"},
   source : BOOLEAN, bytes : {"none", "broken", "whole"}, alone : BOOLEAN]

Idle == [pc |-> "idle", source |-> FALSE, bytes |-> "none", alone |-> FALSE]

Init ==
  /\ wav = Nothing /\ ogg = Nothing
  /\ stored = "none"
  /\ job = [p \in Producers |-> Idle]
  /\ leftovers = {}
  /\ crashes = 0

Busy == {p \in Producers : job[p].pc # "idle"}

Go(p, step) == job' = [job EXCEPT ![p].pc = step]

\* Any exception up to read_bytes leads to the two unlinks.
Raise(p) == job' = [job EXCEPT ![p].pc = "unlink", ![p].bytes = "none"]

\* run_daily_send read RESERVED.
Begin(p) ==
  /\ stored = "none"
  /\ job[p].pc = "idle"
  /\ job' = [q \in Producers |->
               IF q = p THEN [Idle EXCEPT !.pc = "synthesize",
                                          !.alone = (Busy = {})]
               ELSE [job[q] EXCEPT !.alone = FALSE]]
  /\ UNCHANGED <<wav, ogg, stored, leftovers, crashes>>

\* Fault: a WAV file that is there already is used.
FaultReusesWav(p) ==
  /\ job[p].pc = "synthesize"
  /\ \/ wav.there /\ Go(p, "convert") /\ UNCHANGED wav
     \/ ~wav.there /\ Go(p, "speak") /\ wav' = Opened(wav, p)
     \/ Raise(p) /\ UNCHANGED wav
  /\ UNCHANGED <<ogg, stored, leftovers, crashes>>

\* synthesize_to_wav: the model fails, or sf.write starts.
Synthesize(p) ==
  /\ job[p].pc = "synthesize"
  /\ \/ Go(p, "speak") /\ wav' = Opened(wav, p)
     \/ Raise(p) /\ UNCHANGED wav
  /\ UNCHANGED <<ogg, stored, leftovers, crashes>>

Spoken(p) ==
  /\ job[p].pc = "speak"
  /\ \/ Go(p, "convert") /\ wav' = Closed(wav, p, TRUE)
     \/ Raise(p) /\ wav' = Closed(wav, p, FALSE)
  /\ UNCHANGED <<ogg, stored, leftovers, crashes>>

\* convert_to_opus: sf.info reads the rate, and ffmpeg -y starts.
StartFfmpeg(p) ==
  /\ job[p].pc = "convert"
  /\ \/ /\ wav.there
        /\ job' = [job EXCEPT ![p].pc = "encode", ![p].source = Whole(wav)]
        /\ ogg' = Opened(ogg, p)
     \/ Raise(p) /\ UNCHANGED ogg
  /\ UNCHANGED <<wav, stored, leftovers, crashes>>

\* ffmpeg ends: what it read was whole if the file was when it started and
\* nobody wrote to it since; a deleted file can still be read to its end.
FfmpegEnds(p) ==
  /\ job[p].pc = "encode"
  /\ \/ /\ Go(p, "validate")
        /\ ogg' = Closed(ogg, p, job[p].source /\ (wav.there => Whole(wav)))
     \/ Raise(p) /\ ogg' = Nothing
  /\ UNCHANGED <<wav, stored, leftovers, crashes>>

\* validate_audio: a cut-off recording may pass, and a whole one fail.
Validate(p) ==
  /\ job[p].pc = "validate"
  /\ \/ ogg.there /\ Go(p, "read")
     \/ Raise(p)
  /\ UNCHANGED <<wav, ogg, stored, leftovers, crashes>>

\* Fault: no file is no bytes.
FaultReadsNothing(p) ==
  /\ job[p].pc = "read"
  /\ job' = [job EXCEPT ![p].pc = "unlink",
               ![p].bytes = IF ogg.there /\ Whole(ogg) THEN "whole" ELSE "empty"]
  /\ UNCHANGED <<wav, ogg, stored, leftovers, crashes>>

ReadBytes(p) ==
  /\ job[p].pc = "read"
  /\ \/ /\ ogg.there
        /\ job' = [job EXCEPT ![p].pc = "unlink",
                     ![p].bytes = IF Whole(ogg) THEN "whole" ELSE "broken"]
     \/ ~ogg.there /\ Raise(p)
  /\ UNCHANGED <<wav, ogg, stored, leftovers, crashes>>

\* Fault: the WAV file goes only when all went well.
FaultUnlinkOnSuccess(p) ==
  /\ job[p].pc = "unlink"
  /\ wav' = IF job[p].bytes = "none" THEN wav ELSE Nothing
  /\ Go(p, "remove")
  /\ UNCHANGED <<ogg, stored, leftovers, crashes>>

\* temp_wav.unlink(missing_ok=True), in both branches.
UnlinkWav(p) ==
  /\ job[p].pc = "unlink"
  /\ wav' = Nothing
  /\ leftovers' = leftovers \ {"wav"}
  /\ Go(p, "remove")
  /\ UNCHANGED <<ogg, stored, crashes>>

\* destination.unlink, then the exception again or mark_audio_ready.
UnlinkOgg(p) ==
  /\ job[p].pc = "remove"
  /\ ogg' = Nothing
  /\ leftovers' = leftovers \ {"ogg"}
  /\ IF job[p].bytes = "none" THEN job' = [job EXCEPT ![p] = Idle]
                              ELSE Go(p, "mark")
  /\ UNCHANGED <<wav, stored, crashes>>

\* mark_audio_ready stores the bytes of a RESERVED delivery, or raises.
MarkAudioReady(p) ==
  /\ job[p].pc = "mark"
  /\ stored' = IF stored = "none" THEN job[p].bytes ELSE stored
  /\ job' = [job EXCEPT ![p] = Idle]
  /\ UNCHANGED <<wav, ogg, leftovers, crashes>>

\* The tick dies; what it was writing stays as it is.
Crash(p) ==
  /\ crashes < MaxCrashes
  /\ job[p].pc # "idle"
  /\ crashes' = crashes + 1
  /\ leftovers' = {"wav", "ogg"}
  /\ wav' = Closed(wav, p, FALSE)
  /\ ogg' = Closed(ogg, p, FALSE)
  /\ job' = [job EXCEPT ![p] = Idle]
  /\ UNCHANGED stored

Next ==
  \E p \in Producers :
    \/ Begin(p) \/ Synthesize(p) \/ Spoken(p)
    \/ StartFfmpeg(p) \/ FfmpegEnds(p) \/ Validate(p) \/ ReadBytes(p)
    \/ UnlinkWav(p) \/ UnlinkOgg(p) \/ MarkAudioReady(p) \/ Crash(p)

Spec == Init /\ [][Next]_vars

(***************************************************************************)
(* Properties                                                              *)
(***************************************************************************)

TypeOK ==
  /\ wav \in File /\ ogg \in File
  /\ stored \in {"none", "broken", "whole"}
  /\ job \in [Producers -> Job]
  /\ \A p \in Producers : job[p].pc = "mark" => job[p].bytes # "none"
  /\ leftovers \subseteq {"wav", "ogg"}
  /\ crashes \in 0 .. MaxCrashes

\* A tick that is alone from its start never takes up what another one left: it
\* holds a whole note although the files of a tick that died may be there,
\* whole or cut off.
NotesAreWhole ==
  \A p \in Producers :
    (job[p].pc = "mark" /\ job[p].alone) => job[p].bytes = "whole"

\* "Leaves no on-disk file ... on any failure" (produce_voice_note): when no
\* tick is at work the files are gone, whatever failed and however the ticks
\* overlapped, unless one died since they were removed.
NoFileLeft ==
  Busy = {} => /\ wav.there => "wav" \in leftovers
               /\ ogg.there => "ogg" \in leftovers
=============================================================================
