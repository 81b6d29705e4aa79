-------------------------- MODULE VoiceNotesProofs --------------------------
(***************************************************************************)
(* NotesAreWhole and NoFileLeft for any number of ticks and crashes.  A    *)
(* tick that is alone owns the two files from the moment it opens them;    *)
(* and a file that is there belongs to a tick that has yet to remove it,   *)
(* unless a tick died.                                                     *)
(***************************************************************************)
EXTENDS VoiceNotes, TLAPS

WavSteps == {"speak", "convert", "encode", "validate", "read", "unlink"}
OggSteps == {"encode", "validate", "read", "unlink", "remove"}

\* Writers are at the step that writes.
OpenInv ==
  \A p \in Producers :
    /\ p \in wav.open => job[p].pc = "speak"
    /\ p \in ogg.open => job[p].pc = "encode"

\* What p, alone, finds at the step of its locals in the files w and o.
AloneAt(p, locals, w, o) ==
  /\ locals.pc = "speak" => w.open = {p} /\ w.there /\ w.sound
  /\ locals.pc \in {"convert", "encode"} => Whole(w)
  /\ locals.pc = "encode" => locals.source /\ o.open = {p} /\ o.there /\ o.sound
  /\ locals.pc \in {"validate", "read"} => Whole(o)
  /\ locals.pc \in {"unlink", "remove", "mark"} => locals.bytes # "broken"

AloneInv ==
  \A p \in Producers :
    job[p].alone /\ job[p].pc # "idle" =>
      Busy = {p} /\ AloneAt(p, job[p], wav, ogg)

\* Who will remove the files that are there.
OwnedInv ==
  /\ wav.there =>
       "wav" \in leftovers \/ \E p \in Producers : job[p].pc \in WavSteps
  /\ ogg.there =>
       "ogg" \in leftovers \/ \E p \in Producers : job[p].pc \in OggSteps

IInv == TypeOK /\ OpenInv /\ AloneInv /\ OwnedInv

LEMMA InitIInv == Init => IInv
BY VoiceAssumption
   DEF Init, IInv, TypeOK, OpenInv, AloneInv, OwnedInv, Nothing, File, Idle, Job

LEMMA OpenedIs ==
  ASSUME NEW file \in File, NEW p \in Producers
  PROVE  /\ Opened(file, p) \in File /\ Opened(file, p).there
         /\ Opened(file, p).open = file.open \cup {p}
         /\ (file.open = {} => Opened(file, p).sound)
BY DEF Opened, File

LEMMA ClosedIs ==
  ASSUME NEW file \in File, NEW p \in Producers, NEW sound \in BOOLEAN
  PROVE  /\ Closed(file, p, sound) \in File
         /\ Closed(file, p, sound).there = file.there
         /\ Closed(file, p, sound).open = file.open \ {p}
         /\ (file.open = {p} /\ file.sound /\ sound =>
               Closed(file, p, sound).sound)
BY DEF Closed, File

LEMMA NothingIs == Nothing \in File /\ ~Nothing.there /\ Nothing.open = {}
BY DEF Nothing, File

(***************************************************************************)
(* One step within the work of p                                           *)
(***************************************************************************)

\* p keeps or loses the file it is to remove.
Handed(there, thereThen, name, steps, p, locals) ==
  thereThen =>
    \/ name \in leftovers' \/ locals.pc \in steps
    \/ there /\ job[p].pc \notin steps /\ (name \in leftovers => name \in leftovers')

\* What every action but Begin has to show for the tick that takes it.
StepOf(p, locals) ==
  /\ job[p].pc # "idle" /\ locals \in Job
  /\ job' = [job EXCEPT ![p] = locals]
  /\ locals.pc # "idle" => locals.alone = job[p].alone
  /\ locals.pc = "mark" => locals.bytes # "none"
  /\ wav' \in File /\ ogg' \in File
  /\ stored' \in {"none", "broken", "whole"}
  /\ leftovers' \subseteq {"wav", "ogg"}
  /\ crashes' \in 0 .. MaxCrashes
  /\ wav'.open \subseteq wav.open \cup {p} /\ (p \in wav'.open => locals.pc = "speak")
  /\ ogg'.open \subseteq ogg.open \cup {p} /\ (p \in ogg'.open => locals.pc = "encode")
  /\ Handed(wav.there, wav'.there, "wav", WavSteps, p, locals)
  /\ Handed(ogg.there, ogg'.there, "ogg", OggSteps, p, locals)
  /\ job[p].alone /\ locals.pc # "idle" => AloneAt(p, locals, wav', ogg')

LEMMA StepKeeps ==
  ASSUME IInv, NEW p \in Producers, NEW locals, StepOf(p, locals)
  PROVE  IInv'
<1>1. /\ job' \in [Producers -> Job] /\ job'[p] = locals
      /\ \A q \in Producers : q # p => job'[q] = job[q]
  BY DEF StepOf, IInv, TypeOK
<1>2. TypeOK'
  BY <1>1 DEF StepOf, IInv, TypeOK
<1>3. OpenInv'
  BY <1>1 DEF StepOf, IInv, OpenInv
<1>4. AloneInv'
  <2> SUFFICES ASSUME NEW q \in Producers, job'[q].alone, job'[q].pc # "idle"
               PROVE  Busy' = {q} /\ AloneAt(q, job'[q], wav', ogg')
    BY DEF AloneInv, AloneAt, Whole
  <2>1. q = p
    <3> SUFFICES ASSUME q # p PROVE FALSE
      OBVIOUS
    <3>1. Busy = {q}
      BY <1>1 DEF IInv, AloneInv
    <3> QED BY <3>1 DEF Busy, StepOf
  <2>2. job[p].alone /\ job[p].pc # "idle"
    BY <1>1, <2>1 DEF StepOf
  <2>3. Busy = {p}
    BY <2>2 DEF IInv, AloneInv
  <2>4. Busy' = {p}
    BY <1>1, <2>1, <2>3 DEF Busy
  <2> QED BY <1>1, <2>1, <2>2, <2>4 DEF StepOf
<1>5. OwnedInv'
  <2>1. wav'.there =>
          "wav" \in leftovers' \/ \E q \in Producers : job'[q].pc \in WavSteps
    BY <1>1 DEF StepOf, IInv, OwnedInv, Handed
  <2>2. ogg'.there =>
          "ogg" \in leftovers' \/ \E q \in Producers : job'[q].pc \in OggSteps
    BY <1>1 DEF StepOf, IInv, OwnedInv, Handed
  <2> QED BY <2>1, <2>2 DEF OwnedInv
<1> QED BY <1>2, <1>3, <1>4, <1>5 DEF IInv

\* What a tick at work can rely on.
LEMMA AtWork ==
  ASSUME IInv, NEW p \in Producers, job[p].pc # "idle"
  PROVE  /\ job[p] \in Job /\ wav \in File /\ ogg \in File
         /\ stored \in {"none", "broken", "whole"}
         /\ leftovers \subseteq {"wav", "ogg"} /\ crashes \in 0 .. MaxCrashes
         /\ (job[p].pc = "mark" => job[p].bytes # "none")
         /\ (p \in wav.open => job[p].pc = "speak")
         /\ (p \in ogg.open => job[p].pc = "encode")
         /\ (job[p].alone => /\ AloneAt(p, job[p], wav, ogg)
                             /\ wav.open \subseteq {p} /\ ogg.open \subseteq {p})
<1>1. \A q \in wav.open \cup ogg.open : q \in Busy
  BY DEF IInv, TypeOK, OpenInv, Busy, File
<1> QED BY <1>1 DEF IInv, TypeOK, OpenInv, AloneInv

LEMMA RaiseKeeps ==
  ASSUME IInv, NEW p \in Producers, Raise(p),
         job[p].pc \notin {"idle", "unlink", "remove", "mark"},
         UNCHANGED <<stored, leftovers, crashes>>, wav' \in File, ogg' \in File,
         wav'.open = wav.open \ {p}, wav'.there = wav.there,
         ogg'.open \subseteq ogg.open \ {p}, ogg'.there => ogg.there
  PROVE  IInv'
<1> DEFINE locals == [job[p] EXCEPT !.pc = "unlink", !.bytes = "none"]
<1>1. job' = [job EXCEPT ![p] = locals]
  BY DEF Raise
<1> job[p] \in Job
  BY AtWork
<1>2. locals \in Job /\ locals.pc = "unlink" /\ locals.bytes = "none"
      /\ locals.alone = job[p].alone
  BY DEF Job
<1> HIDE DEF locals
<1>3. AloneAt(p, locals, wav', ogg')
  BY <1>2 DEF AloneAt
<1>4. StepOf(p, locals)
  BY <1>1, <1>2, <1>3, AtWork DEF StepOf, Handed, WavSteps, OggSteps
<1> QED BY <1>4, StepKeeps

\* Going on to a step without another change to the locals.
LEMMA GoIs ==
  ASSUME NEW p \in Producers, job[p] \in Job, NEW step, Go(p, step),
         step \in {"speak", "convert", "validate", "read", "remove", "mark"}
  PROVE  \E locals \in Job :
           /\ job' = [job EXCEPT ![p] = locals]
           /\ locals.pc = step /\ locals.bytes = job[p].bytes
           /\ locals.source = job[p].source /\ locals.alone = job[p].alone
<1> DEFINE locals == [job[p] EXCEPT !.pc = step]
<1>1. job' = [job EXCEPT ![p] = locals]
  BY DEF Go
<1>2. locals \in Job /\ locals.pc = step /\ locals.bytes = job[p].bytes
      /\ locals.source = job[p].source /\ locals.alone = job[p].alone
  BY DEF Job
<1> HIDE DEF locals
<1> QED BY <1>1, <1>2

(***************************************************************************)
(* The actions                                                             *)
(***************************************************************************)

LEMMA BeginKeeps == ASSUME IInv, NEW p \in Producers, Begin(p) PROVE IInv'
<1> DEFINE begun == [Idle EXCEPT !.pc = "synthesize", !.alone = (Busy = {})]
<1>1. /\ job[p].pc = "idle"
      /\ UNCHANGED <<wav, ogg, stored, leftovers, crashes>>
      /\ job' = [q \in Producers |->
                   IF q = p THEN begun ELSE [job[q] EXCEPT !.alone = FALSE]]
  BY DEF Begin
<1>2. begun \in Job /\ begun.pc = "synthesize" /\ (begun.alone <=> Busy = {})
  BY DEF Idle, Job
<1> HIDE DEF begun
<1>3. \A q \in Producers :
        LET quiet == [job[q] EXCEPT !.alone = FALSE] IN
        quiet \in Job /\ quiet.pc = job[q].pc /\ quiet.bytes = job[q].bytes
          /\ ~quiet.alone
  BY DEF IInv, TypeOK, Job
<1>4. job' \in [Producers -> Job] /\ job'[p] = begun
      /\ \A q \in Producers : q # p =>
           job'[q].pc = job[q].pc /\ job'[q].bytes = job[q].bytes /\ ~job'[q].alone
  BY <1>1, <1>2, <1>3
<1>5. TypeOK'
  BY <1>1, <1>2, <1>4 DEF IInv, TypeOK
<1>6. OpenInv'
  BY <1>1, <1>2, <1>4 DEF IInv, OpenInv
<1>7. AloneInv'
  <2>1. \A q \in Producers : job'[q].alone => q = p /\ Busy = {}
    BY <1>2, <1>4
  <2>2. Busy = {} => Busy' = {p}
    BY <1>2, <1>4 DEF Busy
  <2> QED BY <1>2, <1>4, <2>1, <2>2 DEF AloneInv, AloneAt
<1>8. OwnedInv'
  BY <1>1, <1>4 DEF IInv, OwnedInv, WavSteps, OggSteps
<1> QED BY <1>5, <1>6, <1>7, <1>8 DEF IInv

LEMMA SynthesizeKeeps ==
  ASSUME IInv, NEW p \in Producers, Synthesize(p)
  PROVE  IInv'
<1>1. job[p].pc = "synthesize" /\ UNCHANGED <<ogg, stored, leftovers, crashes>>
  BY DEF Synthesize
<1>2. CASE Go(p, "speak") /\ wav' = Opened(wav, p)
  <2>1. PICK locals \in Job :
          /\ job' = [job EXCEPT ![p] = locals]
          /\ locals.pc = "speak" /\ locals.alone = job[p].alone
    BY <1>1, <1>2, AtWork, GoIs
  <2>2. /\ wav' \in File /\ wav'.open = wav.open \cup {p} /\ wav'.there
        /\ (wav.open = {} => wav'.sound)
    BY <1>1, <1>2, AtWork, OpenedIs
  <2>3. job[p].alone => AloneAt(p, locals, wav', ogg')
    BY <1>1, <2>1, <2>2, AtWork DEF AloneAt
  <2>4. StepOf(p, locals)
    BY <1>1, <2>1, <2>2, <2>3, AtWork DEF StepOf, Handed, WavSteps, OggSteps
  <2> QED BY <2>4, StepKeeps
<1>3. CASE Raise(p) /\ UNCHANGED wav
  BY <1>1, <1>3, AtWork, RaiseKeeps
<1> QED BY <1>2, <1>3 DEF Synthesize

LEMMA SpokenKeeps == ASSUME IInv, NEW p \in Producers, Spoken(p) PROVE IInv'
<1>1. job[p].pc = "speak" /\ UNCHANGED <<ogg, stored, leftovers, crashes>>
  BY DEF Spoken
<1>2. CASE Go(p, "convert") /\ wav' = Closed(wav, p, TRUE)
  <2>1. PICK locals \in Job :
          /\ job' = [job EXCEPT ![p] = locals]
          /\ locals.pc = "convert" /\ locals.alone = job[p].alone
    BY <1>1, <1>2, AtWork, GoIs
  <2>2. /\ wav' \in File /\ wav'.open = wav.open \ {p} /\ wav'.there = wav.there
        /\ (wav.open = {p} /\ wav.sound => wav'.sound)
    <3>1. wav \in File
      BY <1>1, AtWork
    <3> QED BY <1>2, <3>1, ClosedIs
  <2>3. job[p].alone => AloneAt(p, locals, wav', ogg')
    BY <1>1, <2>1, <2>2, AtWork DEF AloneAt, Whole
  <2>4. StepOf(p, locals)
    BY <1>1, <2>1, <2>2, <2>3, AtWork DEF StepOf, Handed, WavSteps, OggSteps
  <2> QED BY <2>4, StepKeeps
<1>3. CASE Raise(p) /\ wav' = Closed(wav, p, FALSE)
  <2>1. wav' \in File /\ wav'.open = wav.open \ {p} /\ wav'.there = wav.there
    <3>1. wav \in File
      BY <1>1, AtWork
    <3> QED BY <1>3, <3>1, ClosedIs
  <2>2. ogg' \in File /\ ogg'.open \subseteq ogg.open \ {p} /\ ogg'.there = ogg.there
    BY <1>1, AtWork
  <2> QED BY <1>1, <1>3, <2>1, <2>2, RaiseKeeps
<1> QED BY <1>2, <1>3 DEF Spoken

LEMMA StartFfmpegKeeps ==
  ASSUME IInv, NEW p \in Producers, StartFfmpeg(p)
  PROVE  IInv'
<1>1. job[p].pc = "convert" /\ UNCHANGED <<wav, stored, leftovers, crashes>>
  BY DEF StartFfmpeg
<1>2. CASE /\ wav.there
           /\ job' = [job EXCEPT ![p].pc = "encode", ![p].source = Whole(wav)]
           /\ ogg' = Opened(ogg, p)
  <2> DEFINE locals == [job[p] EXCEPT !.pc = "encode", !.source = Whole(wav)]
  <2>1. /\ job' = [job EXCEPT ![p] = locals] /\ locals \in Job
        /\ locals.pc = "encode" /\ locals.source = Whole(wav)
        /\ locals.alone = job[p].alone
    <3>1. job[p] \in Job /\ wav \in File
      BY <1>1, AtWork
    <3>2. Whole(wav) \in BOOLEAN
      BY <3>1 DEF Whole, File
    <3> QED BY <1>2, <3>1, <3>2 DEF Job
  <2> HIDE DEF locals
  <2>2. /\ ogg' \in File /\ ogg'.open = ogg.open \cup {p} /\ ogg'.there
        /\ (ogg.open = {} => ogg'.sound)
    BY <1>1, <1>2, AtWork, OpenedIs
  <2>3. job[p].alone => AloneAt(p, locals, wav', ogg')
    BY <1>1, <2>1, <2>2, AtWork DEF AloneAt
  <2>4. StepOf(p, locals)
    BY <1>1, <2>1, <2>2, <2>3, AtWork DEF StepOf, Handed, WavSteps, OggSteps
  <2> QED BY <2>4, StepKeeps
<1>3. CASE Raise(p) /\ UNCHANGED ogg
  BY <1>1, <1>3, AtWork, RaiseKeeps
<1> QED BY <1>2, <1>3 DEF StartFfmpeg

LEMMA FfmpegEndsKeeps ==
  ASSUME IInv, NEW p \in Producers, FfmpegEnds(p)
  PROVE  IInv'
<1>1. job[p].pc = "encode" /\ UNCHANGED <<wav, stored, leftovers, crashes>>
  BY DEF FfmpegEnds
<1>2. CASE /\ Go(p, "validate")
           /\ ogg' = Closed(ogg, p, job[p].source /\ (wav.there => Whole(wav)))
  <2>1. PICK locals \in Job :
          /\ job' = [job EXCEPT ![p] = locals]
          /\ locals.pc = "validate" /\ locals.alone = job[p].alone
    BY <1>1, <1>2, AtWork, GoIs
  <2>2. (job[p].source /\ (wav.there => Whole(wav))) \in BOOLEAN
    BY <1>1, AtWork DEF Job, Whole, File
  <2>3. /\ ogg' \in File /\ ogg'.open = ogg.open \ {p} /\ ogg'.there = ogg.there
        /\ (ogg.open = {p} /\ ogg.sound
              /\ job[p].source /\ (wav.there => Whole(wav)) => ogg'.sound)
    <3>1. ogg \in File
      BY <1>1, AtWork
    <3> QED BY <1>2, <2>2, <3>1, ClosedIs
  <2>4. job[p].alone => AloneAt(p, locals, wav', ogg')
    BY <1>1, <2>1, <2>3, AtWork DEF AloneAt, Whole
  <2>5. StepOf(p, locals)
    BY <1>1, <2>1, <2>3, <2>4, AtWork DEF StepOf, Handed, WavSteps, OggSteps
  <2> QED BY <2>5, StepKeeps
<1>3. CASE Raise(p) /\ ogg' = Nothing
  BY <1>1, <1>3, AtWork, RaiseKeeps, NothingIs
<1> QED BY <1>2, <1>3 DEF FfmpegEnds

LEMMA ValidateKeeps == ASSUME IInv, NEW p \in Producers, Validate(p) PROVE IInv'
<1>1. job[p].pc = "validate" /\ UNCHANGED <<wav, ogg, stored, leftovers, crashes>>
  BY DEF Validate
<1>2. CASE Go(p, "read")
  <2>1. PICK locals \in Job :
          /\ job' = [job EXCEPT ![p] = locals]
          /\ locals.pc = "read" /\ locals.alone = job[p].alone
    BY <1>1, <1>2, AtWork, GoIs
  <2>2. job[p].alone => AloneAt(p, locals, wav', ogg')
    BY <1>1, <2>1, AtWork DEF AloneAt, Whole
  <2>3. StepOf(p, locals)
    BY <1>1, <2>1, <2>2, AtWork DEF StepOf, Handed, WavSteps, OggSteps
  <2> QED BY <2>3, StepKeeps
<1>3. CASE Raise(p)
  BY <1>1, <1>3, AtWork, RaiseKeeps
<1> QED BY <1>2, <1>3 DEF Validate

LEMMA ReadBytesKeeps == ASSUME IInv, NEW p \in Producers, ReadBytes(p) PROVE IInv'
<1>1. job[p].pc = "read" /\ UNCHANGED <<wav, ogg, stored, leftovers, crashes>>
  BY DEF ReadBytes
<1> DEFINE bytes == IF Whole(ogg) THEN "whole" ELSE "broken"
           locals == [job[p] EXCEPT !.pc = "unlink", !.bytes = bytes]
<1>2. CASE job' = [job EXCEPT ![p].pc = "unlink", ![p].bytes = bytes]
  <2>1. /\ job' = [job EXCEPT ![p] = locals] /\ locals \in Job
        /\ locals.pc = "unlink" /\ locals.bytes = bytes
        /\ locals.alone = job[p].alone
    <3>1. job[p] \in Job
      BY <1>1, AtWork
    <3> QED BY <1>2, <3>1 DEF Job
  <2> HIDE DEF locals
  <2>2. job[p].alone => AloneAt(p, locals, wav', ogg')
    BY <1>1, <2>1, AtWork DEF AloneAt
  <2>3. StepOf(p, locals)
    BY <1>1, <2>1, <2>2, AtWork DEF StepOf, Handed, WavSteps, OggSteps
  <2> QED BY <2>3, StepKeeps
<1>3. CASE Raise(p)
  BY <1>1, <1>3, AtWork, RaiseKeeps
<1> QED BY <1>2, <1>3 DEF ReadBytes

LEMMA UnlinkWavKeeps == ASSUME IInv, NEW p \in Producers, UnlinkWav(p) PROVE IInv'
<1>1. /\ job[p].pc = "unlink" /\ Go(p, "remove")
      /\ wav' = Nothing /\ leftovers' = leftovers \ {"wav"}
      /\ UNCHANGED <<ogg, stored, crashes>>
  BY DEF UnlinkWav
<1>2. PICK locals \in Job :
        /\ job' = [job EXCEPT ![p] = locals]
        /\ locals.pc = "remove" /\ locals.bytes = job[p].bytes
        /\ locals.alone = job[p].alone
  BY <1>1, AtWork, GoIs
<1>3. job[p].alone => AloneAt(p, locals, wav', ogg')
  BY <1>1, <1>2, AtWork DEF AloneAt
<1>4. StepOf(p, locals)
  BY <1>1, <1>2, <1>3, AtWork, NothingIs DEF StepOf, Handed, WavSteps, OggSteps
<1> QED BY <1>4, StepKeeps

LEMMA IdleIs == Idle \in Job /\ Idle.pc = "idle"
BY DEF Idle, Job

LEMMA UnlinkOggKeeps == ASSUME IInv, NEW p \in Producers, UnlinkOgg(p) PROVE IInv'
<1>1. /\ job[p].pc = "remove" /\ ogg' = Nothing /\ leftovers' = leftovers \ {"ogg"}
      /\ UNCHANGED <<wav, stored, crashes>>
  BY DEF UnlinkOgg
<1>2. CASE job[p].bytes = "none" /\ job' = [job EXCEPT ![p] = Idle]
  <2>1. StepOf(p, Idle)
    BY <1>1, <1>2, AtWork, NothingIs, IdleIs DEF StepOf, Handed, WavSteps, OggSteps
  <2> QED BY <2>1, StepKeeps
<1>3. CASE job[p].bytes # "none" /\ Go(p, "mark")
  <2>1. PICK locals \in Job :
          /\ job' = [job EXCEPT ![p] = locals]
          /\ locals.pc = "mark" /\ locals.bytes = job[p].bytes
          /\ locals.alone = job[p].alone
    BY <1>1, <1>3, AtWork, GoIs
  <2>2. job[p].alone => AloneAt(p, locals, wav', ogg')
    BY <1>1, <2>1, AtWork DEF AloneAt
  <2>3. StepOf(p, locals)
    BY <1>1, <1>3, <2>1, <2>2, AtWork, NothingIs
       DEF StepOf, Handed, WavSteps, OggSteps
  <2> QED BY <2>3, StepKeeps
<1> QED BY <1>2, <1>3 DEF UnlinkOgg

LEMMA MarkKeeps == ASSUME IInv, NEW p \in Producers, MarkAudioReady(p) PROVE IInv'
<1>1. /\ job[p].pc = "mark" /\ job' = [job EXCEPT ![p] = Idle]
      /\ stored' = IF stored = "none" THEN job[p].bytes ELSE stored
      /\ UNCHANGED <<wav, ogg, leftovers, crashes>>
  BY DEF MarkAudioReady
<1>2. stored' \in {"none", "broken", "whole"}
  BY <1>1, AtWork DEF Job
<1>3. StepOf(p, Idle)
  BY <1>1, <1>2, AtWork, IdleIs DEF StepOf, Handed, WavSteps, OggSteps
<1> QED BY <1>3, StepKeeps

LEMMA CrashKeeps == ASSUME IInv, NEW p \in Producers, Crash(p) PROVE IInv'
<1>1. /\ job[p].pc # "idle" /\ job' = [job EXCEPT ![p] = Idle]
      /\ crashes < MaxCrashes /\ crashes' = crashes + 1
      /\ leftovers' = {"wav", "ogg"} /\ stored' = stored
      /\ wav' = Closed(wav, p, FALSE) /\ ogg' = Closed(ogg, p, FALSE)
  BY DEF Crash
<1>2. /\ wav' \in File /\ wav'.open = wav.open \ {p}
      /\ ogg' \in File /\ ogg'.open = ogg.open \ {p}
  <2>1. wav \in File /\ ogg \in File /\ FALSE \in BOOLEAN
    BY <1>1, AtWork
  <2> QED BY <1>1, <2>1, ClosedIs
<1>3. crashes' \in 0 .. MaxCrashes
  BY <1>1, AtWork, VoiceAssumption
<1>4. StepOf(p, Idle)
  BY <1>1, <1>2, <1>3, AtWork, IdleIs DEF StepOf, Handed
<1> QED BY <1>4, StepKeeps

LEMMA NextIInv == IInv /\ [Next]_vars => IInv'
<1> SUFFICES ASSUME IInv, [Next]_vars PROVE IInv'
  OBVIOUS
<1>1. CASE UNCHANGED vars
  BY <1>1 DEF vars, IInv, TypeOK, OpenInv, AloneInv, AloneAt, OwnedInv, Busy, Whole
<1>2. CASE Next
  BY <1>2, BeginKeeps, SynthesizeKeeps, SpokenKeeps, StartFfmpegKeeps,
     FfmpegEndsKeeps, ValidateKeeps, ReadBytesKeeps, UnlinkWavKeeps,
     UnlinkOggKeeps, MarkKeeps, CrashKeeps DEF Next
<1> QED BY <1>1, <1>2

LEMMA Invariance == Spec => []IInv
BY InitIInv, NextIInv, PTL DEF Spec

\* The files, the stored note and the locals of the ticks stay well typed, and
\* a tick that is about to mark its delivery holds the bytes of a file.
THEOREM VoiceTypesHold == Spec => []TypeOK
BY Invariance, PTL DEF IInv

\* A tick without another beside it stores a whole note, whatever files the
\* ticks before it left, for any number of ticks and crashes.
THEOREM LoneTicksMakeWholeNotes == Spec => []NotesAreWhole
<1>1. IInv => NotesAreWhole
  <2> SUFFICES ASSUME IInv, NEW p \in Producers, job[p].pc = "mark", job[p].alone
               PROVE  job[p].bytes = "whole"
    BY DEF NotesAreWhole
  <2> QED BY AtWork DEF AloneAt, Job
<1> QED BY <1>1, Invariance, PTL

\* The temporary files are gone when no tick is at work, unless a tick died.
THEOREM FilesAreRemoved == Spec => []NoFileLeft
<1>1. IInv => NoFileLeft
  BY DEF IInv, TypeOK, OwnedInv, NoFileLeft, Busy, WavSteps, OggSteps
<1> QED BY <1>1, Invariance, PTL
=============================================================================
