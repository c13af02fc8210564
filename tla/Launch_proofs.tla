---------------------------- MODULE Launch_proofs ----------------------------
(***************************************************************************)
(* What holds of Launch for every archive, world and rate: FilesAreSound,  *)
(* NoNullCalls, WalkIsKept, ArgumentsArrive and TypeOK. Each of the first  *)
(* three is about another part of the state, and follows from an inductive *)
(* invariant of that part; a step of one part leaves the others alone.     *)
(* ArgumentsArrive is about the file, of which FilesInv says who wrote it, *)
(* and the native code, of which ArgumentsInv says what it was given; what *)
(* it made of that is a theorem about the parser (CommandLine_proofs).     *)
(* TypeOK is put together from the invariants of all parts.                *)
(***************************************************************************)
EXTENDS Launch, CommandLine_proofs, TLAPS

-----------------------------------------------------------------------------
(* The files. What create() has behind it is in order; so are the unforced   *)
(* files it has not come to, unless cut.                                      *)

Past(f) == \E n \in 1 .. step - 1 : create[n] = f

\* A file the package brings and the player did not: written, cut, being written, or
\* not there.
Kept(f) ==
    \/ disk[f] = "whole" \/ f \in cut \/ f = out
    \/ disk[f] = "absent" /\ (Past(f) => f \in failed)

\* At most one file is open: the one that is copied or unzipped now.
OpenInv ==
    /\ step \in 1..Done /\ entry \in Nat \ {0}
    /\ disk \in [Files -> Contents] /\ out \in Files \cup {NoFile}
    /\ out # NoFile => At(out) \/ (At("unzip") /\ out \in EntryFiles)
    /\ out # NoFile => disk[out] \in {"empty", "part"}
    /\ out # NoFile /\ At("unzip") => entry \in DOMAIN Entries /\ out = Entries[entry]
    /\ ~At("unzip") /\ ~Past("unzip") => entry = 1

ForcedInv == \A f \in Forced : Past(f) => disk[f] = "whole" \/ f \in failed
UnforcedInv == \A f \in Unforced : IF f \in own THEN disk[f] = "other" ELSE Kept(f)
EntryInv ==
    /\ At("unzip") => \A n \in DOMAIN Entries : n < entry =>
           disk[Entries[n]] = "whole" \/ out = Entries[n] \/ "RazeXR.zip" \in failed
    /\ Past("unzip") => \A f \in EntryFiles :
           disk[f] = "whole" \/ {f, "RazeXR.zip"} \cap failed # {}

FilesInv == OpenInv /\ ForcedInv /\ UnforcedInv /\ EntryInv

LEMMA StepNames ==
    /\ Done = 8
    /\ create[1] = "raze.pk3" /\ create[2] = "raze.sf2" /\ create[3] = "commandline.txt"
    /\ create[4] = "RazeXR.zip" /\ create[5] = "unzip" /\ create[6] = "DUKE3D.GRP"
    /\ create[7] = "read"
  BY SMT DEF Done, create

LEMMA FileNames ==
    /\ Forced \cap Unforced = {} /\ EntryFiles \cap (Forced \cup Unforced) = {}
    /\ {NoFile, "unzip", "read"} \cap Files = {}
    /\ Forced \subseteq Files /\ Unforced \subseteq Files /\ EntryFiles \subseteq Files
    /\ \A n \in DOMAIN Entries : Entries[n] \in EntryFiles
    /\ "RazeXR.zip" \in Forced
    /\ DOMAIN Entries = 1 .. Len(Entries) /\ Len(Entries) \in Nat
  <1>1. DOMAIN Entries = 1 .. Len(Entries) /\ Len(Entries) \in Nat
    BY EntriesAssumption
  <1> QED
    BY <1>1, EntriesAssumption DEF Forced, Unforced, Files, EntryFiles, NoFile

\* Each name is that of one step, the archive is unzipped right after it was copied,
\* and only files that are copied or unzipped are open.
LEMMA OnceEach ==
    ASSUME step \in 1..Done
    PROVE  /\ \A f : At(f) => ~Past(f)
           /\ \A f, g : At(f) /\ At(g) => f = g
           /\ At("unzip") => Past("RazeXR.zip")
           /\ \A f : At(f) => f \in Forced \cup Unforced \cup {"unzip", "read"}
  BY StepNames, SMTT(30) DEF At, Past, Forced, Unforced

\* What is behind a step is behind the next, and so is the step itself.
LEMMA PastAdvances ==
    ASSUME step \in 1..Done, NEW g, At(g), Advance
    PROVE  /\ step' \in 1..Done
           /\ \A f : Past(f)' <=> (Past(f) \/ f = g)
           /\ At("unzip")' => g = "RazeXR.zip" /\ ~Past("unzip")
  <1>1. step' = step + 1 /\ step < Done /\ create[step] = g
    BY DEF At, Advance
  <1>2. step' \in 1..Done
    BY <1>1, StepNames, SMT
  <1>3. ASSUME NEW f PROVE Past(f)' <=> (Past(f) \/ f = g)
    <2>1. Past(f)' <=> \E n \in 1 .. step : create[n] = f
      BY <1>1, StepNames, SMT DEF Past
    <2> QED
      BY <1>1, <2>1, SMT DEF Past
  <1>4. At("unzip")' => g = "RazeXR.zip" /\ ~Past("unzip")
    BY <1>1, StepNames, SMTT(30) DEF At, Past
  <1> QED
    BY <1>2, <1>3, <1>4

LEMMA PastStays ==
    ASSUME step' = step
    PROVE  \A f : (Past(f)' <=> Past(f)) /\ (At(f)' <=> At(f))
  BY DEF Past, At

\* In the end every file is behind create().
LEMMA PastAll ==
    ASSUME NEW f \in Forced \cup Unforced \cup {"unzip"}, step = Done
    PROVE  Past(f)
  BY StepNames, SMTT(30) DEF Past, Forced, Unforced

\* Steps of create() that are over: with a file written to its end, or given up.
LEMMA AdvanceKeepsFiles ==
    ASSUME FilesInv, NEW g, At(g), Advance, UNCHANGED <<entry, own>>,
           out' = NoFile, Open \subseteq cut' \/ (out = g /\ disk'[g] = "whole"),
           disk' \in [Files -> Contents],
           \A f \in Files : disk'[f] = disk[f] \/ (f = g /\ f = out /\ disk'[f] = "whole"),
           failed \subseteq failed', cut \subseteq cut',
           g \in Forced => disk'[g] = "whole" \/ g \in failed',
           g \in Unforced => disk'[g] # "absent" \/ g \in failed',
           g = "unzip" => \A f \in EntryFiles :
               disk[f] = "whole" \/ {f, "RazeXR.zip"} \cap failed' # {}
    PROVE  FilesInv'
  <1>1. /\ step' \in 1..Done /\ \A f : Past(f)' <=> (Past(f) \/ f = g)
        /\ At("unzip")' => g = "RazeXR.zip" /\ ~Past("unzip")
    BY PastAdvances DEF FilesInv, OpenInv
  <1>2. /\ At("unzip") => g = "unzip"
        /\ ~At("unzip")' /\ ~Past("unzip")' => entry = 1
        /\ At("unzip")' => entry = 1
    BY <1>1, OnceEach, FileNames DEF FilesInv, OpenInv
  <1>3. OpenInv'
    BY <1>1, <1>2 DEF FilesInv, OpenInv
  <1>4. ForcedInv'
    BY <1>1, FileNames DEF FilesInv, ForcedInv
  <1>5. UnforcedInv'
    <2> SUFFICES ASSUME NEW f \in Unforced
                 PROVE  IF f \in own THEN disk'[f] = "other" ELSE Kept(f)'
      BY DEF UnforcedInv
    <2>1. f \in Files /\ f # NoFile
      BY FileNames
    <2>2. CASE f \in own
      BY <2>1, <2>2 DEF FilesInv, OpenInv, UnforcedInv
    <2>3. ASSUME f \notin own
          PROVE  Kept(f)'
      <3>1. Kept(f)
        BY <2>3 DEF FilesInv, UnforcedInv
      <3>2. CASE disk'[f] = "whole"
        BY <3>2 DEF Kept
      <3>3. CASE f \in cut \/ f = out
        BY <2>1, <3>3 DEF Kept, Open
      <3>4. CASE disk[f] = "absent" /\ (Past(f) => f \in failed)
        BY <1>1, <2>1, <3>4 DEF Kept
      <3> QED
        BY <2>1, <3>1, <3>2, <3>3, <3>4 DEF Kept
    <2> QED
      BY <2>2, <2>3
  <1>6. EntryInv'
    <2>1. At("unzip")' => \A n \in DOMAIN Entries : ~(n < entry)
      BY <1>2, FileNames, SMT
    <2>2. ASSUME Past("unzip")', NEW f \in EntryFiles
          PROVE  disk'[f] = "whole" \/ {f, "RazeXR.zip"} \cap failed' # {}
      BY <1>1, <2>2, FileNames DEF FilesInv, EntryInv
    <2> QED
      BY <1>2, <2>1, <2>2 DEF EntryInv
  <1> QED
    BY <1>3, <1>4, <1>5, <1>6 DEF FilesInv

\* Steps that write to a file, not to the player's own.
LEMMA WriteKeepsFiles ==
    ASSUME FilesInv, NEW f \in Files, NEW content \in {"empty", "part"},
           UNCHANGED <<step, entry, own, failed, cut>>,
           Put(f, content), out' = f, f \notin Unforced \cap own,
           out = NoFile \/ out = f,
           At(f) \/ (At("unzip") /\ entry \in DOMAIN Entries /\ f = Entries[entry])
    PROVE  FilesInv'
  <1>1. \A g : (Past(g)' <=> Past(g)) /\ (At(g)' <=> At(g))
    BY PastStays
  <1>2. /\ disk' \in [Files -> Contents] /\ disk'[f] = content
        /\ \A g \in Files \ {f} : disk'[g] = disk[g]
    BY DEF Put, FilesInv, OpenInv, Contents
  <1>3. f \in Forced \cup Unforced => At(f)
    BY FileNames
  <1>4. f \in EntryFiles => At("unzip")
    BY FileNames, OnceEach DEF FilesInv, OpenInv
  <1>5. OpenInv'
    BY <1>1, <1>2, FileNames, OnceEach DEF FilesInv, OpenInv
  <1>6. ForcedInv'
    BY <1>1, <1>2, <1>3, FileNames, OnceEach DEF FilesInv, OpenInv, ForcedInv
  <1>7. UnforcedInv'
    <2> SUFFICES ASSUME NEW g \in Unforced
                 PROVE  IF g \in own THEN disk'[g] = "other" ELSE Kept(g)'
      BY DEF UnforcedInv
    <2>1. CASE g = f
      BY <2>1 DEF Kept
    <2>2. CASE g # f
      BY <1>1, <1>2, <2>2, FileNames DEF FilesInv, UnforcedInv, Kept
    <2> QED
      BY <2>1, <2>2
  <1>8. EntryInv'
    <2>1. ASSUME At("unzip"), NEW n \in DOMAIN Entries, n < entry
          PROVE  disk'[Entries[n]] = "whole" \/ out' = Entries[n] \/ "RazeXR.zip" \in failed
      BY <1>2, <2>1, FileNames DEF FilesInv, EntryInv
    <2>2. ASSUME Past("unzip"), NEW g \in EntryFiles
          PROVE  disk'[g] = "whole" \/ {g, "RazeXR.zip"} \cap failed # {}
      BY <1>2, <1>4, <2>2, FileNames, OnceEach DEF FilesInv, OpenInv, EntryInv
    <2> QED
      BY <1>1, <2>1, <2>2 DEF EntryInv
  <1> QED
    BY <1>5, <1>6, <1>7, <1>8 DEF FilesInv

LEMMA CopyKeepsFiles ==
    ASSUME FilesInv, NEW f \in Forced \cup Unforced,
           SkipCopy(f) \/ OpenCopy(f) \/ FinishCopy(f) \/ FailCopy(f)
    PROVE  FilesInv'
  <1>1. f \in Files /\ f # NoFile /\ f # "unzip" /\ f \notin EntryFiles
    BY FileNames DEF Files
  <1>2. disk \in [Files -> Contents] /\ (f \in Unforced \cap own => disk[f] = "other")
    BY DEF FilesInv, OpenInv, UnforcedInv
  <1>3. CASE SkipCopy(f)
    BY <1>1, <1>2, <1>3, AdvanceKeepsFiles DEF SkipCopy, Needed, writing, given, Open
  <1>4. CASE OpenCopy(f)
    <2>1. f \notin Unforced \cap own
      BY <1>2, <1>4, FileNames DEF OpenCopy, Needed
    <2> QED
      BY <1>1, <1>4, <2>1, WriteKeepsFiles DEF OpenCopy, given
  <1>5. CASE FinishCopy(f)
    <2>1. /\ disk' \in [Files -> Contents] /\ disk'[f] = "whole"
          /\ \A g \in Files \ {f} : disk'[g] = disk[g]
      BY <1>1, <1>2, <1>5 DEF FinishCopy, Put, Contents
    <2> QED
      BY <1>1, <1>5, <2>1, AdvanceKeepsFiles DEF FinishCopy, given
  <1>6. CASE FailCopy(f)
    BY <1>1, <1>2, <1>6, AdvanceKeepsFiles DEF FailCopy, Mishap, given
  <1> QED
    BY <1>3, <1>4, <1>5, <1>6

LEMMA WriteSomeKeepsFiles ==
    ASSUME FilesInv, Write
    PROVE  FilesInv'
  <1>1. /\ out \in Files /\ out # NoFile /\ Put(out, "part") /\ disk[out] = "empty"
        /\ UNCHANGED <<out, step, entry, own, failed, cut>>
    BY DEF Write, given, FilesInv, OpenInv
  <1>2. out \notin Unforced \cap own
    BY <1>1 DEF FilesInv, UnforcedInv
  <1>3. At(out) \/ (At("unzip") /\ entry \in DOMAIN Entries /\ out = Entries[entry])
    BY <1>1 DEF FilesInv, OpenInv
  <1> QED
    BY <1>1, <1>2, <1>3, WriteKeepsFiles

\* If the archive is not the whole one of this package, it could not be written.
LEMMA ArchiveIsWhole ==
    ASSUME FilesInv, At("unzip")
    PROVE  zip = "whole" \/ "RazeXR.zip" \in failed
  BY OnceEach, FileNames DEF FilesInv, OpenInv, ForcedInv, zip

LEMMA FinishEntryKeepsFiles ==
    ASSUME FilesInv, FinishEntry
    PROVE  FilesInv'
  <1> DEFINE content == IF zip = "other" THEN "other" ELSE "whole"
  <1>1. /\ At("unzip") /\ out # NoFile /\ Put(out, content) /\ out' = NoFile
        /\ entry' = entry + 1 /\ UNCHANGED <<step, own, failed, cut>>
    BY DEF FinishEntry, given
  <1>2. /\ entry \in DOMAIN Entries /\ out = Entries[entry] /\ out \in EntryFiles
        /\ out \in Files
    BY <1>1, FileNames DEF FilesInv, OpenInv
  <1>3. \A g : (Past(g)' <=> Past(g)) /\ (At(g)' <=> At(g))
    BY <1>1, PastStays
  <1>4. content = "whole" \/ "RazeXR.zip" \in failed
    BY <1>1, ArchiveIsWhole
  <1>5. /\ disk' \in [Files -> Contents] /\ disk'[out] = content
        /\ \A g \in Files \ {out} : disk'[g] = disk[g]
    BY <1>1, <1>2 DEF Put, FilesInv, OpenInv, Contents
  <1> HIDE DEF content
  <1>6. OpenInv'
    BY <1>1, <1>2, <1>3, <1>5, SMT DEF FilesInv, OpenInv
  <1>7. ForcedInv'
    BY <1>1, <1>2, <1>3, <1>5, FileNames DEF FilesInv, ForcedInv
  <1>8. UnforcedInv'
    BY <1>1, <1>2, <1>3, <1>5, FileNames DEF FilesInv, UnforcedInv, Kept
  <1>9. EntryInv'
    <2>1. ~Past("unzip")
      BY <1>1, OnceEach DEF FilesInv, OpenInv
    <2>2. ASSUME NEW n \in DOMAIN Entries, n < entry + 1
          PROVE  disk'[Entries[n]] = "whole" \/ "RazeXR.zip" \in failed
      <3>1. Entries[n] \in Files /\ n \in Nat /\ entry \in Nat
        BY <1>2, FileNames
      <3>2. CASE n = entry
        BY <1>2, <1>4, <1>5, <3>2
      <3>3. CASE n # entry
        <4>1. n < entry
          BY <2>2, <3>1, <3>3, SMT
        <4> QED
          BY <1>1, <1>4, <1>5, <3>1, <4>1 DEF FilesInv, EntryInv
      <3> QED
        BY <3>2, <3>3
    <2> QED
      BY <1>1, <1>3, <2>1, <2>2 DEF EntryInv
  <1> QED
    BY <1>6, <1>7, <1>8, <1>9 DEF FilesInv

\* The entries behind the one unzip() is at were written, the others are the rest.
LEMMA WrittenOrRest ==
    ASSUME FilesInv, At("unzip"), NEW f \in EntryFiles
    PROVE  disk[f] = "whole" \/ f \in Rest \/ "RazeXR.zip" \in failed
  <1>1. PICK n \in DOMAIN Entries : f = Entries[n]
    BY DEF EntryFiles
  <1>2. n \in 1 .. Len(Entries) /\ Len(Entries) \in Nat /\ entry \in Nat
    BY FileNames DEF FilesInv, OpenInv
  <1>3. CASE n < entry
    <2>1. disk[f] = "whole" \/ out = f \/ "RazeXR.zip" \in failed
      BY <1>1, <1>3 DEF FilesInv, EntryInv
    <2>2. out = f => entry \in 1 .. Len(Entries) /\ f = Entries[entry]
      BY FileNames DEF FilesInv, OpenInv, Files
    <2>3. entry \in 1 .. Len(Entries) => entry \in entry .. Len(Entries)
      BY <1>2, SMT
    <2> QED
      BY <2>1, <2>2, <2>3 DEF Rest
  <1>4. CASE ~(n < entry)
    <2>1. n \in entry .. Len(Entries)
      BY <1>2, <1>4, SMT
    <2> QED
      BY <1>1, <2>1 DEF Rest
  <1> QED
    BY <1>3, <1>4

LEMMA UnzipKeepsFiles ==
    ASSUME FilesInv, Unzip
    PROVE  FilesInv'
  <1>1. /\ "unzip" \notin Forced \cup Unforced \cup Files /\ disk \in [Files -> Contents]
        /\ \A n \in DOMAIN Entries : Entries[n] \in Files \ Unforced
    BY FileNames DEF FilesInv, OpenInv
  <1>2. CASE OpenEntry
    <2>1. entry \in DOMAIN Entries
      BY <1>2, FileNames, SMT DEF OpenEntry, FilesInv, OpenInv
    <2> QED
      BY <1>1, <1>2, <2>1, WriteKeepsFiles DEF OpenEntry, given
  <1>3. CASE FinishUnzip
    <2>1. At("unzip") /\ Advance /\ out = NoFile /\ UNCHANGED <<writing, entry, given>>
      BY <1>3 DEF FinishUnzip
    <2>2. ASSUME NEW f \in EntryFiles
          PROVE  disk[f] = "whole" \/ "RazeXR.zip" \in failed
      <3>1. entry > Len(Entries) => Rest = {}
        BY FileNames, SMT DEF Rest, FilesInv, OpenInv
      <3> QED
        BY <1>3, <2>1, <3>1, WrittenOrRest, ArchiveIsWhole DEF FinishUnzip
    <2> QED
      BY <1>1, <2>1, <2>2, AdvanceKeepsFiles DEF writing, given, Open
  <1>4. CASE FailUnzip \/ EndOfPart
    <2>1. /\ At("unzip") /\ Advance /\ out' = NoFile /\ UNCHANGED <<disk, entry, own>>
          /\ failed' = failed \cup Rest /\ cut' = cut \cup Open
      BY <1>4 DEF FailUnzip, EndOfPart, Mishap, given
    <2>2. \A f \in EntryFiles : disk[f] = "whole" \/ {f, "RazeXR.zip"} \cap failed' # {}
      BY <2>1, WrittenOrRest
    <2> QED
      BY <1>1, <2>1, <2>2, AdvanceKeepsFiles
  <1> QED
    BY <1>2, <1>3, <1>4, FinishEntryKeepsFiles DEF Unzip

LEMMA ReadKeepsFiles ==
    ASSUME FilesInv, ReadCommandLine \/ FailRead
    PROVE  FilesInv'
  <1>1. /\ At("read") /\ Advance /\ UNCHANGED <<disk, entry, own>>
        /\ failed' = failed /\ cut \subseteq cut' /\ (out' = out \/ out' = NoFile)
    BY DEF ReadCommandLine, FailRead, Mishap, writing, given
  <1>2. "read" \notin Forced \cup Unforced \cup {"unzip"}
    BY FileNames DEF Files
  <1>3. out = NoFile
    BY <1>1, FileNames, OnceEach DEF FilesInv, OpenInv
  <1> QED
    BY <1>1, <1>2, <1>3, AdvanceKeepsFiles DEF FilesInv, OpenInv, Open

\* A new launch finds what the last one left: a file that was open is a cut one.
LEMMA LaunchKeepsFiles ==
    ASSUME FilesInv, CreateAgain
    PROVE  FilesInv'
  <1>1. \A f : ~Past(f)'
    BY SMT DEF Past, CreateAgain
  <1>2. ~At("unzip")'
    BY StepNames DEF At, CreateAgain
  <1>3. OpenInv'
    BY <1>1, <1>2, StepNames, SMT DEF CreateAgain, FilesInv, OpenInv
  <1>4. UnforcedInv'
    BY <1>1, FileNames DEF CreateAgain, given, Open, FilesInv, UnforcedInv, Kept
  <1> QED
    BY <1>1, <1>2, <1>3, <1>4 DEF FilesInv, ForcedInv, EntryInv

THEOREM FilesInvInductive == Spec => []FilesInv
  <1>1. Init => FilesInv
    <2> SUFFICES ASSUME Init PROVE FilesInv
      OBVIOUS
    <2>1. step = 1 /\ out = NoFile /\ entry = 1
          /\ disk = [f \in Files |-> IF f \in own THEN "other" ELSE "absent"]
      BY DEF Init
    <2>2. (\A f : ~Past(f)) /\ ~At("unzip")
      BY <2>1, StepNames, SMT DEF Past, At
    <2>3. OpenInv
      BY <2>1, <2>2, StepNames, SMT DEF OpenInv, Contents
    <2> QED
      BY <2>1, <2>2, <2>3, FileNames DEF FilesInv, ForcedInv, UnforcedInv, Kept, EntryInv
  <1>2. FilesInv /\ [Next]_vars => FilesInv'
    <2> SUFFICES ASSUME FilesInv, [Next]_vars PROVE FilesInv'
      OBVIOUS
    <2>1. CASE Installing
      BY <2>1, CopyKeepsFiles, WriteSomeKeepsFiles, UnzipKeepsFiles, ReadKeepsFiles
         DEF Installing, Create, Copy
    <2>2. CASE onCreate \/ AppThread \/ Frame \/ UNCHANGED vars
      <3>1. UNCHANGED diskVars
        BY <2>2 DEF onCreate, AppThread, Frame, vars
      <3>2. \A g : (Past(g)' <=> Past(g)) /\ (At(g)' <=> At(g))
        BY <3>1, PastStays DEF diskVars
      <3> QED
        BY <3>1, <3>2 DEF diskVars, FilesInv, OpenInv, ForcedInv, UnforcedInv, EntryInv, Kept
    <2>3. CASE LaunchAgain
      BY <2>3, LaunchKeepsFiles DEF LaunchAgain
    <2> QED
      BY <2>1, <2>2, <2>3 DEF Next
  <1> QED
    BY <1>1, <1>2, PTL DEF Spec

\* For every archive, however often the program is killed and whatever fails: the
\* native code starts on sound files, but for those that failed or were cut.
THEOREM StartsOnSoundFiles == Spec => []FilesAreSound
  <1>1. FilesInv => FilesAreSound
    <2> SUFFICES ASSUME FilesInv, step = Done PROVE FilesAreSound
      BY DEF FilesAreSound
    <2>1. \A f \in Forced \cup Unforced \cup {"unzip"} : Past(f)
      BY PastAll
    <2>2. out = NoFile
      BY SMT DEF FilesInv, OpenInv, At
    <2>3. \A f \in Unforced : f # NoFile
      BY FileNames
    <2> QED
      BY <2>1, <2>2, <2>3 DEF FilesInv, ForcedInv, UnforcedInv, EntryInv, Kept, FilesAreSound
  <1> QED
    BY <1>1, FilesInvInductive, PTL

-----------------------------------------------------------------------------
(* The platform. *)

\* What a runtime was found to have is enabled, if the program will call it.
PlatformInv ==
    /\ stage \in Stages /\ Egl \in Egls
    /\ HasWhatIsNeeded(device) => stage # "crashed"
    /\ HasWhatIsNeeded(device) =>
           (stage \in {"instance", "session", "renderer", "active", "frames"} =>
               /\ {"gles", "perf"} \subseteq enabled
               /\ IsMeta => {"refreshRate", "threads"} \subseteq enabled)
    /\ stage \in {"session", "renderer", "active", "frames"} => Egl.Context = "live"

LEMMA PlatformUnchanged ==
    ASSUME PlatformInv, UNCHANGED <<device, stage, OpenXRHMD, enabled, Egl>>
    PROVE  PlatformInv'
  BY DEF PlatformInv, IsMeta, HasWhatIsNeeded, TakenForMeta

\* Guessing from extensions, and again from the name, ends at a platform whose
\* functions are there: an extension that decides the guess is one that is enabled.
LEMMA GuessIsEnabled ==
    ASSUME HasWhatIsNeeded(device), TBXR_InitialiseOpenXR, stage' # "exited"
    PROVE  /\ stage' = "instance"
           /\ {"gles", "perf"} \subseteq enabled'
           /\ IsMeta' => {"refreshRate", "threads"} \subseteq enabled'
  <1> DEFINE guess == FromExtensions(device.extensions)
  <1>1. /\ OpenXRHMD' = FromName(device.name, guess)
        /\ enabled' = device.extensions \cap Wanted(guess)
        /\ Calling({"gles"}, enabled', "instance")
    BY DEF TBXR_InitialiseOpenXR
  <1>2. {"gles", "perf"} \subseteq enabled'
    BY <1>1 DEF HasWhatIsNeeded, Wanted
  <1>3. ASSUME IsMeta' PROVE TakenForMeta(device) /\ guess = "meta"
    <2>1. CASE device.name = "Meta"
      <3>1. "picoConfigs" \notin device.extensions /\ "refreshRate" \in device.extensions
        BY <2>1 DEF HasWhatIsNeeded, TakenForMeta
      <3> QED
        BY <2>1, <3>1 DEF TakenForMeta, FromExtensions
    <2>2. CASE device.name # "Meta"
      <3>1. device.name # "Pico" /\ guess = "meta"
        BY <1>1, <1>3, <2>2 DEF IsMeta, FromName
      <3>2. "picoConfigs" \notin device.extensions /\ "refreshRate" \in device.extensions
        BY <3>1 DEF FromExtensions
      <3> QED
        BY <3>1, <3>2 DEF TakenForMeta
    <2> QED
      BY <2>1, <2>2
  <1>4. IsMeta' => {"refreshRate", "threads"} \subseteq enabled'
    BY <1>1, <1>3 DEF HasWhatIsNeeded, Wanted, MetaExtensions
  <1> QED
    BY <1>1, <1>2, <1>4 DEF Calling

LEMMA AppThreadKeepsPlatform ==
    ASSUME PlatformInv, AppThread
    PROVE  PlatformInv'
  <1>1. device' = device
    BY DEF AppThread, ovrEgl_CreateContext, TBXR_InitialiseOpenXR, TBXR_EnterVR,
           TBXR_InitRenderer, SessionReady, StartGame, RazeXR_SetRefreshRate, TBXR_LeaveVR
  <1>2. HasWhatIsNeeded(device)' <=> HasWhatIsNeeded(device)
    BY <1>1
  <1>3. CASE ovrEgl_CreateContext
    BY <1>2, <1>3 DEF ovrEgl_CreateContext, PlatformInv, Stages
  <1>4. CASE TBXR_InitialiseOpenXR
    <2>1. stage' \in {"exited", "instance", "crashed"} /\ Egl' = Egl
      BY <1>4 DEF TBXR_InitialiseOpenXR, Calling
    <2> QED
      BY <1>2, <1>4, <2>1, GuessIsEnabled DEF PlatformInv, Stages
  <1>5. CASE TBXR_EnterVR
    <2>1. UNCHANGED <<OpenXRHMD, enabled, Egl>> /\ stage = "instance"
          /\ (stage' = "exited" \/ (stage' = "session" /\ Egl.Context = "live"))
      BY <1>5 DEF TBXR_EnterVR
    <2> QED
      BY <1>2, <2>1 DEF PlatformInv, Stages, IsMeta
  <1>6. CASE TBXR_InitRenderer
    <2>1. UNCHANGED <<OpenXRHMD, enabled, Egl>> /\ stage = "session" /\ stage' = "renderer"
      BY <1>6 DEF TBXR_InitRenderer, Calling, UsedIfThere
    <2> QED
      BY <1>2, <2>1 DEF PlatformInv, Stages, IsMeta
  <1>7. CASE SessionReady
    <2>1. UNCHANGED <<OpenXRHMD, enabled, Egl>> /\ stage = "renderer"
          /\ stage' \in {"active", "crashed"}
          /\ ({"perf"} \cup (IF IsMeta THEN {"threads"} ELSE {}) \subseteq enabled
                => stage' = "active")
      BY <1>7 DEF SessionReady, Calling
    <2> QED
      BY <1>2, <2>1 DEF PlatformInv, Stages, IsMeta
  <1>8. CASE StartGame
    <2>1. UNCHANGED <<OpenXRHMD, enabled, Egl>> /\ stage = "active"
          /\ stage' \in {"frames", "crashed"}
          /\ ((IF IsMeta THEN {"refreshRate"} ELSE {}) \subseteq enabled => stage' = "frames")
      BY <1>8 DEF StartGame, RazeXR_SetRefreshRate, Calling
    <2> QED
      BY <1>2, <2>1 DEF PlatformInv, Stages, IsMeta
  <1>9. CASE TBXR_LeaveVR
    BY <1>2, <1>9 DEF TBXR_LeaveVR, PlatformInv, Stages, Egls
  <1> QED
    BY <1>3, <1>4, <1>5, <1>6, <1>7, <1>8, <1>9 DEF AppThread

LEMMA FrameKeepsPlatform ==
    ASSUME PlatformInv, Frame
    PROVE  PlatformInv'
  <1>1. UNCHANGED <<device, OpenXRHMD, enabled, Egl>> /\ stage = "frames"
        /\ stage' \in {"frames", "crashed"}
        /\ ((IF IsMeta THEN {"refreshRate"} ELSE {}) \subseteq enabled => stage' = "frames")
    BY DEF Frame, VR_FrameSetup, RazeXR_SetRefreshRate, Calling
  <1>2. HasWhatIsNeeded(device)' <=> HasWhatIsNeeded(device)
    BY <1>1
  <1> QED
    BY <1>1, <1>2 DEF PlatformInv, Stages, IsMeta

THEOREM PlatformInvInductive == Spec => []PlatformInv
  <1>1. Init => PlatformInv
    BY DEF Init, PlatformInit, PlatformInv, Stages, Egls
  <1>2. PlatformInv /\ [Next]_vars => PlatformInv'
    <2> SUFFICES ASSUME PlatformInv, [Next]_vars PROVE PlatformInv'
      OBVIOUS
    <2>1. CASE Installing \/ onCreate \/ UNCHANGED vars
      BY <2>1, PlatformUnchanged DEF Installing, onCreate, vars, platformVars
    <2>2. CASE LaunchAgain
      BY <2>2 DEF LaunchAgain, PlatformAgain, PlatformInv, Stages, Egls
    <2> QED
      BY <2>1, <2>2, AppThreadKeepsPlatform, FrameKeepsPlatform DEF Next
  <1> QED
    BY <1>1, <1>2, PTL DEF Spec

\* On every runtime that has what is needed, whatever else it has or lacks, no
\* function is called that does not exist, and sessions have a current context.
THEOREM OnlyCallsWhatIsThere == Spec => []NoNullCalls
  <1>1. PlatformInv => NoNullCalls
    BY DEF PlatformInv, NoNullCalls, Egls, NoEgl
  <1> QED
    BY <1>1, PlatformInvInductive, PTL

-----------------------------------------------------------------------------
(* The view. *)

Places == Int \X Int

\* The origin is where the view was recentred, unless that was at x = 0.
ViewInv ==
    /\ world \in DOMAIN Worlds
    /\ hmdPosition \in Places /\ hmdOrigin \in Places /\ walked \in Places
    /\ frame \in {"none", "walk", "turn"} /\ atZero \in BOOLEAN
    /\ frame = "none" => hmdPosition = Zero /\ hmdOrigin = Zero
    /\ frame = "turn" => hmdOrigin = hmdPosition
    /\ frame = "walk" /\ ~atZero =>
           hmdOrigin[1] # 0 /\ walked = Minus(hmdPosition, hmdOrigin)
    /\ WalkIsKept

LEMMA ViewUnchanged ==
    ASSUME ViewInv, UNCHANGED <<viewVars, world>>
    PROVE  ViewInv'
  BY DEF ViewInv, WalkIsKept, viewVars

LEMMA MinusIsPlace ==
    ASSUME NEW p \in Places, NEW q \in Places
    PROVE  /\ Minus(p, q) \in Places /\ Minus(p, p) = Zero
           /\ p[1] \in Int /\ p[2] \in Int /\ p = <<p[1], p[2]>>
  BY SMT DEF Places, Minus, Zero

\* Steps add up.
LEMMA StepsAddUp ==
    ASSUME NEW p \in Places, NEW q \in Places, NEW o \in Places
    PROVE  Plus(Minus(p, o), Minus(q, p)) = Minus(q, o)
  <1>1. /\ p[1] \in Int /\ p[2] \in Int /\ q[1] \in Int /\ q[2] \in Int
        /\ o[1] \in Int /\ o[2] \in Int
    BY MinusIsPlace
  <1>2. /\ (p[1] - o[1]) + (q[1] - p[1]) = q[1] - o[1]
        /\ (p[2] - o[2]) + (q[2] - p[2]) = q[2] - o[2]
    BY <1>1, SMT
  <1> QED
    BY <1>2, Zenon DEF Plus, Minus

LEMMA ZeroIsPlace == Zero \in Places
  BY SMT DEF Zero, Places

\* A frame with a pose: the three ways the view can have been recentred before it.
LEMMA LocatedKeepsView ==
    ASSUME ViewInv, NEW position \in Places, NEW yaw, NEW screenLayer \in BOOLEAN,
           NEW sticksRead \in BOOLEAN, NEW at, NEW degrees, world' = world,
           ViewFrame(TRUE, position, yaw, screenLayer, sticksRead, at, degrees)
    PROVE  ViewInv'
  <1> DEFINE turns == sticksRead /\ Turns(at)
             here == screenLayer \/ frame = "none"
             went == Minus(position, hmdPosition)
             origin == Origin(position, screenLayer)
  <1>1. /\ hmdPosition' = position
        /\ hmdOrigin' = IF turns THEN position ELSE origin
        /\ positionDelta' = Minus(position, origin)
        /\ frame' = IF turns THEN "turn" ELSE "walk"
    BY DEF ViewFrame, Remember
  <1>2. /\ walked' = CASE here -> Zero
                       [] ~here /\ frame = "turn" -> went
                       [] OTHER -> Plus(walked, went)
        /\ atZero' = CASE here -> position[1] = 0
                       [] ~here /\ frame = "turn" -> hmdPosition[1] = 0
                       [] OTHER -> atZero
    BY DEF ViewFrame, Remember
  <1>3. /\ hmdPosition \in Places /\ hmdOrigin \in Places /\ walked \in Places
        /\ went \in Places /\ Zero \in Places
    BY MinusIsPlace, SMT DEF ViewInv, Zero, Places
  <1>4. origin \in Places
    BY <1>3 DEF Origin
  <1> HIDE DEF turns
  <1>5. CASE here
    <2>1. walked' = Zero /\ atZero' = (position[1] = 0)
      BY <1>2, <1>5
    <2>2. origin = position
      BY <1>5, SMT DEF Origin, ViewInv, Zero
    <2>3. positionDelta' = Zero /\ Minus(position, position) = Zero
      BY <1>1, <2>2, MinusIsPlace
    <2> QED
      BY <1>1, <1>3, <2>1, <2>2, <2>3 DEF ViewInv, WalkIsKept
  <1>6. CASE ~here /\ frame = "turn"
    <2>1. walked' = went /\ atZero' = (hmdPosition[1] = 0)
      BY <1>2, <1>6
    <2>2. ~atZero' => origin = hmdPosition
      BY <1>6, <2>1 DEF Origin, ViewInv
    <2> QED
      BY <1>1, <1>3, <1>4, <2>1, <2>2 DEF ViewInv, WalkIsKept
  <1>7. CASE ~here /\ frame # "turn"
    <2>1. walked' = Plus(walked, went) /\ atZero' = atZero /\ frame = "walk"
      BY <1>2, <1>7 DEF ViewInv
    <2>2. walked' \in Places
      BY <1>3, <2>1, MinusIsPlace, SMT DEF Plus, Places
    <2>3. ~atZero' => /\ origin = hmdOrigin /\ origin[1] # 0
                      /\ walked' = Minus(position, hmdOrigin)
      BY <1>3, <1>7, <2>1, StepsAddUp DEF Origin, ViewInv
    <2>4. atZero' \in BOOLEAN
      BY <2>1 DEF ViewInv
    <2> QED
      BY <1>1, <1>3, <1>4, <2>2, <2>3, <2>4 DEF ViewInv, WalkIsKept
  <1> QED
    BY <1>5, <1>6, <1>7

\* A frame without one moves at most the origin, to the head.
LEMMA UnlocatedKeepsView ==
    ASSUME ViewInv, NEW position, NEW yaw, NEW screenLayer, NEW sticksRead \in BOOLEAN,
           NEW at, NEW degrees, world' = world,
           ViewFrame(FALSE, position, yaw, screenLayer, sticksRead, at, degrees)
    PROVE  ViewInv'
  <1> DEFINE turns == sticksRead /\ Turns(at)
  <1>1. /\ UNCHANGED <<hmdPosition, positionDelta, walked, atZero>>
        /\ hmdOrigin' = IF turns THEN hmdPosition ELSE hmdOrigin
        /\ frame' = IF turns /\ frame # "none" THEN "turn" ELSE frame
    BY DEF ViewFrame
  <1> HIDE DEF turns
  <1> QED
    BY <1>1 DEF ViewInv, WalkIsKept

THEOREM ViewInvInductive == Spec => []ViewInv
  <1>1. Init => ViewInv
    BY ZeroIsPlace DEF Init, VR_Init, ViewInv, WalkIsKept
  <1>2. ViewInv /\ [Next]_vars => ViewInv'
    <2> SUFFICES ASSUME ViewInv, [Next]_vars PROVE ViewInv'
      OBVIOUS
    <2>1. CASE Installing \/ onCreate \/ AppThread \/ UNCHANGED vars
      BY <2>1, ViewUnchanged DEF Installing, onCreate, AppThread, vars
    <2>2. CASE Frame
      <3>1. world' = world /\ world \in DOMAIN Worlds /\ Worlds[world].positions \subseteq Places
        BY <2>2, LaunchAssumption DEF Frame, ViewInv, WorldKinds, Places
      <3>2. PICK position \in Places, yaw \in Worlds[world].yaws, at \in Worlds[world].sticks,
                 located \in BOOLEAN, screenLayer \in BOOLEAN, sticksRead \in BOOLEAN :
                ViewFrame(located, position, yaw, screenLayer, sticksRead, at,
                          Worlds[world].vr_snapTurn)
        BY <2>2, <3>1 DEF Frame
      <3> QED
        BY <3>1, <3>2, LocatedKeepsView, UnlocatedKeepsView
    <2>3. CASE LaunchAgain
      BY <2>3, ZeroIsPlace DEF LaunchAgain, VR_InitAgain, ViewInv, WalkIsKept
    <2> QED
      BY <2>1, <2>2, <2>3 DEF Next
  <1> QED
    BY <1>1, <1>2, PTL DEF Spec

\* However far and however often the player walks and turns: no step of the head is
\* lost unless the view was recentred at x = 0.
THEOREM NoStepIsLost == Spec => []WalkIsKept
  BY ViewInvInductive, PTL DEF ViewInv

-----------------------------------------------------------------------------
(* The command line. *)

\* The player's words, as they were laid out; what went wrong since is counted.
OwnInv ==
    /\ world \in DOMAIN Worlds /\ words \in Worlds[world].words
    /\ mishaps \in Nat /\ mishaps <= Worlds[world].mishaps
    /\ ownLines \in {OneLine(words), LineForEach(words)}

\* What create() has made of commandline.txt.
ReadInv ==
    step = Done =>
        LET content == disk["commandline.txt"]
        IN  /\ content = "other" =>
                   commandLineParams = Joined(ownLines) \/ mishaps < Worlds[world].mishaps
            /\ content = "absent" => commandLineParams = raze
            /\ content = "whole" => commandLineParams \in {raze, Joined(<<raze>>)}

\* What onCreate has made of the parameters.
NativeInv ==
    native # "notYet" =>
        /\ step = Done /\ native = CommandFault(commandLineParams)
        /\ native = "ok" => argv = ParseCommandLine(commandLineParams).argv

ArgumentsInv == OwnInv /\ ReadInv /\ NativeInv

\* create() is over when it has read the command line, and only then.
LEMMA ReadIsLast ==
    ASSUME FilesInv, Create
    PROVE  step # Done /\ (step' = Done => ReadCommandLine \/ FailRead)
  <1>1. ASSUME NEW g, At(g), g # "read" PROVE step # Done /\ step + 1 # Done
    BY <1>1, StepNames, SMT DEF At, FilesInv, OpenInv
  <1>2. CASE Copy
    <2>1. PICK f \in Forced \cup Unforced : At(f) /\ step' \in {step, step + 1}
      BY <1>2, Zenon DEF Copy, SkipCopy, OpenCopy, FinishCopy, FailCopy, Advance
    <2>2. f # "read"
      BY FileNames
    <2> QED
      BY <1>1, <2>1, <2>2
  <1>3. CASE Write
    <2>1. out \in Files /\ out # NoFile /\ step' = step
      BY <1>3 DEF Write, FilesInv, OpenInv
    <2>2. (At(out) \/ At("unzip")) /\ out # "read"
      BY <2>1, FileNames DEF FilesInv, OpenInv
    <2> QED
      BY <1>1, <2>1, <2>2
  <1>4. CASE Unzip
    <2>1. At("unzip") /\ step' \in {step, step + 1}
      BY <1>4 DEF Unzip, OpenEntry, FinishEntry, FinishUnzip, FailUnzip, EndOfPart, Advance
    <2> QED
      BY <1>1, <2>1
  <1>5. CASE ReadCommandLine \/ FailRead
    <2>1. At("read")
      BY <1>5 DEF ReadCommandLine, FailRead
    <2>2. step # Done
      BY <2>1, StepNames, SMT DEF At, FilesInv, OpenInv
    <2> QED
      BY <1>5, <2>2
  <1> QED
    BY <1>2, <1>3, <1>4, <1>5 DEF Create

\* What the player wrote is not touched, and mishaps are used up one by one.
LEMMA CreateKeepsOwn ==
    ASSUME OwnInv, Create, UNCHANGED <<world, words>>
    PROVE  OwnInv' /\ UNCHANGED ownLines /\ mishaps' <= mishaps
  <1>0. mishaps \in Nat /\ Worlds[world].mishaps \in Nat
    BY LaunchAssumption DEF OwnInv, WorldKinds
  <1>1. UNCHANGED ownLines
    BY DEF Create, Copy, SkipCopy, OpenCopy, FinishCopy, FailCopy, Write, Unzip, OpenEntry,
           FinishEntry, FinishUnzip, FailUnzip, EndOfPart, ReadCommandLine, FailRead, given
  <1>2. mishaps' = mishaps \/ (mishaps > 0 /\ mishaps' = mishaps - 1)
    BY DEF Create, Copy, SkipCopy, OpenCopy, FinishCopy, FailCopy, Write, Unzip, OpenEntry,
           FinishEntry, FinishUnzip, FailUnzip, EndOfPart, ReadCommandLine, FailRead, writing,
           Mishap
  <1> QED
    BY <1>0, <1>1, <1>2 DEF OwnInv

\* create() leaves the parameters as ReadInv says, and the native code is not there yet.
LEMMA CreateKeepsArguments ==
    ASSUME FilesInv, ArgumentsInv, Installing
    PROVE  ArgumentsInv'
  <1>1. Create /\ UNCHANGED <<world, words, native, argv>>
    BY DEF Installing
  <1>2. OwnInv' /\ UNCHANGED ownLines /\ mishaps' <= mishaps
    BY <1>1, CreateKeepsOwn DEF ArgumentsInv
  <1>3. step # Done /\ (step' = Done => ReadCommandLine \/ FailRead)
    BY <1>1, ReadIsLast
  <1>4. NativeInv'
    BY <1>1, <1>3 DEF ArgumentsInv, NativeInv
  <1>5. ReadInv'
    <2> DEFINE content == disk["commandline.txt"]
    <2>1. CASE ReadCommandLine
      <3>1. disk' = disk /\ commandLineParams' =
                IF content = "absent" THEN raze ELSE Joined(Lines(content))
        BY <2>1 DEF ReadCommandLine, writing
      <3>2. /\ content = "other" => Lines(content) = ownLines
            /\ content = "whole" => Lines(content) = <<raze>>
        BY Zenon DEF Lines
      <3> QED
        BY <1>2, <3>1, <3>2 DEF ReadInv
    <2>2. CASE FailRead
      <3>1. /\ disk' = disk /\ commandLineParams' = raze /\ content # "absent"
            /\ mishaps > 0 /\ mishaps' = mishaps - 1
        BY <2>2 DEF FailRead, Mishap
      <3>2. mishaps' < Worlds[world].mishaps
        BY <3>1, LaunchAssumption DEF ArgumentsInv, OwnInv, WorldKinds
      <3> QED
        BY <1>1, <3>1, <3>2 DEF ReadInv
    <2> QED
      BY <1>3, <2>1, <2>2 DEF ReadInv
  <1> QED
    BY <1>2, <1>4, <1>5 DEF ArgumentsInv

\* What is read and parsed stays so until the next launch.
THEOREM ArgumentsInvInductive == Spec => []ArgumentsInv
  <1>1. Init => ArgumentsInv
    <2> SUFFICES ASSUME Init PROVE ArgumentsInv
      OBVIOUS
    <2>1. PICK w \in DOMAIN Worlds :
              /\ world = w /\ mishaps = Worlds[w].mishaps /\ words \in Worlds[w].words
              /\ \E layout \in Worlds[w].layouts :
                     ownLines = IF layout = "oneLine" THEN OneLine(words) ELSE LineForEach(words)
              /\ step = 1 /\ native = "notYet"
      BY DEF Init
    <2>2. OwnInv
      <3>1. Worlds[w].mishaps \in Nat
        BY <2>1, LaunchAssumption DEF WorldKinds
      <3>2. mishaps \in Nat /\ mishaps <= Worlds[world].mishaps
        BY <2>1, <3>1
      <3>3. ownLines \in {OneLine(words), LineForEach(words)}
        BY <2>1
      <3> QED
        BY <2>1, <3>2, <3>3 DEF OwnInv
    <2>3. step # Done
      BY <2>1, StepNames, SMT
    <2> QED
      BY <2>1, <2>2, <2>3 DEF ArgumentsInv, ReadInv, NativeInv
  <1>2. FilesInv /\ ArgumentsInv /\ [Next]_vars => ArgumentsInv'
    <2> SUFFICES ASSUME FilesInv, ArgumentsInv, [Next]_vars PROVE ArgumentsInv'
      OBVIOUS
    <2>1. CASE Installing
      BY <2>1, CreateKeepsArguments
    <2>2. CASE onCreate
      <3>1. /\ UNCHANGED <<diskVars, world, words>> /\ step = Done
            /\ native' = CommandFault(commandLineParams)
            /\ native' = "ok" => argv' = ParseCommandLine(commandLineParams).argv
        BY <2>2 DEF onCreate
      <3> QED
        BY <3>1 DEF ArgumentsInv, OwnInv, ReadInv, NativeInv, diskVars
    <2>3. CASE AppThread \/ Frame \/ UNCHANGED vars
      <3>1. UNCHANGED <<diskVars, world, words, native, argv>>
        BY <2>3 DEF AppThread, Frame, vars
      <3> QED
        BY <3>1 DEF ArgumentsInv, OwnInv, ReadInv, NativeInv, diskVars
    <2>4. CASE LaunchAgain
      <3>1. UNCHANGED <<world, words, mishaps, ownLines>> /\ step' = 1 /\ native' = "notYet"
        BY <2>4 DEF LaunchAgain, CreateAgain, given
      <3>2. step' # Done
        BY <3>1, StepNames, SMT
      <3> QED
        BY <3>1, <3>2 DEF ArgumentsInv, OwnInv, ReadInv, NativeInv
    <2> QED
      BY <2>1, <2>2, <2>3, <2>4 DEF Next
  <1> QED
    BY <1>1, <1>2, FilesInvInductive, PTL DEF Spec

\* Without a file of that name, or with the one of the package, the argument is raze.
LEMMA RazeArrives ==
    ASSUME NEW text, text \in {raze, Joined(<<raze>>)}
    PROVE  CommandFault(text) = "ok" /\ ParseCommandLine(text).argv = <<raze>>
  <1>1. /\ raze \in Text /\ raze # << >>
        /\ \A k \in 1 .. Len(raze) : raze[k] \notin {Quote, Space}
    BY DEF raze, Text, Characters, Quote, Space
  <1> HIDE DEF raze
  <1> QED
    BY <1>1, WordArrives

\* So are the player's own words, if they can be written and no storage failed.
LEMMA OwnWordsArrive ==
    ASSUME ArgumentsInv, native # "notYet", disk["commandline.txt"] = "other",
           CanBeWritten(words), mishaps = Worlds[world].mishaps
    PROVE  native = "ok" /\ argv = words
  <1>1. words \in Seq(Text) /\ ownLines \in {OneLine(words), LineForEach(words)}
    BY LaunchAssumption DEF ArgumentsInv, OwnInv, WorldKinds, Text
  <1>2. ~(mishaps < Worlds[world].mishaps)
    BY DEF ArgumentsInv, OwnInv
  <1>3. commandLineParams = Joined(ownLines)
    BY <1>2 DEF ArgumentsInv, ReadInv, NativeInv
  <1>4. CommandFault(Joined(ownLines)) = "ok" /\ ParseCommandLine(Joined(ownLines)).argv = words
    BY <1>1, WordsArrive
  <1> QED
    BY <1>3, <1>4 DEF ArgumentsInv, NativeInv

\* A file that is neither whole nor the player's nor missing was cut short.
LEMMA OthersAreCut ==
    ASSUME FilesInv, step = Done,
           disk["commandline.txt"] \notin {"other", "absent", "whole"}
    PROVE  "commandline.txt" \in cut
  <1>1. "commandline.txt" \in Unforced /\ "commandline.txt" # NoFile
    BY FileNames DEF Unforced, NoFile
  <1>2. ~(step < Done)
    BY StepNames, SMT
  <1>3. out = NoFile
    BY <1>2 DEF FilesInv, OpenInv, At
  <1> QED
    BY <1>1, <1>3 DEF FilesInv, UnforcedInv, Kept

\* Whatever the player wrote, in one line or in many, the game gets those words, if
\* they can be written and no storage failed; without a file of the player's, raze.
THEOREM PlayerIsHeard == Spec => []ArgumentsArrive
  <1>1. FilesInv /\ ArgumentsInv => ArgumentsArrive
    <2> SUFFICES ASSUME FilesInv, ArgumentsInv, native # "notYet" PROVE ArgumentsArrive
      BY Zenon DEF ArgumentsArrive
    <2> DEFINE content == disk["commandline.txt"]
    <2>1. /\ step = Done /\ native = CommandFault(commandLineParams)
          /\ native = "ok" => argv = ParseCommandLine(commandLineParams).argv
      BY DEF ArgumentsInv, NativeInv
    <2>2. content = "other" /\ CanBeWritten(words) /\ mishaps = Worlds[world].mishaps =>
              native = "ok" /\ argv = words
      BY OwnWordsArrive
    <2>3. content \in {"absent", "whole"} => native = "ok" /\ argv = <<raze>>
      <3> SUFFICES ASSUME content \in {"absent", "whole"}
                   PROVE  native = "ok" /\ argv = <<raze>>
        OBVIOUS
      <3>1. commandLineParams \in {raze, Joined(<<raze>>)}
        BY <2>1 DEF ArgumentsInv, ReadInv
      <3> QED
        BY <2>1, <3>1, RazeArrives
    <2>4. content \notin {"other", "absent", "whole"} => "commandline.txt" \in cut
      BY <2>1, OthersAreCut
    <2>5. content = "other" => content \notin {"absent", "whole"}
      OBVIOUS
    <2>6. content \notin {"absent", "whole"} /\ content # "other" =>
              "commandline.txt" \in cut
      BY <2>4
    <2> HIDE DEF content
    <2> QED
      BY <2>2, <2>3, <2>5, <2>6, Zenon DEF ArgumentsArrive, content
  <1> QED
    BY <1>1, FilesInvInductive, ArgumentsInvInductive, PTL

-----------------------------------------------------------------------------
(* The ranges of the variables. *)

\* Nothing has a name that is no file's, and unzip() stops after the last entry.
NamesInv ==
    /\ entry <= Len(Entries) + 1
    /\ own \subseteq Files /\ failed \subseteq Files /\ cut \subseteq Files

\* The display has a rate only once the native code runs, and it stays what it was
\* set to while the rate asked for stays the same.
RateInv ==
    /\ native # "ok" => stage = "notStarted" /\ currentDisplayRefreshRate = 0
    /\ REFRESH \in {72} \cup Rates
    /\ currentDisplayRefreshRate \in {0, device.rate, REFRESH}
    /\ OpenXRHMD \in HMDs /\ enabled \subseteq device.extensions

FacingInv ==
    /\ world \in DOMAIN Worlds
    /\ snapTurn \in -180..180 /\ playerYaw \in {0} \cup Worlds[world].yaws

\* What fails, or is cut short, is a file.
LEMMA CreateKeepsNames ==
    ASSUME OpenInv, NamesInv, Create
    PROVE  NamesInv'
  <1>1. own' = own
    BY DEF Create, Copy, SkipCopy, OpenCopy, FinishCopy, FailCopy, Write, Unzip, OpenEntry,
           FinishEntry, FinishUnzip, FailUnzip, EndOfPart, ReadCommandLine, FailRead, given
  <1>2. Open \subseteq Files /\ Rest \subseteq Files
    <2>1. ASSUME NEW n \in entry .. Len(Entries) PROVE Entries[n] \in Files
      BY FileNames DEF OpenInv
    <2> QED
      BY <2>1 DEF Open, Rest, OpenInv
  <1>3. failed' \subseteq Files /\ cut' \subseteq Files
    <2>1. \/ failed' = failed /\ cut' = cut
          \/ \E f \in Forced \cup Unforced : Mishap({f})
          \/ Mishap(Rest) \/ Mishap({})
          \/ failed' = failed \cup Rest /\ cut' = cut \cup Open
      BY DEF Create, Copy, SkipCopy, OpenCopy, FinishCopy, FailCopy, Write, Unzip, OpenEntry,
             FinishEntry, FinishUnzip, FailUnzip, EndOfPart, ReadCommandLine, FailRead, writing
    <2> QED
      BY <1>2, <2>1 DEF Mishap, NamesInv, Files
  <1>4. entry' <= Len(Entries) + 1
    <2>1. CASE FinishEntry
      <3>1. /\ At("unzip") /\ out # NoFile /\ entry' = entry + 1
        BY <2>1 DEF FinishEntry
      <3>2. entry \in 1 .. Len(Entries) /\ Len(Entries) \in Nat
        BY <3>1, FileNames DEF OpenInv
      <3> QED
        BY <3>1, <3>2, SMT
    <2>2. CASE ~FinishEntry
      <3>1. entry' = entry
        BY <2>2 DEF Create, Copy, SkipCopy, OpenCopy, FinishCopy, FailCopy, Write, Unzip,
              OpenEntry, FinishUnzip, FailUnzip, EndOfPart, ReadCommandLine, FailRead
      <3> QED
        BY <3>1 DEF NamesInv
    <2> QED
      BY <2>1, <2>2
  <1> QED
    BY <1>1, <1>3, <1>4 DEF NamesInv

\* Every name in the installation is a file's.
THEOREM NamesInvInductive == Spec => []NamesInv
  <1>1. Init => NamesInv
    <2> SUFFICES ASSUME Init PROVE NamesInv
      OBVIOUS
    <2>1. PICK w \in DOMAIN Worlds : own = Worlds[w].own
      BY DEF Init
    <2>2. own \subseteq Files
      BY <2>1, LaunchAssumption DEF WorldKinds
    <2>3. entry = 1 /\ failed = {} /\ cut = {}
      BY DEF Init
    <2> QED
      BY <2>2, <2>3, FileNames, SMT DEF NamesInv
  <1>2. FilesInv /\ NamesInv /\ [Next]_vars => NamesInv'
    <2> SUFFICES ASSUME FilesInv, NamesInv, [Next]_vars PROVE NamesInv'
      OBVIOUS
    <2>1. CASE Installing
      BY <2>1, CreateKeepsNames DEF Installing, FilesInv
    <2>2. CASE onCreate \/ AppThread \/ Frame \/ UNCHANGED vars
      <3>1. UNCHANGED diskVars
        BY <2>2 DEF onCreate, AppThread, Frame, vars
      <3> QED
        BY <3>1 DEF NamesInv, diskVars
    <2>3. CASE LaunchAgain
      <3>1. /\ entry' = 1 /\ failed' = {} /\ cut' = cut \cup Open /\ own' = own
        BY <2>3 DEF LaunchAgain, CreateAgain, given
      <3>2. Open \subseteq Files
        BY DEF Open, FilesInv, OpenInv
      <3> QED
        BY <3>1, <3>2, FileNames, SMT DEF NamesInv
    <2> QED
      BY <2>1, <2>2, <2>3 DEF Next
  <1> QED
    BY <1>1, <1>2, FilesInvInductive, PTL DEF Spec

\* The application thread takes the rate it sets from REFRESH, or from the display.
LEMMA AppThreadKeepsRate ==
    ASSUME RateInv, AppThread \/ Frame
    PROVE  RateInv'
  <1>1. native' = native /\ device' = device /\ REFRESH' = REFRESH /\ native = "ok"
    <2>1. CASE AppThread
      BY <2>1 DEF AppThread, ovrEgl_CreateContext, TBXR_InitialiseOpenXR, TBXR_EnterVR,
             TBXR_InitRenderer, SessionReady, StartGame, RazeXR_SetRefreshRate, TBXR_LeaveVR
    <2>2. CASE Frame
      <3>1. stage = "frames"
        BY <2>2 DEF Frame, VR_FrameSetup
      <3> QED
        BY <2>2, <3>1 DEF Frame, VR_FrameSetup, RazeXR_SetRefreshRate, RateInv
    <2> QED
      BY <2>1, <2>2
  <1>2. currentDisplayRefreshRate' \in {currentDisplayRefreshRate, device.rate, REFRESH}
    BY DEF AppThread, ovrEgl_CreateContext, TBXR_InitialiseOpenXR, TBXR_EnterVR,
           TBXR_InitRenderer, SessionReady, StartGame, RazeXR_SetRefreshRate, TBXR_LeaveVR,
           Frame, VR_FrameSetup
  <1>3. OpenXRHMD' \in HMDs /\ enabled' \subseteq device.extensions
    <2>1. CASE TBXR_InitialiseOpenXR
      <3> DEFINE guess == FromExtensions(device.extensions)
      <3>1. \/ UNCHANGED <<OpenXRHMD, enabled>>
            \/ /\ OpenXRHMD' = FromName(device.name, guess)
               /\ enabled' = device.extensions \cap Wanted(guess)
        BY <2>1 DEF TBXR_InitialiseOpenXR
      <3>2. guess \in HMDs /\ FromName(device.name, guess) \in HMDs
        <4>1. guess \in {"pico", "meta", "generic"}
          BY DEF FromExtensions
        <4>2. FromName(device.name, guess) \in {"pico", "meta", guess}
          BY Zenon DEF FromName
        <4> QED
          BY <4>1, <4>2 DEF HMDs
      <3> QED
        BY <3>1, <3>2 DEF RateInv
    <2>2. CASE ~TBXR_InitialiseOpenXR
      <3>1. UNCHANGED <<OpenXRHMD, enabled>>
        BY <2>2 DEF AppThread, ovrEgl_CreateContext, TBXR_EnterVR, TBXR_InitRenderer,
               SessionReady, StartGame, RazeXR_SetRefreshRate, TBXR_LeaveVR, Frame,
               VR_FrameSetup
      <3> QED
        BY <3>1 DEF RateInv
    <2> QED
      BY <2>1, <2>2
  <1> QED
    BY <1>1, <1>2, <1>3 DEF RateInv

\* The display has the rate of the headset, or the one that was asked for.
THEOREM RateInvInductive == Spec => []RateInv
  <1>1. Init => RateInv
    BY DEF Init, PlatformInit, RateInv, HMDs
  <1>2. RateInv /\ [Next]_vars => RateInv'
    <2> SUFFICES ASSUME RateInv, [Next]_vars PROVE RateInv'
      OBVIOUS
    <2>1. CASE Installing \/ UNCHANGED vars
      BY <2>1 DEF Installing, vars, platformVars, RateInv
    <2>2. CASE onCreate
      BY <2>2 DEF onCreate, RateInv
    <2>3. CASE LaunchAgain
      BY <2>3 DEF LaunchAgain, PlatformAgain, RateInv, HMDs
    <2> QED
      BY <2>1, <2>2, <2>3, AppThreadKeepsRate DEF Next
  <1> QED
    BY <1>1, <1>2, PTL DEF Spec

\* However the stick is pushed, the turn is wrapped into half a circle either way.
LEMMA TurnIsWrapped ==
    ASSUME NEW at, NEW degrees \in 0..360, snapTurn \in -180..180, Turn(at, degrees)
    PROVE  snapTurn' \in -180..180
  <1>1. \A n \in -540..540 : Wrapped(n) \in -180..180
    BY DEF Wrapped
  <1>2. snapTurn + degrees \in -540..540 /\ snapTurn + (-degrees) \in -540..540
    OBVIOUS
  <1>3. snapTurn' \in {snapTurn, Wrapped(snapTurn + degrees), Wrapped(snapTurn + (-degrees))}
    BY DEF Turn, Push
  <1> DEFINE range == -180..180
  <1>4. /\ Wrapped(snapTurn + degrees) \in range /\ Wrapped(snapTurn + (-degrees)) \in range
        /\ snapTurn \in range
    BY <1>1, <1>2, Zenon
  <1> HIDE DEF range
  <1>5. snapTurn' \in range
    BY <1>3, <1>4
  <1> QED
    BY <1>5 DEF range

\* The player faces the way of some frame's head, turned by what is in range.
THEOREM FacingInvInductive == Spec => []FacingInv
  <1>1. Init => FacingInv
    BY DEF Init, VR_Init, TurnInit, FacingInv
  <1>2. FacingInv /\ [Next]_vars => FacingInv'
    <2> SUFFICES ASSUME FacingInv, [Next]_vars PROVE FacingInv'
      OBVIOUS
    <2>1. CASE Installing \/ onCreate \/ AppThread \/ UNCHANGED vars
      BY <2>1 DEF Installing, onCreate, AppThread, vars, viewVars, turnVars, FacingInv
    <2>2. CASE Frame
      <3> DEFINE degrees == Worlds[world].vr_snapTurn
      <3>1. world' = world /\ world \in DOMAIN Worlds /\ degrees \in 0..360
        BY <2>2, LaunchAssumption DEF Frame, FacingInv, WorldKinds
      <3>2. PICK position \in Worlds[world].positions, yaw \in Worlds[world].yaws,
                 at \in Worlds[world].sticks, located \in BOOLEAN, screenLayer \in BOOLEAN,
                 sticksRead \in BOOLEAN :
                ViewFrame(located, position, yaw, screenLayer, sticksRead, at, degrees)
        BY <2>2 DEF Frame
      <3>3. playerYaw' \in {playerYaw, yaw}
        BY <3>2 DEF ViewFrame
      <3>4. snapTurn' = snapTurn \/ Turn(at, degrees)
        BY <3>2 DEF ViewFrame, turnVars
      <3> HIDE DEF degrees
      <3>5. snapTurn' \in -180..180
        BY <3>1, <3>4, TurnIsWrapped DEF FacingInv
      <3> QED
        BY <3>1, <3>2, <3>3, <3>5 DEF FacingInv
    <2>3. CASE LaunchAgain
      BY <2>3 DEF LaunchAgain, VR_InitAgain, FacingInv
    <2> QED
      BY <2>1, <2>2, <2>3 DEF Next
  <1> QED
    BY <1>1, <1>2, PTL DEF Spec

\* In every launch, of every package, on every runtime and for every player, the
\* variables stay in their ranges.
THEOREM TypeCorrect == Spec => []TypeOK
  <1>1. FilesInv /\ ArgumentsInv /\ PlatformInv /\ ViewInv /\ NamesInv /\ RateInv /\ FacingInv
            => TypeOK
    <2> SUFFICES ASSUME FilesInv, ArgumentsInv, PlatformInv, ViewInv, NamesInv, RateInv,
                        FacingInv
                 PROVE  TypeOK
      OBVIOUS
    <2>1. entry \in 1 .. Len(Entries) + 1
      BY FileNames, SMT DEF FilesInv, OpenInv, NamesInv
    <2>2. mishaps \in Nat
      BY DEF ArgumentsInv, OwnInv
    <2> QED
      BY <2>1, <2>2 DEF FilesInv, OpenInv, PlatformInv, ViewInv, NamesInv, RateInv, FacingInv,
         TypeOK
  <1> QED
    BY <1>1, FilesInvInductive, ArgumentsInvInductive, PlatformInvInductive, ViewInvInductive,
       NamesInvInductive, RateInvInductive, FacingInvInductive, PTL
=============================================================================
