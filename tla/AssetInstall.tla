---------------------------- MODULE AssetInstall ----------------------------
(***************************************************************************)
(* GLES3JNIActivity.create(): the files the game needs are copied from the *)
(* package to the storage, one after the other, before the native code is  *)
(* started. A forced file is written at every launch, any other one only   *)
(* if no file of its name is there. Files are written under their final    *)
(* names, and an exception ends the writing of one file (or the rest of an *)
(* archive) and nothing else. The process may be killed at any time; then  *)
(* the storage is what the next launch finds.                              *)
(*                                                                         *)
(* A file is "absent", "empty" (opened), "part" of what was to be written, *)
(* "whole", or some "other" file: the player's, or of an older version.    *)
(***************************************************************************)
EXTENDS CommandLine

CONSTANT Entries   \* the files in RazeXR.zip, in order

Forced == {"raze.pk3", "RazeXR.zip"}
Unforced == {"raze.sf2", "commandline.txt", "DUKE3D.GRP"}
EntryFiles == {Entries[n] : n \in DOMAIN Entries}
Files == Forced \cup Unforced \cup EntryFiles
NoFile == "no file"

ASSUME EntriesAssumption ==
    /\ Entries \in Seq(STRING)
    /\ EntryFiles \cap (Forced \cup Unforced \cup {NoFile, "unzip", "read"}) = {}

\* What create() does, in order; after the last step it calls the native onCreate.
create == <<"raze.pk3", "raze.sf2", "commandline.txt", "RazeXR.zip", "unzip",
            "DUKE3D.GRP", "read">>
Done == Len(create) + 1

Contents == {"absent", "empty", "part", "whole", "other"}

VARIABLES
    disk,          \* what each file contains
    step,          \* the step create() is at
    out, entry,    \* the file that is open for writing; the entry unzip() is at
    commandLineParams,
    \* the world
    own,           \* the files that were there before the first launch
    ownLines,      \* the lines of the player's own commandline.txt
    mishaps,       \* how many times the storage may still fail
    \* history
    failed,        \* the files that could not be written in this launch
    cut            \* the files ever left while they were being written

diskVars == <<disk, step, out, entry, commandLineParams, own, ownLines, mishaps, failed, cut>>
writing == <<disk, out, mishaps, failed, cut>>
given == <<own, ownLines>>

At(f) == step < Done /\ create[step] = f
Open == {out} \ {NoFile}
Advance == step' = step + 1
Put(f, content) == disk' = [disk EXCEPT ![f] = content]

\* Something throws: the storage is full, withdrawn or not permitted.
Mishap(files) ==
    /\ mishaps > 0 /\ mishaps' = mishaps - 1
    /\ failed' = failed \cup files /\ cut' = cut \cup Open
    /\ out' = NoFile /\ UNCHANGED disk

-----------------------------------------------------------------------------
(* copy_asset *)

\* Mutant: a file that is there is never replaced.
NeededUnlessThere(f) == disk[f] = "absent"

Needed(f) == disk[f] = "absent" \/ f \in Forced

SkipCopy(f) ==
    /\ At(f) /\ out = NoFile /\ ~Needed(f)
    /\ Advance /\ UNCHANGED <<writing, entry, commandLineParams, given>>

\* FileOutputStream truncates the file.
OpenCopy(f) ==
    /\ At(f) /\ out = NoFile /\ Needed(f)
    /\ Put(f, "empty") /\ out' = f
    /\ UNCHANGED <<step, entry, commandLineParams, given, mishaps, failed, cut>>

\* commandline.txt is shorter than the buffer: it is written in one go.
Write ==
    /\ out \notin {NoFile, "commandline.txt"} /\ disk[out] = "empty"
    /\ Put(out, "part")
    /\ UNCHANGED <<out, step, entry, commandLineParams, given, mishaps, failed, cut>>

FinishCopy(f) ==
    /\ At(f) /\ out = f
    /\ Put(f, "whole") /\ out' = NoFile /\ Advance
    /\ UNCHANGED <<entry, commandLineParams, given, mishaps, failed, cut>>

FailCopy(f) ==
    /\ At(f) /\ (out = f \/ Needed(f))
    /\ Mishap({f}) /\ Advance /\ UNCHANGED <<entry, commandLineParams, given>>

-----------------------------------------------------------------------------
(* unzip *)

zip == disk["RazeXR.zip"]
Rest == {Entries[n] : n \in entry .. Len(Entries)}

OpenEntry ==
    /\ At("unzip") /\ out = NoFile
    /\ zip \in {"part", "whole", "other"} /\ entry <= Len(Entries)
    /\ Put(Entries[entry], "empty") /\ out' = Entries[entry]
    /\ UNCHANGED <<step, entry, commandLineParams, given, mishaps, failed, cut>>

\* Mutant: the count starts at the wrong end.
FinishEntryEarly ==
    /\ At("unzip") /\ out # NoFile
    /\ Put(out, IF zip = "other" THEN "other" ELSE "whole") /\ out' = NoFile
    /\ entry' = entry - 1
    /\ UNCHANGED <<step, commandLineParams, given, mishaps, failed, cut>>

FinishEntry ==
    /\ At("unzip") /\ out # NoFile
    /\ Put(out, IF zip = "other" THEN "other" ELSE "whole") /\ out' = NoFile
    /\ entry' = entry + 1
    /\ UNCHANGED <<step, commandLineParams, given, mishaps, failed, cut>>

FinishUnzip ==
    /\ At("unzip") /\ out = NoFile
    /\ zip \in {"absent", "empty"} \/ entry > Len(Entries)
    /\ Advance /\ UNCHANGED <<writing, entry, commandLineParams, given>>

\* Any exception is the last of it; so is the place where a part of an archive ends.
FailUnzip ==
    /\ At("unzip") /\ Mishap(Rest)
    /\ Advance /\ UNCHANGED <<entry, commandLineParams, given>>
EndOfPart ==
    /\ At("unzip") /\ zip = "part"
    /\ failed' = failed \cup Rest /\ cut' = cut \cup Open /\ out' = NoFile
    /\ Advance /\ UNCHANGED <<disk, mishaps, entry, commandLineParams, given>>

-----------------------------------------------------------------------------
(* The parameters: what commandline.txt says, or "raze". *)

raze == <<"a", "a", "a", "a">>
Lines(content) ==
    CASE content = "empty" -> << >>
      [] content = "other" -> ownLines
      [] OTHER -> <<raze>>

ReadCommandLine ==
    /\ At("read")
    /\ commandLineParams' = IF disk["commandline.txt"] = "absent" THEN raze
                            ELSE Joined(Lines(disk["commandline.txt"]))
    /\ Advance /\ UNCHANGED <<writing, entry, given>>

FailRead ==
    /\ At("read") /\ disk["commandline.txt"] # "absent" /\ Mishap({})
    /\ commandLineParams' = raze
    /\ Advance /\ UNCHANGED <<entry, given>>

-----------------------------------------------------------------------------
\* The process is gone and started again: create() begins anew.
CreateAgain ==
    /\ step' = 1 /\ entry' = 1 /\ out' = NoFile /\ commandLineParams' = << >>
    /\ failed' = {} /\ cut' = cut \cup Open
    /\ UNCHANGED <<disk, given, mishaps>>

Copy == \E f \in Forced \cup Unforced :
            SkipCopy(f) \/ OpenCopy(f) \/ FinishCopy(f) \/ FailCopy(f)
Unzip == OpenEntry \/ FinishEntry \/ FinishUnzip \/ FailUnzip \/ EndOfPart
Create == Copy \/ Write \/ Unzip \/ ReadCommandLine \/ FailRead
=============================================================================
