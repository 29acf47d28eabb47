--------------------------- MODULE ConfigMergeProofs ---------------------------
(***************************************************************************)
(* Proofs about ConfigMerge, for every set of options and presets that the *)
(* assumption of a theorem allows.                                         *)
(***************************************************************************)
EXTENDS ConfigMerge, TLAPS

\* What the sources offer is decided at the start.
SourcesTyped ==
    /\ option \in Options
    /\ choice \in Choices
    /\ flag \in FlagValues(option)
    /\ file \in FileValues(option, "file")
    /\ preset \in FileValues(option, "preset")

\* The file is there and loads, but is dropped for a preset that cannot be resolved.
FileLost == found = "fine" /\ PresetName = "missing" /\ ~named

\* What the config file and its preset say of the option, if nothing failed.
FileSays ==
    IF found = "fine" /\ ~FileLost THEN read = Merged /\ Valid(option, Merged)
    ELSE read = Absent

Progress ==
    /\ SourcesTyped
    /\ pc = "parsing" => FileSays
    /\ pc = "defaulting" => FileSays /\ base = Parsed
    /\ pc = "running" => FileSays /\ base = Parsed /\ config = Or(base, Default)

\* NearestOfFile, but for a file that is lost.
KeptOfFile == IF FileLost THEN Default ELSE NearestOfFile

\* Does the flag decide?  0 does not, and what the parser fills in does not.
FlagDecides == flag # Filled(option) /\ ~ExplicitZero

\* Nearest, but for a file that is lost and a limit of 0.
NearestKept == IF FlagDecides THEN Said(flag) ELSE KeptOfFile

-----------------------------------------------------------------------------
(* Values and options. *)

LEMMA ValuesDiffer ==
    /\ Absent # Null /\ Default # Absent /\ Default # Null
    /\ \A s : On(s) # Absent /\ On(s) # Null /\ Off(s) # Absent /\ Off(s) # Null
    /\ \A s : Text(s) # Absent /\ Text(s) # Null
    /\ \A s, u : On(s) # Off(u) /\ Text(s) # Off(u)
    /\ Off("file") # Off("flag") /\ Off("preset") # Off("flag")
  <1>1. /\ "absent" # "null" /\ "on" # "absent" /\ "on" # "null"
        /\ "off" # "absent" /\ "off" # "null" /\ "text" # "absent" /\ "text" # "null"
    OBVIOUS
  <1> QED
    BY <1>1 DEF Absent, Null, Default, On, Off, Text

LEMMA OptionsDiffer ==
    /\ \A o \in FlagOnly : o \notin Numeric \cup FileOnly \cup Objects \cup {".tag", ".minimumStrategy"}
    /\ Limits \subseteq Numeric /\ "jobs" \in Numeric \ Limits
    /\ \A o \in Numeric : o \in Limits \/ o = "jobs"
    /\ \A o \in Numeric : o \notin FileOnly \cup Objects \cup {".tag", ".minimumStrategy"}
    /\ ".minimumStrategy" \notin Objects \cup FileOnly \cup {".tag"}
    /\ ".tag" \notin Objects \cup FileOnly
    /\ "packageGroups" \in FileOnly
    /\ \A o \in FileOnly : o = "packageGroups" \/ o = ".coerceImplicitPeerDependency"
  BY DEF FlagOnly, Numeric, Limits, FileOnly, Objects

LEMMA SourceValues ==
    ASSUME SourcesTyped
    PROVE  /\ flag \in {Absent, On("flag"), Off("flag")}
           /\ option \in FileOnly => flag = Absent
           /\ file \in {Absent, Null, On("file"), Off("file"), Text("file")}
           /\ PresetValue \in {Absent, Null, On("preset"), Off("preset"), Text("preset")}
  <1>1. flag \in {Absent, On("flag"), Off("flag")}
    BY DEF SourcesTyped, FlagValues, Filled
  <1>2. option \in FileOnly => flag = Absent
    <2>1. option \in FileOnly => Filled(option) = Absent
      BY OptionsDiffer DEF Filled
    <2> QED
      BY <2>1 DEF SourcesTyped, FlagValues
  <1>3. file \in {Absent, Null, On("file"), Off("file"), Text("file")}
    BY DEF SourcesTyped, FileValues
  <1>4. preset \in {Absent, Null, On("preset"), Off("preset"), Text("preset")}
    BY DEF SourcesTyped, FileValues
  <1>5. PresetValue \in {Absent, Null, On("preset"), Off("preset"), Text("preset")}
    BY <1>4 DEF PresetValue
  <1> QED
    BY <1>1, <1>2, <1>3, <1>5

\* What the file and its preset say is never the word none of the flag.
LEMMA Sayings ==
    ASSUME SourcesTyped
    PROVE  /\ Said(file) = IF file = Null THEN Default ELSE file
           /\ Said(PresetValue) = IF PresetValue = Null THEN Default ELSE PresetValue
           /\ option # ".minimumStrategy" => Said(flag) = flag
  <1>1. flag # Null /\ file # Off("flag") /\ PresetValue # Off("flag")
    BY SourceValues, ValuesDiffer
  <1> QED
    BY <1>1 DEF Said

-----------------------------------------------------------------------------
(* The file and its preset. *)

LEMMA FileAndPreset ==
    ASSUME SourcesTyped, FileSays, option \notin FlagOnly
    PROVE  Or(read, Default) = KeptOfFile
  <1>1. CASE found # "fine" \/ FileLost
    BY <1>1, ValuesDiffer DEF FileSays, KeptOfFile, NearestOfFile, Or
  <1>2. CASE found = "fine" /\ ~FileLost
    <2>1. /\ KeptOfFile = NearestOfFile
          /\ NearestOfFile =
                 IF file # Absent /\ ~(file = Null /\ IsObject(option, PresetValue))
                 THEN Said(file)
                 ELSE IF PresetValue # Absent THEN Said(PresetValue) ELSE Default
      BY <1>2 DEF KeptOfFile, NearestOfFile
    <2>2. read = IF file = Absent \/ (file = Null /\ IsObject(option, PresetValue))
                 THEN PresetValue ELSE file
      BY <1>2 DEF FileSays, Merged, Merge
    <2> QED
      BY <2>1, <2>2, Sayings, ValuesDiffer DEF Or
  <1> QED
    BY <1>1, <1>2

\* Where the file is kept, only a limit of 0 makes a difference.
LEMMA NearestSplit ==
    ASSUME ~FileLost
    PROVE  NearestKept = IF ExplicitZero THEN NearestOfFile ELSE Nearest
  BY DEF NearestKept, FlagDecides, KeptOfFile, Nearest

-----------------------------------------------------------------------------
(* The flags over it. *)

LEMMA FlagsOverFile ==
    ASSUME SourcesTyped, FileSays, option # ".coerceImplicitPeerDependency"
    PROVE  Or(Parsed, Default) = NearestKept
  <1>0. /\ flag \in {Absent, On("flag"), Off("flag")}
        /\ option \in FileOnly => flag = Absent
        /\ flag # Null
    BY SourceValues, ValuesDiffer
  <1>1. CASE option \in FlagOnly
    <2>1. /\ option \notin Numeric \cup Limits
          /\ option \notin {"jobs", ".tag", ".minimumStrategy"}
          /\ option \notin {"packageGroups", ".coerceImplicitPeerDependency"}
      BY <1>1, OptionsDiffer
    <2>2. Parsed = flag /\ Filled(option) = Absent /\ ~ExplicitZero
      BY <1>1, <2>1 DEF Parsed, Filled, ExplicitZero
    <2>3. CASE flag = Absent
      BY <1>1, <2>2, <2>3, ValuesDiffer
      DEF FlagDecides, KeptOfFile, NearestOfFile, Or, NearestKept
    <2>4. CASE flag # Absent
      BY <1>0, <2>1, <2>2, <2>4, Sayings DEF FlagDecides, Or, NearestKept
    <2> QED
      BY <2>3, <2>4
  <1>2. CASE option \in FileOnly
    <2>1. option = "packageGroups" /\ option \notin FlagOnly \cup Numeric
      BY <1>2, OptionsDiffer
    <2>2. Parsed = read
      BY <2>1, ".minimumStrategy" # "packageGroups", ".tag" # "packageGroups",
         ".coerceImplicitPeerDependency" # "packageGroups" DEF Parsed
    <2>3. ~FlagDecides
      BY <1>0, <1>2, <2>1, "jobs" # "packageGroups", ".tag" # "packageGroups"
      DEF FlagDecides, Filled
    <2> QED
      BY <2>1, <2>2, <2>3, FileAndPreset DEF NearestKept
  <1>3. CASE option \in Numeric
    <2>1. /\ option \notin FlagOnly /\ option # "packageGroups"
          /\ option # ".tag" /\ option # ".minimumStrategy"
      BY <1>3, OptionsDiffer
    <2>2. Parsed = IF flag = On("flag") THEN flag ELSE read
      BY <1>3, <2>1 DEF Parsed
    <2>3. Filled(option) = IF option = "jobs" THEN Off("flag") ELSE Absent
      BY <2>1 DEF Filled
    <2>4. CASE flag = On("flag")
      <3>1. FlagDecides
        BY <2>3, <2>4, ValuesDiffer DEF FlagDecides, ExplicitZero
      <3> QED
        BY <1>0, <2>1, <2>2, <2>4, <3>1, ValuesDiffer, Sayings DEF Or, NearestKept
    <2>5. CASE flag # On("flag")
      <3>1. ~FlagDecides
        <4>1. CASE option = "jobs"
          <5>1. flag = Off("flag")
            BY <2>3, <2>5, <4>1 DEF SourcesTyped, FlagValues
          <5> QED
            BY <2>3, <4>1, <5>1 DEF FlagDecides
        <4>2. CASE option # "jobs"
          <5>1. option \in Limits
            BY <1>3, <4>2, OptionsDiffer
          <5> QED
            BY <1>0, <2>3, <2>5, <4>2, <5>1 DEF FlagDecides, ExplicitZero
        <4> QED
          BY <4>1, <4>2
      <3> QED
        BY <2>1, <2>2, <2>5, <3>1, FileAndPreset DEF NearestKept
    <2> QED
      BY <2>4, <2>5
  <1>4. CASE option = ".tag"
    <2>1. /\ option \notin FlagOnly \cup Numeric \cup Limits
          /\ option # "packageGroups" /\ option # ".minimumStrategy" /\ option # "jobs"
      BY <1>4, OptionsDiffer
    <2>2. Parsed = IF flag = Off("flag") THEN flag ELSE read
      BY <1>4, <2>1 DEF Parsed
    <2>3. Filled(option) = On("flag") /\ ~ExplicitZero
      BY <1>4, <2>1 DEF Filled, ExplicitZero
    <2>4. CASE flag = Off("flag")
      <3>1. FlagDecides
        BY <2>3, <2>4, ValuesDiffer DEF FlagDecides
      <3> QED
        BY <1>0, <2>1, <2>2, <2>4, <3>1, ValuesDiffer, Sayings DEF Or, NearestKept
    <2>5. CASE flag # Off("flag")
      <3>1. flag = On("flag")
        BY <2>3, <2>5 DEF SourcesTyped, FlagValues
      <3>2. ~FlagDecides
        BY <2>3, <3>1 DEF FlagDecides
      <3> QED
        BY <2>1, <2>2, <2>5, <3>2, FileAndPreset DEF NearestKept
    <2> QED
      BY <2>4, <2>5
  <1>5. CASE option = ".minimumStrategy"
    <2>1. /\ option \notin FlagOnly \cup Numeric \cup Limits
          /\ option # "packageGroups" /\ option # ".tag" /\ option # "jobs"
      BY <1>5, OptionsDiffer
    <2>2. Parsed = IF flag = Off("flag") THEN Absent ELSE Or(flag, read)
      BY <1>5, <2>1 DEF Parsed
    <2>3. FlagDecides <=> flag # Absent
      BY <2>1 DEF FlagDecides, Filled, ExplicitZero
    <2>4. CASE flag = Off("flag")
      BY <1>5, <2>2, <2>3, <2>4, ValuesDiffer DEF Or, NearestKept, Said
    <2>5. CASE flag = Absent
      <3>1. Parsed = read
        BY <2>2, <2>5, ValuesDiffer DEF Or
      <3> QED
        BY <2>1, <2>3, <2>5, <3>1, FileAndPreset DEF NearestKept
    <2>6. CASE flag = On("flag")
      <3>1. Parsed = flag /\ Said(flag) = flag
        BY <1>0, <2>2, <2>6, ValuesDiffer DEF Or, Said
      <3> QED
        BY <1>0, <2>3, <2>6, <3>1, ValuesDiffer DEF Or, NearestKept
    <2> QED
      BY <1>0, <2>4, <2>5, <2>6
  <1>6. CASE option \notin FlagOnly \cup FileOnly \cup Numeric \cup {".tag", ".minimumStrategy"}
    <2>1. option # "packageGroups" /\ option # "jobs" /\ option \notin Limits
      BY <1>6, OptionsDiffer
    <2>2. Parsed = Or(flag, read)
      BY <1>6, <2>1 DEF Parsed
    <2>3. FlagDecides <=> flag # Absent
      BY <1>6, <2>1 DEF FlagDecides, Filled, ExplicitZero
    <2>4. CASE flag = Absent
      <3>1. Parsed = read
        BY <2>2, <2>4 DEF Or
      <3> QED
        BY <1>6, <2>3, <2>4, <3>1, FileAndPreset DEF NearestKept
    <2>5. CASE flag # Absent
      <3>1. Parsed = flag /\ Said(flag) = flag
        BY <1>0, <1>6, <2>2, <2>5, Sayings DEF Or
      <3> QED
        BY <1>0, <2>3, <2>5, <3>1 DEF Or, NearestKept
    <2> QED
      BY <2>4, <2>5
  <1> QED
    BY <1>1, <1>2, <1>3, <1>4, <1>5, <1>6

-----------------------------------------------------------------------------

\* The sources stay what they are, and so does what each stage made of them.
LEMMA ProgressHolds == Spec => []Progress
  <1>1. Init => Progress
    BY DEF Init, Progress, SourcesTyped
  <1>2. ASSUME Progress, [Next]_vars
        PROVE  Progress'
    <2>1. SourcesTyped
      BY <1>2 DEF Progress
    <2>2. UNCHANGED sources => /\ SourcesTyped' /\ FileLost' = FileLost
                               /\ Merged' = Merged /\ Valid(option, Merged)' = Valid(option, Merged)
      BY <2>1 DEF sources, SourcesTyped, FileLost, Merged, Merge, PresetValue, PresetName, Valid
    <2>3. UNCHANGED <<sources, read>> => FileSays' = FileSays /\ Parsed' = Parsed
      BY <2>2 DEF FileSays, Parsed, sources
    <2>4. CASE ReadFile
      <3>1. ~FileLost
        BY <2>4 DEF ReadFile, FileLost
      <3> QED  BY <2>2, <2>4, <3>1 DEF ReadFile, Read, Progress, FileSays, sources
    <2>5. CASE Reject \/ LoadThrows
      BY <2>2, <2>5 DEF Reject, LoadThrows, Fail, Progress
    <2>6. CASE Unresolved
      <3>1. CASE named
        BY <2>2, <2>6, <3>1 DEF Unresolved, Fail, Progress
      <3>2. CASE ~named
        <4>1. found # "fine" \/ FileLost
          BY <2>6, <3>2 DEF Unresolved, FileLost
        <4> QED  BY <2>2, <2>6, <3>2, <4>1 DEF Unresolved, Read, Progress, FileSays, sources
      <3> QED  BY <3>1, <3>2
    <2>7. CASE Parse
      BY <1>2, <2>2, <2>3, <2>7 DEF Parse, Progress
    <2>8. CASE ApplyDefaults
      BY <1>2, <2>2, <2>3, <2>8 DEF ApplyDefaults, Progress, Or
    <2>9. CASE UNCHANGED vars
      BY <1>2, <2>2, <2>3, <2>9 DEF vars, Progress, Or
    <2> QED
      BY <1>2, <2>4, <2>5, <2>6, <2>7, <2>8, <2>9 DEF Next
  <1> QED
    BY <1>1, <1>2, PTL DEF Spec

\* Whatever the file, the preset and the command line say of an option, a run is
\* given what the flag says, or else what the file or its preset says, or else the
\* default.  Flags that do not decide are --max-concurrent-reads 0 and
\* --max-concurrent-writes 0, which the code can tell from no flag and still takes
\* for none, and --jobs 0 and --git-tag, which it cannot.  A file whose preset
\* cannot be resolved counts as no file unless --config-file names it, and the one
\* option that the command line never passes on has its default.
THEOREM WhatARunIsGiven ==
    Spec => [](pc = "running" =>
                   config = IF option = ".coerceImplicitPeerDependency" THEN Default
                            ELSE NearestKept)
  <1> DEFINE Kept == pc = "running" =>
                         config = IF option = ".coerceImplicitPeerDependency" THEN Default
                                  ELSE NearestKept
  <1>1. Progress => Kept
    <2> SUFFICES ASSUME Progress, pc = "running" PROVE Kept
      OBVIOUS
    <2>1. CASE option = ".coerceImplicitPeerDependency"
      <3>1. Parsed = Absent
        BY <2>1 DEF Parsed, FlagOnly, Numeric, Limits
      <3> QED  BY <2>1, <3>1, ValuesDiffer DEF Progress, Or
    <2>2. CASE option # ".coerceImplicitPeerDependency"
      BY <2>2, FlagsOverFile DEF Progress
    <2> QED  BY <2>1, <2>2
  <1> QED  BY <1>1, ProgressHolds, PTL

\* The file overrules an explicit --max-concurrent-reads 0 or -writes 0: where it
\* is kept and has a number, that is what the run gets.
THEOREM ZeroLosesToTheFile ==
    Spec => [](pc = "running" /\ ExplicitZero /\ found = "fine" /\ ~FileLost
                   /\ file \in {On("file"), Off("file")} => config = file)
  <1> DEFINE Loses == pc = "running" /\ ExplicitZero /\ found = "fine" /\ ~FileLost
                          /\ file \in {On("file"), Off("file")} => config = file
  <1>1. Progress => Loses
    <2> SUFFICES ASSUME Progress, pc = "running", ExplicitZero, found = "fine", ~FileLost,
                        file \in {On("file"), Off("file")}
                 PROVE  config = file
      OBVIOUS
    <2>1. option \notin FlagOnly /\ option # ".coerceImplicitPeerDependency"
      BY OptionsDiffer DEF ExplicitZero, FileOnly
    <2>2. config = NearestKept
      BY <2>1, FlagsOverFile DEF Progress
    <2>3. NearestKept = NearestOfFile
      BY NearestSplit
    <2>4. file # Absent /\ file # Null
      BY ValuesDiffer
    <2>5. NearestOfFile = Said(file) /\ Said(file) = file
      BY <2>1, <2>4, Sayings DEF NearestOfFile, Progress
    <2> QED  BY <2>2, <2>3, <2>5
  <1> QED  BY <1>1, ProgressHolds, PTL

\* With presets that can be resolved, and options that are passed on, a run is
\* given what its sources ask for, except for a limit of 0.
THEOREM TheNearestSourceWins ==
    ASSUME "missing" \notin Presets, ".coerceImplicitPeerDependency" \notin Options
    PROVE  Spec => []NearestSourceWins
  <1>1. Progress => NearestSourceWins
    <2> SUFFICES ASSUME Progress, pc = "running"
                 PROVE  config = IF ExplicitZero THEN NearestOfFile ELSE Nearest
      BY DEF NearestSourceWins
    <2>1. option # ".coerceImplicitPeerDependency" /\ ~FileLost
      BY DEF Progress, SourcesTyped, FileLost, PresetName, Choices
    <2> QED
      BY <2>1, FlagsOverFile, NearestSplit DEF Progress
  <1> QED
    BY <1>1, ProgressHolds, PTL
==============================================================================
