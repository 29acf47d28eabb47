------------------------------ MODULE ConfigMerge ------------------------------
(***************************************************************************)
(* How the command line finds the configuration of a run (packages/cli,    *)
(* packages/node/src/utils/mergeDefaultConfig.ts): a config file is merged *)
(* with its preset and validated, the flags are laid over it, and defaults *)
(* fill the rest.  An option is decided independently of the others, so a  *)
(* behaviour follows one of them through all stages.  A value is known by  *)
(* its source and by whether JavaScript takes it for true.                 *)
(***************************************************************************)
CONSTANTS
    Options,  \* the options to follow
    Presets   \* what a preset's name may stand for

VARIABLES
    option,   \* the option
    named,    \* is there a --config-file?
    found,    \* the file: "fine", "missing", or "broken" (loading it throws)
    choice,   \* [flag, file]: the preset of --preset, and that of the file
    flag,     \* what the parser of the command line makes of the option
    file, preset,  \* the value the others give it
    pc,
    read,     \* its value in the validated config file
    base,     \* its value with the flags over it
    config    \* the value monodeploy runs with

sources == <<option, named, found, choice, flag, file, preset>>
vars == <<sources, pc, read, base, config>>

-----------------------------------------------------------------------------
(* Options, with a dot before a key of git or versionStrategy. *)

\* flag ?? file ?? undefined
Plain == {"registryUrl", "dryRun", ".baseBranch", ".commitSha", ".remote", ".push",
          "commitIgnorePatterns", "topological", "topologicalDev", "plugins",
          "prerelease", "prereleaseId", "prereleaseNPMTag", "packageGroupManifestField",
          "changesetFilename", "changelogFilename", "forceWriteChangeFiles",
          "persistVersions", "autoCommit", "autoCommitMessage"}

\* The same, of a fixed set of words.
Words == {"registryMode", "access"}

\* Integers, of which the command line passes on those above 0.
Limits == {"maxConcurrentReads", "maxConcurrentWrites"}
Numeric == Limits \cup {"jobs"}

\* What a config file has no key for, and what the command line has no flag for.
FlagOnly == {"logLevel", "cwd", "applyChangeset"}
FileOnly == {"packageGroups", ".coerceImplicitPeerDependency"}

\* Merged key by key; the second may also be a text.
Objects == {"packageGroups", "conventionalChangelogConfig"}

AllOptions == Plain \cup Words \cup Numeric \cup FlagOnly \cup FileOnly \cup Objects
              \cup {".tag", "changesetIgnorePatterns", ".minimumStrategy"}

\* presets/recommended.ts
Recommended == {"persistVersions", "autoCommit", ".push", "changesetIgnorePatterns"}

AllPresets == {"none", "empty", "recommended", "custom", "missing", "broken"}

ASSUME ConfigAssumption == Options \subseteq AllOptions /\ Presets \subseteq AllPresets

-----------------------------------------------------------------------------
(* Values. *)

Absent  == <<"nobody", "absent">>   \* undefined, or its object is null
Null    == <<"nobody", "null">>
Default == <<"default", "on">>

On(source)   == <<source, "on">>
Off(source)  == <<source, "off">>   \* false, 0 or less, "", [] or the word none
Text(source) == <<source, "text">>  \* a text where an object might be

Given(source) == {On(source), Off(source), Text(source)}

Values == {Absent, Null, Default} \cup Given("flag") \cup Given("file") \cup Given("preset")

\* a ?? b
Or(a, b) == IF a \in {Absent, Null} THEN b ELSE a

\* Words and objects are never false.
HasOff(o) == o \notin Words \cup Objects \cup {"cwd", "logLevel", ".coerceImplicitPeerDependency"}

\* What the parser fills in where there is no flag: 0, or true.
Filled(o) ==
    CASE o = "jobs" -> Off("flag")
      [] o = ".tag" -> On("flag")
      [] OTHER      -> Absent

FlagValues(o) ==
    {Filled(o)} \cup (IF o \in FileOnly THEN {} ELSE {On("flag")})
                \cup (IF o \notin FileOnly /\ HasOff(o) THEN {Off("flag")} ELSE {})

FileValues(o, source) ==
    {Absent, Null, On(source)}
    \cup (IF HasOff(o) THEN {Off(source)} ELSE {})
    \cup (IF o = "conventionalChangelogConfig" THEN {Text(source)} ELSE {})

-----------------------------------------------------------------------------
(* Stages. *)

\* What --preset, and the file, may say; "blank" is --preset "".
Choices == [flag : Presets \cup {"none", "blank"}, file : Presets \cup {"none"}]

\* (preset ?? fileConfig.preset) || null: an empty name switches off the file's.
PresetName ==
    CASE choice.flag = "none"  -> choice.file
      [] choice.flag = "blank" -> "none"
      [] OTHER                 -> choice.flag

\* loadPresetConfig
PresetValue ==
    CASE PresetName = "custom"      -> preset
      [] PresetName = "recommended" -> IF option \in Recommended THEN On("preset") ELSE Absent
      [] OTHER                      -> Absent

IsObject(o, value) == o \in Objects /\ value = On("preset")

\* Mutant: a value of the file that is false is taken for none.
MergeTruthy(o, under, over) ==
    IF over \in {Absent, Off("file")} \/ (over = Null /\ IsObject(o, under))
    THEN under ELSE over

\* merge: an object overridden by null stays as it is, a text does not.
Merge(o, under, over) ==
    IF over = Absent \/ (over = Null /\ IsObject(o, under)) THEN under ELSE over

Merged == Merge(option, PresetValue, file)

\* validateConfigFile: ajv's nullable does not extend an enum or a oneOf.
Valid(o, value) ==
    /\ o \in FlagOnly => value = Absent
    /\ value = Null => o \notin Words \cup Objects
                                \cup {".minimumStrategy", ".coerceImplicitPeerDependency"}
    /\ o = ".minimumStrategy" => value \notin {Off("file"), Off("preset")}

\* parseConfiguration, and execute for the options of the command.
Parsed ==
    CASE option \in FlagOnly -> flag
      [] option = "packageGroups" -> read
      [] option = ".coerceImplicitPeerDependency" -> Absent
      [] option \in Numeric -> IF flag = On("flag") THEN flag ELSE read
      [] option = ".tag" -> IF flag = Off("flag") THEN flag ELSE read
      [] option = ".minimumStrategy" -> IF flag = Off("flag") THEN Absent ELSE Or(flag, read)
      [] OTHER -> Or(flag, read)

Init ==
    /\ option \in Options
    /\ named \in BOOLEAN
    /\ found \in {"fine", "missing", "broken"}
    /\ choice \in Choices
    /\ flag \in FlagValues(option)
    /\ file \in FileValues(option, "file")
    /\ preset \in FileValues(option, "preset")
    /\ pc = "reading"
    /\ read = Absent /\ base = Absent /\ config = Absent

Read(value) == pc' = "parsing" /\ read' = value /\ UNCHANGED <<sources, base, config>>

Fail == pc' = "failed" /\ UNCHANGED <<sources, read, base, config>>

\* readConfigFile of a file that loads, with a preset that loads or none.
ReadFile ==
    /\ pc = "reading" /\ found = "fine"
    /\ PresetName \in {"none", "empty", "recommended", "custom"}
    /\ Valid(option, Merged)
    /\ Read(Merged)

Reject ==
    /\ pc = "reading" /\ found = "fine"
    /\ PresetName \in {"none", "empty", "recommended", "custom"}
    /\ ~Valid(option, Merged)
    /\ Fail

LoadThrows ==
    /\ pc = "reading"
    /\ found = "broken" \/ (found = "fine" /\ PresetName = "broken")
    /\ Fail

\* ResolveFailure, of the file or of its preset: without --config-file it is
\* taken to mean that there is no file.
Unresolved ==
    /\ pc = "reading"
    /\ found = "missing" \/ (found = "fine" /\ PresetName = "missing")
    /\ IF named THEN Fail ELSE Read(Absent)

Parse ==
    /\ pc = "parsing"
    /\ base' = Parsed
    /\ pc' = "defaulting"
    /\ UNCHANGED <<sources, read, config>>

\* mergeDefaultConfig
ApplyDefaults ==
    /\ pc = "defaulting"
    /\ config' = Or(base, Default)
    /\ pc' = "running"
    /\ UNCHANGED <<sources, read, base>>

Next == ReadFile \/ Reject \/ LoadThrows \/ Unresolved \/ Parse \/ ApplyDefaults

Spec == Init /\ [][Next]_vars

-----------------------------------------------------------------------------
(***************************************************************************)
(* Properties.                                                             *)
(***************************************************************************)

TypeOK ==
    /\ option \in Options
    /\ choice \in Choices
    /\ flag \in FlagValues(option)
    /\ file \in FileValues(option, "file")
    /\ preset \in FileValues(option, "preset")
    /\ pc \in {"reading", "parsing", "defaulting", "running", "failed"}
    /\ read \in Values /\ base \in Values /\ config \in Values

\* What stands for the default: null, and the word none.
Said(v) == IF v = Null \/ (option = ".minimumStrategy" /\ v = Off("flag")) THEN Default ELSE v

\* What the file that is there asks for, or else its preset, whether it says yes
\* or no.
NearestOfFile ==
    IF found # "fine" \/ option \in FlagOnly THEN Default
    ELSE IF file # Absent /\ ~(file = Null /\ IsObject(option, PresetValue)) THEN Said(file)
    ELSE IF PresetValue # Absent THEN Said(PresetValue)
    ELSE Default

\* What the sources ask for: the flag, or else the file or its preset.  What the
\* parser fills in itself, as for --jobs 0 and --git-tag, asks for nothing.
Nearest == IF flag # Filled(option) THEN Said(flag) ELSE NearestOfFile

\* --max-concurrent-reads 0 or --max-concurrent-writes 0, which is not filled in
\* and documented ("set to 0 for default").
ExplicitZero == option \in Limits /\ flag = Off("flag")

\* A run is never given an option other than the one its sources ask for: a file
\* that is found is neither ignored nor overruled by its preset or a default, and
\* a flag not by the file.  The code breaks this rule for the flags of
\* ExplicitZero, where the file, or else its preset, overrules the command line.
NearestSourceWins ==
    pc = "running" => config = IF ExplicitZero THEN NearestOfFile ELSE Nearest
==============================================================================
