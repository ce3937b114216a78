------------------------------- MODULE Settings -------------------------------
(***************************************************************************)
(* Where the programs get their settings from: the environment, the file   *)
(* TUXCONFIG names, the file of -c, the -D of the command line and the     *)
(* values the code has.  How a line and an address are taken apart is in   *)
(* module Scanning; here a line is the value it gives to one setting.      *)
(***************************************************************************)
EXTENDS Integers, Sequences, SequencesExt

CONSTANTS GivenValue,    \* integers that somebody may write for a setting
          TopInt,   \* the greatest int
          LinesMax  \* bound: lines about the setting in a file, and -D
ASSUME SettingsAssumption == GivenValue \subseteq Int /\ TopInt \in Nat \ {0} /\ LinesMax \in Nat

\* A setting: the least value it may have, the greatest, and its default.  What the
\* buffers may keep is unlimited when it is 0.
Settings == { [least |-> 1, most |-> TopInt, default |-> 3, zero |-> 1],   \* threads, intervals
              [least |-> 0, most |-> TopInt, default |-> 4, zero |-> 0],   \* cachedConnections
              [least |-> 0, most |-> 7, default |-> 4, zero |-> 0],        \* log.level
              [least |-> 0, most |-> TopInt, default |-> 4, zero |-> TopInt] } \* buffer.cachedSize
NotGiven == <<>>  \* what is given once is a sequence of one

VARIABLES setting, environment, tuxconfig, cfgFile, cmdDefs, \* what there is
          missing,   \* the files that cannot be opened
          phase,     \* "files", "file c", "command", "ready", "failed"
          option,    \* m_OptionProperty of the setting
          inForce,     \* its value in the program
          later      \* what SetProperty was given

settingsVars == <<setting, environment, tuxconfig, cfgFile, cmdDefs, missing, phase, option, inForce, later>>

Lines == BoundedSeq(GivenValue, LinesMax)

SettingsInit ==
    /\ setting \in Settings
    /\ environment \in BoundedSeq(GivenValue, 1)
    /\ tuxconfig \in Lines /\ cfgFile \in Lines /\ cmdDefs \in Lines
    /\ missing \in {{}, {"TUXCONFIG"}, {"-c"}}
    /\ phase = "files" /\ option = NotGiven /\ inForce = setting.default /\ later = NotGiven

(* A mistake: a setting that is there already is kept. *)
FirstKept(lines) == IF lines = <<>> \/ option # <<>> THEN option ELSE <<Last(lines)>>

\* The last of some lines counts.
StoredOption(lines) == IF lines = <<>> THEN option ELSE <<Last(lines)>>

\* A file that cannot be opened ends ConfigInit with an exception.
Parse(file, lines, next) ==
    /\ UNCHANGED <<inForce, later>>
    /\ IF file \in missing THEN phase' = "failed" /\ UNCHANGED option
       ELSE phase' = next /\ option' = StoredOption(lines)
ParseFirst == phase = "files" /\ Parse("TUXCONFIG", tuxconfig, "file c")
ParseSecond == phase = "file c" /\ Parse("-c", cfgFile, "command")

\* GetPropertyValue: the environment, and over it what was read.
GetPropertyValue(opt, default) ==
    IF opt # NotGiven THEN opt[1] ELSE IF environment # NotGiven THEN environment[1] ELSE default

\* DoPropConstruct: the limits of AutoConfig, and then AppConfig's 0.
Limited(n) == LET l == IF n < setting.least THEN setting.least ELSE IF n > setting.most THEN setting.most ELSE n
              IN  IF l = 0 THEN setting.zero ELSE l
DoPropConstruct(opt) == inForce' = Limited(GetPropertyValue(opt, inForce))

ParseCommand ==
    /\ phase = "command" /\ phase' = "ready" /\ option' = StoredOption(cmdDefs)
    /\ DoPropConstruct(option') /\ UNCHANGED later

IfAbsent(n) == IF option = NotGiven THEN <<n>> ELSE option

\* SetProperty: the program has values of its own for what was not set.
SetProperty ==
    /\ phase = "ready" /\ later = NotGiven
    /\ \E n \in GivenValue : later' = <<n>> /\ option' = IfAbsent(n)
    /\ DoPropConstruct(option') /\ UNCHANGED phase

SettingsNext ==
    /\ ParseFirst \/ ParseSecond \/ ParseCommand \/ SetProperty
    /\ UNCHANGED <<setting, environment, tuxconfig, cfgFile, cmdDefs, missing>>
SettingsSpec == SettingsInit /\ [][SettingsNext]_settingsVars

-----------------------------------------------------------------------------
\* What is given, from the weakest to the strongest.
AllGiven == <<setting.default>> \o environment \o later \o tuxconfig \o cfgFile \o cmdDefs
Within(n) == \/ n < setting.least /\ inForce = IF setting.least = 0 THEN setting.zero ELSE setting.least
             \/ n > setting.most /\ inForce = setting.most
             \/ n \in setting.least .. setting.most /\ inForce = IF n = 0 THEN setting.zero ELSE n

(* The command line is stronger than the file of -c, that than the file of *)
(* TUXCONFIG, that than what the program sets, that than the environment,  *)
(* and all than the default; the value is then brought within its limits,  *)
(* also when the settings are made a second time from those of the first.  *)
StrongestCounts == phase = "ready" => Within(Last(AllGiven))
=============================================================================
