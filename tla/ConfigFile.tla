---------------------------- MODULE ConfigFile ----------------------------
(* config.json and the three who write it: a start of the receiver          *)
(* (ensure_config_file, then load_config), the person who edits it, and the *)
(* setup program of a new version (WriteReceiverConfig).  Both programs     *)
(* rewrite the file in place, so it is torn between their truncation and    *)
(* the end of their write, and stays so when they die there.  The process   *)
(* environment may bring an OPTIONS_WEBHOOK_URL, which overrides the file.  *)
(*                                                                          *)
(* The file is a record of the settings it has.  Five settings stand for    *)
(* the rest: one whose two defaults differ (dry_run), two with the key      *)
(* "enabled" (hours, options), one the setup program writes (url, a string, *)
(* in the file only whether there is one) and one that is translated        *)
(* (target).  The options key, which OPTIONS_API_KEY overrides as the URL   *)
(* is overridden, switches nothing and is not among them.                   *)
EXTENDS Integers

CONSTANTS Missing,       \* there is no file
          Torn,          \* the file is not JSON
          OldFiles,      \* what an earlier version may have left, or Missing
          MaxEdits       \* bound: edits, and runs of the setup program

Values == [dry_run |-> BOOLEAN, hours |-> BOOLEAN, options |-> BOOLEAN,
           url |-> BOOLEAN, target |-> {"nt", "ninjatrader", "both", "bogus"}]
Settings == DOMAIN Values
Complete == [dry_run : Values.dry_run, hours : Values.hours, options : Values.options,
             url : Values.url, target : Values.target]
Environments == {"absent", "blank", "set"}   \* OPTIONS_WEBHOOK_URL
Running == [dry_run : Values.dry_run, hours : Values.hours, options : Values.options,
            url : {"", "of the file", "of the environment"}, target : Values.target]
Files == {[s \in D |-> f[s]] : D \in SUBSET Settings, f \in Complete}

ASSUME ConfigAssumption ==
    /\ OldFiles \subseteq Files \cup {Missing}
    /\ Missing \notin Files /\ Torn \notin Files /\ Missing # Torn
    /\ MaxEdits \in Nat

VARIABLES file,      \* config.json
          env,       \* the environment of the process, and of the next one
          start,     \* the receiver's start: at, and what it will write
          config,    \* what the running receiver has loaded, or Nothing
          setup,     \* the setup program: at, its text, and what it was asked
          chosen,    \* history: the settings a person has chosen
          raced,     \* history: somebody wrote between a start's, or the setup
                     \*   program's, read of the file and the end of its write
          edits      \* edits and setups so far

fileVars == <<file, env, start, config, setup, chosen, raced, edits>>

Nothing == [s \in {} |-> TRUE]          \* no setting at all

(* The settings of f, and those of g that f lacks.                          *)
Over(f, g) == [s \in DOMAIN f \cup DOMAIN g |-> IF s \in DOMAIN f THEN f[s] ELSE g[s]]
Readable == file \notin {Missing, Torn}

(* config.defaults.json.                                                    *)
Defaults == [dry_run |-> FALSE, hours |-> FALSE, options |-> FALSE,
             url |-> FALSE, target |-> "ninjatrader"]

(* The defaults load_config has itself: they differ, on the safe side.      *)
LoadDefaults == [Defaults EXCEPT !.dry_run = TRUE]

FileInit ==
    /\ file \in OldFiles /\ env \in Environments
    /\ chosen = IF file = Missing THEN Nothing ELSE file
    /\ start = [at |-> "off", held |-> Nothing]
    /\ setup = [at |-> "off", text |-> Nothing, withUrl |-> FALSE]
    /\ config = Nothing /\ raced = FALSE /\ edits = 0

-----------------------------------------------------------------------------
(* Mutant of FillMissing: the defaults win.                                 *)
FillMissingOver(current) == Over(Defaults, current)

(* _fill_missing: what is there stays.                                      *)
FillMissing(current) == Over(current, Defaults)

(* Mutant of Merged: a file that cannot be parsed is as good as none, and a *)
(* complete one is written all the same.                                    *)
MergedAlways == IF Readable THEN FillMissing(file) ELSE Defaults

(* What a start is to write: nothing, for a file it cannot parse and for    *)
(* one that has everything.                                                 *)
Merged ==
    CASE file = Missing -> Defaults
      [] file = Torn -> Nothing
      [] Readable -> IF FillMissing(file) # file THEN FillMissing(file) ELSE Nothing

(* ensure_config_file: the read, which may fail and then changes nothing.   *)
(* A start is a launch or a Restart.                                        *)
Ensure ==
    /\ start.at \in {"off", "up", "failed"}
    /\ \/ start' = [at |-> IF Merged = Nothing THEN "load" ELSE "write", held |-> Merged]
       \/ file # Missing /\ start' = [at |-> "load", held |-> Nothing]
    /\ config' = Nothing
    /\ UNCHANGED <<file, env, setup, chosen, raced, edits>>

Writing(who) == who.at \in {"write", "truncated"}

(* _write_json: opening the file truncates it, unless it cannot be opened.  *)
Truncate ==
    /\ start.at = "write"
    /\ \/ start' = [start EXCEPT !.at = "truncated"] /\ file' = Torn
       \/ start' = [start EXCEPT !.at = "failed"] /\ UNCHANGED file
    /\ raced' = (raced \/ Writing(setup))
    /\ UNCHANGED <<env, config, setup, chosen, edits>>

(* The rest of the write, unless the disk is full.                          *)
Finish ==
    /\ start.at = "truncated"
    /\ \/ start' = [start EXCEPT !.at = "load"] /\ file' = start.held
       \/ start' = [start EXCEPT !.at = "failed"] /\ UNCHANGED file
    /\ raced' = (raced \/ Writing(setup))
    /\ UNCHANGED <<env, config, setup, chosen, edits>>

(* _parse_target.                                                           *)
ParsedTarget(t) == IF t = "nt" THEN "ninjatrader" ELSE t

(* The options URL: an environment that has the variable replaces the       *)
(* file's, with nothing when it is blank.                                   *)
OptionsUrl(inFile, e) ==
    CASE e = "set" -> "of the environment"
      [] e = "blank" -> ""
      [] e = "absent" -> IF inFile THEN "of the file" ELSE ""

(* load_config: a URL switches the options on, whatever their switch says.  *)
Loaded(f, e) ==
    LET raw == Over(f, LoadDefaults)
        url == OptionsUrl(raw.url, e)
    IN  [raw EXCEPT !.url = url, !.options = raw.options \/ url # "",
                    !.target = ParsedTarget(raw.target)]

(* Mutant of Loads: a file that cannot be parsed is read as an empty one.   *)
LoadsAnything == ~(Readable /\ "target" \in DOMAIN file /\ file.target = "bogus")

Loads ==
    /\ file # Torn
    /\ Readable /\ "target" \in DOMAIN file => file.target # "bogus"

Load ==
    /\ start.at = "load"
    /\ \/ /\ Loads
          /\ config' = Loaded(IF Readable THEN file ELSE Nothing, env)
          /\ start' = [start EXCEPT !.at = "up"]
       \/ /\ ~Loads \/ file # Missing        \* or the read fails
          /\ start' = [start EXCEPT !.at = "failed"]
          /\ UNCHANGED config
    /\ UNCHANGED <<file, env, setup, chosen, raced, edits>>

(* The process ends, at any point.                                          *)
Crash ==
    /\ start.at # "off"
    /\ start' = [at |-> "off", held |-> Nothing]
    /\ config' = Nothing
    /\ UNCHANGED <<file, env, setup, chosen, raced, edits>>

-----------------------------------------------------------------------------
(* The person: changes a setting, deletes the file, breaks it by a typing   *)
(* mistake, or writes a broken one anew.                                    *)
Edits(newFile, newChosen) ==
    /\ edits < MaxEdits
    /\ edits' = edits + 1
    /\ file' = newFile /\ chosen' = newChosen
    /\ raced' = (raced \/ Writing(start) \/ Writing(setup))
    /\ UNCHANGED <<env, start, config, setup>>

Set(f, s, v) == Over([t \in {s} |-> v], f)

Change(s, v) == Readable /\ Edits(Set(file, s, v), Set(chosen, s, v))
Delete == file # Missing /\ Edits(Missing, Nothing)
Break == Readable /\ Edits(Torn, chosen)
Repair == file = Torn /\ Edits(chosen, chosen)

(* Between two processes: the next one's environment.                       *)
Environ ==
    /\ start.at = "off"
    /\ env' \in Environments
    /\ UNCHANGED <<file, start, config, setup, chosen, raced, edits>>

-----------------------------------------------------------------------------
(* The options page was filled in.  Without an "options" section one is     *)
(* inserted; else the URL is replaced and every "enabled": false of the     *)
(* file with it, the trading hours' too.                                    *)
SetUrl(text) ==
    IF "options" \notin DOMAIN text
    THEN Over([options |-> TRUE, url |-> TRUE], text)
    ELSE [s \in DOMAIN text |-> IF s \in {"hours", "options", "url"} THEN TRUE ELSE text[s]]

(* WriteReceiverConfig: reads the file, or the defaults when there is none; *)
(* a torn one is text like any other, and stays torn.                       *)
SetupReads(withUrl) ==
    /\ setup.at = "off" /\ edits < MaxEdits
    /\ LET text == IF file = Missing THEN Defaults ELSE file
       IN  setup' = [at |-> "write", withUrl |-> withUrl,
                     text |-> IF withUrl /\ text # Torn THEN SetUrl(text) ELSE text]
    /\ edits' = edits + 1
    /\ UNCHANGED <<file, env, start, config, chosen, raced>>

(* SaveStringToFile, even when nothing has changed.                         *)
SetupTruncates ==
    /\ setup.at = "write"
    /\ setup' = [setup EXCEPT !.at = "truncated"]
    /\ file' = Torn
    /\ raced' = (raced \/ Writing(start))
    /\ UNCHANGED <<env, start, config, chosen, edits>>

(* The person has chosen a URL and the options with it; what else was       *)
(* switched on is nobody's choice any more.                                 *)
SetupFinishes ==
    /\ setup.at = "truncated"
    /\ setup' = [setup EXCEPT !.at = "off", !.text = Nothing]
    /\ file' = setup.text
    /\ chosen' = IF setup.withUrl /\ setup.text # Torn
                 THEN LET written == DOMAIN setup.text \cap {"options", "url"}
                      IN  [s \in (DOMAIN chosen \ {"hours"}) \cup written |->
                             IF s \in written THEN TRUE ELSE chosen[s]]
                 ELSE chosen
    /\ raced' = (raced \/ Writing(start))
    /\ UNCHANGED <<env, start, config, edits>>

SetupDies ==
    /\ setup.at # "off"
    /\ setup' = [setup EXCEPT !.at = "off", !.text = Nothing]
    /\ UNCHANGED <<file, env, start, config, chosen, raced, edits>>

Receiver == Ensure \/ Truncate \/ Finish \/ Load \/ Crash
Setup == (\E u \in BOOLEAN : SetupReads(u)) \/ SetupTruncates \/ SetupFinishes \/ SetupDies
Person == (\E s \in Settings : \E v \in Values[s] : Change(s, v))
          \/ Delete \/ Break \/ Repair \/ Environ

FileNext == Receiver \/ Setup \/ Person

FileSpec == FileInit /\ [][FileNext]_fileVars

-----------------------------------------------------------------------------
(* What a person has chosen is in the file, or the file is torn and says    *)
(* nothing: no start, no crash of one and no setup replaces a choice by a   *)
(* default.  (Writers that overlap may: there is no lock.  A setup with an  *)
(* options URL takes the trading hours' switch with it.)                    *)
ChoicesSurvive ==
    raced \/ file = Torn
    \/ \A s \in DOMAIN chosen : Readable /\ s \in DOMAIN file /\ file[s] = chosen[s]

(* A receiver never starts on anything but the person's choices, and the    *)
(* environment's URL over theirs: an interrupted rewrite makes it fail,     *)
(* never run on defaults, which would trade where a dry run was chosen.     *)
(* Options that were chosen off are on only for a URL: the person's, or the *)
(* one in this process's environment, not in an earlier one's.              *)
StartsAsChosen ==
    [][config' # config /\ config' # Nothing
       => raced \/ \A s \in DOMAIN chosen : config'[s] = Loaded(chosen, env)[s]]_fileVars

(* A start tears no file that has every setting: after the first start of a *)
(* version no later one puts the file at risk.                              *)
CompleteFilesAreLeftAlone ==
    [][start.at = "write" /\ file' # file /\ Readable
       => raced' \/ DOMAIN file # Settings]_fileVars

(* What is held in memory, to be written, keeps the person's choices; only  *)
(* a setup with an options URL replaces the three switches it sets.         *)
Carries(f, settings) == \A s \in settings : s \in DOMAIN f /\ f[s] = chosen[s]

Switches == {"hours", "options", "url"}

(* A URL that nobody chose is blank: it switches no options on.             *)
NoUrl(f) == "url" \in DOMAIN f \ DOMAIN chosen => f.url = FALSE

FileTypeOK ==
    /\ file \in Files \cup {Missing, Torn}
    /\ start \in [at : {"off", "write", "truncated", "load", "up", "failed"}, held : Files]
    /\ setup \in [at : {"off", "write", "truncated"}, text : Files \cup {Torn},
                  withUrl : BOOLEAN]
    /\ config \in Running \cup {Nothing}
    /\ env \in Environments
    /\ chosen \in Files
    /\ raced \in BOOLEAN /\ edits \in 0..MaxEdits

StartCarries ==
    Writing(start) => Carries(start.held, DOMAIN chosen) /\ NoUrl(start.held)

SetupCarries ==
    Writing(setup) /\ setup.text # Torn =>
        LET text == setup.text
        IN  /\ DOMAIN chosen \subseteq DOMAIN text
            /\ IF setup.withUrl
               THEN /\ Carries(text, DOMAIN chosen \ Switches)
                    /\ \A s \in DOMAIN text \cap {"options", "url"} : text[s] = TRUE
               ELSE Carries(text, DOMAIN chosen) /\ NoUrl(text)

ChoicesKept ==
    /\ ChoicesSurvive /\ StartCarries /\ SetupCarries
    /\ Readable => NoUrl(file)
    /\ start.at = "write" /\ Readable => DOMAIN file # Settings

(* The inductive invariant of the proofs.                                   *)
ConfigInv == FileTypeOK /\ (raced \/ ChoicesKept)
=============================================================================
