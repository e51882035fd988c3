------------------------------ MODULE Settings ------------------------------
(***************************************************************************)
(* The settings of a controller or watcher.  A goroutine reads the         *)
(* ConfigMap when the process starts and after every change it is told of, *)
(* and assigns the fields that are valid under a lock.  The goroutine of   *)
(* an event takes a copy of the settings under the same lock, but for the  *)
(* number of lines of a failure's log, the hub catalogs and the console,   *)
(* which it reads where it needs them, whatever the copy says.             *)
(***************************************************************************)
EXTENDS Integers, Sequences, FiniteSets, SequencesExt

VARIABLES configMap,   \* [data, edits]: what the administrator wrote, and how often
          syncing,     \* the goroutine that follows the ConfigMap, and its environment
          settings,    \* [options, catalogs, console]: what is in force
          reader       \* [options, taken, lines]: an event's copy, and the lines it read beside it

settingsVars == <<configMap, syncing, settings, reader>>

\* The bound: how often the ConfigMap is changed.
MaxEdits == 3

Fields == <<"dashboard", "snippet", "lines", "console">>
Invalid == "invalid"
Unset == "unset"
Unread == "unread"

\* The data: the fields, the hub's URL, and the further catalogs by name.
Data(dashboard, snippet, lines, console, hub, catalogs) ==
    [fields |-> [f \in ToSet(Fields) |-> CASE f = "dashboard" -> dashboard [] f = "snippet" -> snippet
                                           [] f = "lines" -> lines [] OTHER -> console],
     hub |-> hub, catalogs |-> catalogs]

\* DefaultSettings, before the ConfigMap is read.
DefaultHub == "artifacthub"
DefaultSettings == [options |-> [f \in ToSet(Fields) |-> Unset], catalogs |-> [c \in {"default"} |-> DefaultHub], console |-> "platform"]

\* The process starts, with the default settings, its goroutines all at once; its
\* environment may name a dashboard.
Starting(env) == [env |-> env, pc |-> "get", watching |-> FALSE, told |-> FALSE, locked |-> FALSE, read |-> <<>>, todo |-> <<>>,
                  rejected |-> FALSE, unseen |-> FALSE, whole |-> {DefaultSettings.options}]
InitSettings(data, env) ==
    /\ configMap = [data |-> data, edits |-> 0]
    /\ syncing = Starting(env)
    /\ settings = DefaultSettings
    /\ reader = [options |-> DefaultSettings.options, taken |-> 0, lines |-> Unread]

\* A change is told to the goroutine once it watches; one that comes between the first
\* reading and the informer's first list is told as an addition, which is ignored.
Edit(data) ==
    /\ configMap.edits < MaxEdits /\ data # configMap.data
    /\ configMap' = [data |-> data, edits |-> configMap.edits + 1]
    /\ syncing' = [syncing EXCEPT !.told = @ \/ syncing.watching, !.unseen = @ \/ (~syncing.watching /\ syncing.pc # "get")]
    /\ UNCHANGED <<settings, reader>>

\* The goroutine waits again; the first time, it starts the informer.
Wait == [syncing EXCEPT !.pc = IF syncing.watching THEN "wait" ELSE "list", !.locked = FALSE, !.read = <<>>, !.todo = <<>>]

StartInformer ==
    /\ syncing.pc = "list"
    /\ syncing' = [syncing EXCEPT !.pc = "wait", !.watching = TRUE]
    /\ UNCHANGED <<configMap, settings, reader>>

OnUpdate ==
    /\ syncing.pc = "wait" /\ syncing.told
    /\ syncing' = [syncing EXCEPT !.pc = "get", !.told = FALSE]
    /\ UNCHANGED <<configMap, settings, reader>>

\* UpdatePacConfig: a ConfigMap that cannot be read leaves everything as it is.
ReadConfigMap ==
    /\ syncing.pc = "get"
    /\ \/ syncing' = [syncing EXCEPT !.pc = "lock", !.read = configMap.data, !.rejected = FALSE, !.unseen = FALSE]
       \/ syncing' = [Wait EXCEPT !.unseen = TRUE]
    /\ UNCHANGED <<configMap, settings, reader>>

\* The default catalog is replaced, the others are added or replaced and never removed.
getHubCatalogs(catalogs, data) ==
    [c \in DOMAIN catalogs \cup DOMAIN data.catalogs |->
        IF c = "default" THEN (IF data.hub = Unset THEN DefaultHub ELSE data.hub)
        ELSE IF c \in DOMAIN data.catalogs THEN data.catalogs[c] ELSE catalogs[c]]

SyncConfig ==
    /\ syncing.pc = "lock" /\ ~syncing.locked
    /\ settings' = [settings EXCEPT !.catalogs = getHubCatalogs(@, syncing.read)]
    /\ syncing' = [syncing EXCEPT !.pc = "assign", !.locked = TRUE, !.todo = Fields]
    /\ UNCHANGED <<configMap, reader>>

\* Field after field: an invalid one keeps its value and is complained about at the end.
ValidateAndAssignValue ==
    /\ syncing.pc = "assign" /\ syncing.todo # <<>>
    /\ LET f == Head(syncing.todo)
           value == syncing.read.fields[f] IN
          /\ settings' = IF value = Invalid THEN settings ELSE [settings EXCEPT !.options[f] = value]
          /\ syncing' = [syncing EXCEPT !.todo = Tail(@), !.rejected = @ \/ value = Invalid]
    /\ UNCHANGED <<configMap, reader>>

Assigned ==
    /\ syncing.pc = "assign" /\ syncing.todo = <<>>
    /\ LET whole == syncing.whole \cup {settings.options} IN
          syncing' = IF syncing.rejected THEN [Wait EXCEPT !.whole = whole]
                     ELSE [syncing EXCEPT !.pc = "console", !.locked = FALSE, !.whole = whole]
    /\ UNCHANGED <<configMap, settings, reader>>

\* The console of the links, by its URL: the dashboard, when it is another one than now,
\* the one of the environment instead of it, the custom console instead of both, or the
\* platform's when none is set.
Dashboard(options, console) ==
    IF options["dashboard"] \notin {Unset, console} THEN options["dashboard"] ELSE console
Console(options, console, env) ==
    CASE options["console"] # Unset -> options["console"]
      [] options["console"] = Unset /\ env # Unset -> env
      [] options["console"] = Unset /\ env = Unset /\ options["dashboard"] = Unset -> "platform"
      [] OTHER -> Dashboard(options, console)

SetConsoleUI ==
    /\ syncing.pc = "console"
    /\ settings' = [settings EXCEPT !.console = Console(settings.options, @, syncing.env)]
    /\ syncing' = Wait
    /\ UNCHANGED <<configMap, reader>>

MutantReadable == TRUE
\* GetPacOpts: the goroutine of an event copies the settings, when they are not locked.
Readable == ~syncing.locked
GetPacOpts ==
    /\ Readable /\ reader.taken <= MaxEdits /\ reader.options # settings.options
    /\ reader' = [options |-> settings.options, taken |-> reader.taken + 1, lines |-> Unread]
    /\ UNCHANGED <<configMap, syncing, settings>>

\* getFailureSnippet: when its copy asks for the failure's log, a reconciliation takes the
\* number of lines from the settings of now, locked or not.
GetFailureSnippet ==
    /\ reader.taken > 0 /\ reader.options["snippet"] # "off" /\ reader.lines = Unread
    /\ reader' = [reader EXCEPT !.lines = settings.options["lines"]]
    /\ UNCHANGED <<configMap, syncing, settings>>

SyncNext ==
    \/ StartInformer \/ OnUpdate \/ ReadConfigMap \/ SyncConfig \/ ValidateAndAssignValue
    \/ Assigned \/ SetConsoleUI \/ GetPacOpts \/ GetFailureSnippet

-----------------------------------------------------------------------------
\* A copy is the settings as one reading of the ConfigMap left them, never half of a change.
CopiesAreWhole == reader.options \in syncing.whole

\* The lines that are read beside the copy are those of a reading, or of the one that is
\* being assigned: no value was ever read that none put in force.
ReportedLinesWereInForce ==
    \/ reader.lines = Unread
    \/ \E options \in syncing.whole : reader.lines = options["lines"]
    \/ syncing.pc = "assign" /\ reader.lines = syncing.read.fields["lines"]

\* A report uses the settings of one reading.  No run checks it: it is false of the code,
\* which reads the lines where it needs them (MCServicesLiveSetting.cfg shows how).
ReportsUseOneReading ==
    reader.lines # Unread => \E options \in syncing.whole :
        options["snippet"] = reader.options["snippet"] /\ options["lines"] = reader.lines

\* When nothing is left to do, every field that is valid in the ConfigMap is in force
\* whatever the others are, so are the catalogs it names, and unless a field
\* was rejected the console is the configured one; except for a change that
\* was made before the informer watched, or that could not be read.
ConfigMapIsFollowed ==
    syncing.pc = "wait" /\ ~syncing.told /\ ~syncing.unseen =>
        LET data == configMap.data IN
            /\ \A f \in ToSet(Fields) : data.fields[f] # Invalid => settings.options[f] = data.fields[f]
            /\ settings.catalogs["default"] = IF data.hub = Unset THEN DefaultHub ELSE data.hub
            /\ \A c \in DOMAIN data.catalogs : c # "default" => settings.catalogs[c] = data.catalogs[c]
            /\ (\A f \in ToSet(Fields) : data.fields[f] # Invalid) =>
                  settings.console = IF data.fields["console"] # Unset THEN data.fields["console"]
                                     ELSE IF syncing.env # Unset THEN syncing.env
                                     ELSE IF data.fields["dashboard"] # Unset THEN data.fields["dashboard"]
                                     ELSE "platform"

\* An event's copy is of one reading, what it reads beside it is of some reading, and in
\* the end what is in force is what the ConfigMap says.
SettingsFollowTheConfigMap == CopiesAreWhole /\ ReportedLinesWereInForce /\ ConfigMapIsFollowed
=============================================================================
