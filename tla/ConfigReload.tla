---------------------------- MODULE ConfigReload ----------------------------
(***************************************************************************)
(* LoadConfig (config/config.go) and the watcher it starts: the file is    *)
(* read, watched, decoded into the configuration and validated, while a    *)
(* goroutine of viper decodes every later version, validates it and copies *)
(* it over the configuration the program is reading.                       *)
(*                                                                         *)
(* Nothing orders the copy with the reads: each field is written, and      *)
(* read, on its own and in any order.  Of all settings two are kept, the   *)
(* ones validate relates to each other: whether certificates are verified, *)
(* and whether there are any (ca, cert and key).                           *)
(***************************************************************************)
EXTENDS Naturals

CONSTANT MaxEdits      \* bound: times the file is edited

ASSUME EditsAssumption == MaxEdits \in Nat

Fields == {"verify", "certs"}
Config == [Fields -> BOOLEAN]

VARIABLES
    file,         \* what is in the file
    edits,        \* times it was edited
    settings,     \* what viper read last
    cfg,          \* the Config that LoadConfig returns
    loader,       \* LoadConfig: where it is, what it decodes, fields to write
    watcher,      \* the goroutine of WatchConfig, likewise
    raced         \* history: a copy overlapped with another access to cfg

configVars == <<file, edits, settings, cfg, loader, watcher, raced>>

\* "failed": refused by validate; "unreadable": not read or not decoded.
LoaderPCs ==
    {"read", "unmarshal", "validate", "certs", "loaded", "failed", "unreadable"}
WatcherPCs == {"off", "idle", "changed", "copying"}

Defaults == [f \in Fields |-> f = "verify"]

ConfigInit ==
    /\ file \in Config
    /\ edits = 0
    /\ settings = Defaults
    /\ cfg = [f \in Fields |-> FALSE]
    /\ loader = [pc |-> "read", from |-> Defaults, todo |-> {}]
    /\ watcher = [pc |-> "off", from |-> Defaults, todo |-> {}]
    /\ raced = FALSE

\* validate: certificates are verified only where there are some.
Valid(c) == c["verify"] => c["certs"]

\* external: the operator edits the file.
Edit ==
    /\ edits < MaxEdits
    /\ edits' = edits + 1
    /\ file' \in Config \ {file}
    /\ UNCHANGED <<settings, cfg, loader, watcher, raced>>

\* LoadConfig: ReadInConfig, WatchConfig; what was read is decoded next.
ReadConfig ==
    /\ loader.pc = "read"
    /\ settings' = file
    /\ watcher' = [watcher EXCEPT !.pc = "idle"]
    /\ loader' = [pc |-> "unmarshal", from |-> file, todo |-> Fields]
    /\ UNCHANGED <<file, edits, cfg, raced>>

\* LoadConfig: no file is named, the settings are those of flags and
\* environment and nothing is watched.
NoConfigFile ==
    /\ loader.pc = "read"
    /\ settings' \in Config
    /\ loader' = [pc |-> "unmarshal", from |-> settings', todo |-> Fields]
    /\ UNCHANGED <<file, edits, cfg, watcher, raced>>

\* LoadConfig: the flags are not bound, or the file is missing or not to be
\* parsed.
ReadFails ==
    /\ loader.pc = "read"
    /\ loader' = [loader EXCEPT !.pc = "unreadable"]
    /\ UNCHANGED <<file, edits, settings, cfg, watcher, raced>>

\* LoadConfig: Unmarshal starts on what viper read last, not on what
\* LoadConfig read: the watcher may have been faster.
Refreshed ==
    /\ loader.pc = "unmarshal" /\ loader.todo = Fields
    /\ loader.from # settings
    /\ loader' = [loader EXCEPT !.from = settings]
    /\ UNCHANGED <<file, edits, settings, cfg, watcher, raced>>

\* LoadConfig: Unmarshal writes a field.
DecodeField ==
    /\ loader.pc = "unmarshal"
    /\ \E f \in loader.todo :
        /\ cfg' = [cfg EXCEPT ![f] = loader.from[f]]
        /\ loader' = [loader EXCEPT
                !.todo = @ \ {f},
                !.pc = IF loader.todo = {f} THEN "validate" ELSE "unmarshal"]
    /\ raced' = (raced \/ watcher.pc = "copying")
    /\ UNCHANGED <<file, edits, settings, watcher>>

\* LoadConfig: a value of another type; Unmarshal may have written any of the
\* other fields by then.  The watcher that was started goes on.
DecodeFails ==
    /\ loader.pc = "unmarshal"
    /\ loader' = [loader EXCEPT !.pc = "unreadable"]
    /\ UNCHANGED <<file, edits, settings, cfg, watcher, raced>>

\* Mutant: what was decoded is taken as it is.
ValidateVerify_Not ==
    /\ loader.pc = "validate"
    /\ loader' = [loader EXCEPT !.pc = "loaded"]
    /\ UNCHANGED <<file, edits, settings, cfg, watcher, raced>>

\* LoadConfig: validate reads verify, then the certificates if it matters.
ValidateVerify ==
    /\ loader.pc = "validate"
    /\ loader' = [loader EXCEPT !.pc = IF cfg["verify"] THEN "certs" ELSE "loaded"]
    /\ raced' = (raced \/ watcher.pc = "copying")
    /\ UNCHANGED <<file, edits, settings, cfg, watcher>>

ValidateCerts ==
    /\ loader.pc = "certs"
    /\ loader' = [loader EXCEPT !.pc = IF cfg["certs"] THEN "loaded" ELSE "failed"]
    /\ raced' = (raced \/ watcher.pc = "copying")
    /\ UNCHANGED <<file, edits, settings, cfg, watcher>>

\* The watcher sees that the file changed and reads it.
NoticeChange ==
    /\ watcher.pc = "idle" /\ settings # file
    /\ settings' = file
    /\ watcher' = [watcher EXCEPT !.pc = "changed", !.from = file]
    /\ UNCHANGED <<file, edits, cfg, loader, raced>>

\* OnConfigChange: a version that does not decode is logged and left.
ChangeUndecoded ==
    /\ watcher.pc = "changed"
    /\ watcher' = [watcher EXCEPT !.pc = "idle"]
    /\ UNCHANGED <<file, edits, settings, cfg, loader, raced>>

\* Mutant: a new version is copied as it is.
ValidateChange_Not ==
    /\ watcher.pc = "changed"
    /\ watcher' = [watcher EXCEPT !.pc = "copying", !.todo = Fields]
    /\ UNCHANGED <<file, edits, settings, cfg, loader, raced>>

\* OnConfigChange: an invalid version is logged and left.
ValidateChange ==
    /\ watcher.pc = "changed"
    /\ watcher' = IF Valid(watcher.from)
                  THEN [watcher EXCEPT !.pc = "copying", !.todo = Fields]
                  ELSE [watcher EXCEPT !.pc = "idle"]
    /\ UNCHANGED <<file, edits, settings, cfg, loader, raced>>

\* OnConfigChange: *cfg = *newCfg, one field; others reads cfg meanwhile.
CopyField(othersRead) ==
    /\ watcher.pc = "copying"
    /\ \E f \in watcher.todo :
        /\ cfg' = [cfg EXCEPT ![f] = watcher.from[f]]
        /\ watcher' = [watcher EXCEPT
                !.todo = @ \ {f},
                !.pc = IF watcher.todo = {f} THEN "idle" ELSE "copying"]
    /\ raced' = (raced \/ othersRead \/ loader.pc \in {"unmarshal", "validate", "certs"})
    /\ UNCHANGED <<file, edits, settings, loader>>

LoadConfig ==
    \/ ReadConfig \/ NoConfigFile \/ ReadFails
    \/ Refreshed \/ DecodeField \/ DecodeFails
    \/ ValidateVerify \/ ValidateCerts

WatchConfig(othersRead) ==
    NoticeChange \/ ChangeUndecoded \/ ValidateChange \/ CopyField(othersRead)

-----------------------------------------------------------------------------

ConfigTypeOK ==
    /\ file \in Config /\ edits \in 0..MaxEdits /\ settings \in Config /\ cfg \in Config
    /\ loader \in [pc : LoaderPCs, from : Config, todo : SUBSET Fields]
    /\ watcher \in [pc : WatcherPCs, from : Config, todo : SUBSET Fields]
    /\ raced \in BOOLEAN

\* Where no copy overlapped with another access, a configuration that was
\* loaded is a valid one whenever it is at rest, whatever the file was edited
\* to since, and one that validate refused was invalid.
ConfigSettles ==
    ~raced =>
        /\ loader.pc = "loaded" /\ watcher.pc # "copying" => Valid(cfg)
        /\ loader.pc = "failed" => ~Valid(loader.from)
=============================================================================
