----------------------------- MODULE CommandLine -----------------------------
(***************************************************************************)
(* groot.go, config.go and pull.go: one process from its arguments to its  *)
(* exit status.  Control passes to and fro between groot and urfave/cli,   *)
(* which parses flags, calls Before and the action of the command, and     *)
(* prints some of the errors itself.                                       *)
(*                                                                         *)
(* An input (a flag, the config file, the image's URL) is picked in the    *)
(* step that reads it.  What the commands do to the store is in Groot.     *)
(***************************************************************************)
EXTENDS Integers

CONSTANTS
  LogLevels,   \* values of log_level in config files
  Limits       \* values of --disk-limit-size-bytes

(* The keys of logLevels in newLogger, and the default of applyDefaults.   *)
KnownLevels == {"debug", "info", "error", "fatal"}
DefaultLevel == "info"

(* A config file without the key leaves the zero value.                    *)
NoLevel == ""

ASSUME LimitsAssumption == Limits \subseteq Int /\ 0 \in Limits

VARIABLES
  pc,       \* what the process does next
  conf,     \* the configuration, as far as it is known
  g,        \* whether Before has made the Groot
  command,  \* the command that runs
  limit,    \* the disk limit and ...
  exclude,  \* ... exclude-image-from-quota: what ctx.Int64 and ctx.Bool return
  fetcher,  \* the fetcher: none, or its settings and whether it is open
  pulling,  \* whether Pull checks declared sizes: unknown before it is called
  charging, \* whether Create takes the image off the limit: unknown before it asks
  result,   \* how the command or its preparation ended
  printed,  \* how often that error has been printed
  status    \* the exit status, once there is one

vars == <<pc, conf, g, command, limit, exclude, fetcher, pulling, charging, result, printed, status>>

NoFetcher == [state |-> "none"]

Init ==
  /\ pc = "flags"
  /\ conf = [LogLevel |-> NoLevel]
  /\ g = FALSE
  /\ command = "none" /\ limit = 0 /\ exclude = FALSE
  /\ fetcher = NoFetcher /\ pulling = "unknown" /\ charging = "unknown"
  /\ result = "none" /\ printed = 0 /\ status = -1

-----------------------------------------------------------------------------
(* Ways out.  cli returns to Run, or exits itself.                         *)

Return(outcome) == pc' = "returned" /\ result' = outcome

(* Of a command that has a fetcher: by way of its deferred Close.          *)
Leave(outcome) ==
  /\ pc' = IF fetcher.state = "open" THEN "deferred" ELSE "returned"
  /\ result' = outcome

Prints == printed' = printed + 1
Quiet == UNCHANGED printed

(* Mutant: every error is taken for one that cli has printed.              *)
HandleErrorSilenced ==
  /\ pc = "returned"
  /\ pc' = "exited"
  /\ status' = CASE result = "ok" -> 0 [] result = "panic" -> 2 [] OTHER -> 1
  /\ Quiet
  /\ UNCHANGED <<conf, g, command, limit, exclude, fetcher, pulling, charging, result>>

(* The end of Run.  A panic gets here too: the runtime prints it.          *)
HandleError ==
  /\ pc = "returned"
  /\ pc' = "exited"
  /\ status' = CASE result = "ok" -> 0 [] result = "panic" -> 2 [] OTHER -> 1
  /\ IF result \in {"error", "panic"} THEN Prints ELSE Quiet
  /\ UNCHANGED <<conf, g, command, limit, exclude, fetcher, pulling, charging, result>>

-----------------------------------------------------------------------------
(* Up to the command.                                                      *)

toCommand == <<command, limit, exclude, fetcher, pulling, charging, status>>

(* cli parses the global flags, and prints what is wrong with them.        *)
GlobalFlags ==
  /\ pc = "flags"
  /\ \/ pc' = "parseConfig" /\ UNCHANGED result /\ Quiet
     \/ Return("ok") /\ Quiet                           \* --help, --version
     \/ Return("error") /\ Prints
  /\ UNCHANGED <<toCommand, conf, g>>

applyDefaults(c) ==
  IF c.LogLevel = NoLevel THEN [c EXCEPT !.LogLevel = DefaultLevel] ELSE c

(* No path, a file that cannot be read or parsed, or a configuration.  The *)
(* error is silent, because cli prints those of Before.                    *)
parseConfig ==
  /\ pc = "parseConfig"
  /\ \/ /\ \E c \in [LogLevel : LogLevels] \cup {conf} :
             conf' = applyDefaults(c)
        /\ pc' = "newLogger" /\ UNCHANGED result /\ Quiet
     \/ Return("silent") /\ Prints /\ UNCHANGED conf
  /\ UNCHANGED <<toCommand, g>>

(* The rest of Before: cli prints this error, too, and it is not silent.   *)
newLogger ==
  /\ pc = "newLogger"
  /\ \/ /\ conf.LogLevel \in KnownLevels
        /\ g' = TRUE /\ pc' = "command" /\ UNCHANGED result /\ Quiet
     \/ /\ conf.LogLevel \notin KnownLevels
        /\ Return("error") /\ Prints /\ UNCHANGED g
  /\ UNCHANGED <<toCommand, conf>>

Before == parseConfig \/ newLogger

(* cli finds the command and parses its flags.  Only create has flags for  *)
(* the quota.  No command is help; for an unknown one, cli exits itself.   *)
CommandFlags ==
  /\ pc = "command"
  /\ \/ /\ command' \in {"create", "pull", "delete", "stats"}
        /\ \/ /\ pc' = "validateArgs" /\ UNCHANGED result /\ Quiet
              /\ IF command' = "create"
                 THEN limit' \in Limits /\ exclude' \in BOOLEAN
                 ELSE UNCHANGED <<limit, exclude>>
           \/ Return("error") /\ Prints /\ UNCHANGED <<limit, exclude>>
        /\ UNCHANGED status
     \/ Return("ok") /\ Quiet /\ UNCHANGED <<command, limit, exclude, status>>
     \/ /\ pc' = "exited" /\ status' = 3 /\ result' = "error" /\ Prints
        /\ UNCHANGED <<command, limit, exclude>>
  /\ UNCHANGED <<conf, g, fetcher, pulling, charging>>

-----------------------------------------------------------------------------
(* The commands.                                                           *)

inCommand == <<conf, g, command, limit, exclude, printed, status>>

validateArgs ==
  /\ pc = "validateArgs"
  /\ \/ /\ pc' = IF command \in {"create", "pull"} THEN "createFetcher" ELSE "work"
        /\ UNCHANGED result
     \/ Return("error")
  /\ UNCHANGED <<inCommand, fetcher, pulling, charging>>

(* Mutant: no limit is a limit of 0.                                       *)
shouldSkipWhenExcluded == exclude

shouldSkipImageQuotaValidation == exclude \/ limit = 0

(* A file fetcher has no use for a quota.  Other schemes than oci and      *)
(* docker are paths.                                                       *)
createFetcher ==
  /\ pc = "createFetcher"
  /\ \/ /\ \/ fetcher' = [state |-> "open", kind |-> "file"]
           \/ fetcher' = [state |-> "open", kind |-> "layer",
                          skipImageQuotaValidation |-> shouldSkipImageQuotaValidation,
                          diskLimit |-> limit]
        /\ pc' = IF command = "create" THEN "checkLimit" ELSE "pull"
        /\ UNCHANGED result
     \/ Return("error") /\ UNCHANGED fetcher
  /\ UNCHANGED <<inCommand, pulling, charging>>

(* Create, up to its call of Pull.                                         *)
CheckLimit ==
  /\ pc = "checkLimit"
  /\ IF limit < 0 THEN Leave("error") ELSE pc' = "pull" /\ UNCHANGED result
  /\ UNCHANGED <<inCommand, fetcher, pulling, charging>>

(* Mutant: Pull does not look at the exclusion.                            *)
checksAnyLimit == command = "create" /\ limit # 0

(* quotaExceeded adds up declared sizes for the spec of a create with a    *)
(* limit that includes the image; the spec of a pull is empty.             *)
checksSizes == command = "create" /\ ~exclude /\ limit # 0

(* ImagePuller.Pull, for a pull or a create, with the driver's calls.      *)
Pull ==
  /\ pc = "pull"
  /\ pulling' = IF checksSizes THEN "checks" ELSE "skips"
  /\ \/ IF command = "create" THEN pc' = "quota" /\ UNCHANGED result ELSE Leave("ok")
     \/ Leave("error")
     \/ Leave("panic")
  /\ UNCHANGED <<inCommand, fetcher, charging>>

(* Mutant: an image that is excluded is taken off the limit all the same.  *)
takesOffAnyLimit == limit # 0

(* Create takes the image's size off the limit.                            *)
takesOffImage == limit # 0 /\ ~exclude

(* Create, between Pull and Bundle: what is left of the limit may be       *)
(* nothing.                                                                *)
CheckQuota ==
  /\ pc = "quota"
  /\ charging' = IF takesOffImage THEN "charges" ELSE "keeps"
  /\ \/ pc' = "work" /\ UNCHANGED result
     \/ takesOffImage /\ Leave("error")
  /\ UNCHANGED <<inCommand, fetcher, pulling>>

(* The rest of the command: what create, delete and stats ask the driver.  *)
Work ==
  /\ pc = "work"
  /\ \/ IF command \in {"create", "stats"}
        THEN pc' = "encode" /\ UNCHANGED result
        ELSE Leave("ok")
     \/ Leave("error")
     \/ Leave("panic")
  /\ UNCHANGED <<inCommand, fetcher, pulling, charging>>

(* The answer of create or stats goes to standard output.                  *)
Encode ==
  /\ pc = "encode"
  /\ Leave("ok") \/ Leave("error")
  /\ UNCHANGED <<inCommand, fetcher, pulling, charging>>

(* Mutant: a panic leaves the fetcher open.                                *)
CloseUnlessPanicking ==
  /\ pc = "deferred"
  /\ pc' = "returned"
  /\ fetcher' = IF result = "panic" THEN fetcher ELSE [fetcher EXCEPT !.state = "closed"]
  /\ UNCHANGED <<inCommand, pulling, charging, result>>

(* defer fetcher.Close()                                                   *)
Close ==
  /\ pc = "deferred"
  /\ pc' = "returned"
  /\ fetcher' = [fetcher EXCEPT !.state = "closed"]
  /\ UNCHANGED <<inCommand, pulling, charging, result>>

(* The process has ended.                                                  *)
Exited == pc = "exited" /\ UNCHANGED vars

Next ==
  \/ GlobalFlags \/ Before \/ CommandFlags
  \/ validateArgs \/ createFetcher \/ CheckLimit \/ Pull \/ CheckQuota \/ Work \/ Encode
  \/ Close
  \/ HandleError
  \/ Exited

Spec == Init /\ [][Next]_vars

-----------------------------------------------------------------------------

(* Whoever does not find the status 0 finds an error, although which of    *)
(* groot and cli prints it depends on where it arose (groot.go 196-198,    *)
(* 213-218).                                                               *)
FailuresAreTold ==
  pc = "exited" => /\ status # -1
                   /\ status # 0 <=> printed > 0
                   /\ result = "ok" <=> status = 0

(* A fetcher is closed before the process exits, however the command ended *)
(* (groot.go 126 and 164): its source may have files in the temporary      *)
(* directory.                                                              *)
FetcherIsClosed == pc = "exited" => fetcher.state # "open"

(* Whether the image counts against the limit is decided in three places:  *)
(* for the downloads when the fetcher is made (groot.go 246-248), for the  *)
(* declared sizes in Pull (image_puller.go 142), and for the quota of the  *)
(* bundle in Create (create.go 32).  They decide alike, and the limit they *)
(* enforce is one that create.go 16 has let pass.                          *)
LimitsAgree ==
  /\ pulling # "unknown" /\ fetcher.kind = "layer" =>
       /\ pulling = "checks" <=> ~fetcher.skipImageQuotaValidation
       /\ pulling = "checks" => fetcher.diskLimit > 0 /\ fetcher.diskLimit = limit
  /\ charging # "unknown" =>
       /\ charging = "charges" <=> pulling = "checks"
       /\ charging = "charges" => limit > 0

(* groot.go 271-272: errors that cli has printed are not printed twice.    *)
PrintedOnce == pc = "exited" => printed <= 1

=============================================================================
