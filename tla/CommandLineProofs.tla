-------------------------- MODULE CommandLineProofs --------------------------
(***************************************************************************)
(* Proofs about CommandLine, for any limits and log levels.                *)
(***************************************************************************)
EXTENDS CommandLine, TLAPS

Ends == {"returned", "exited"}

(* Before a command can have a fetcher.                                    *)
Early == {"flags", "parseConfig", "newLogger", "command", "validateArgs", "createFetcher"}

(* An error that has not been printed is on its way to HandleError.        *)
Told ==
  /\ pc \in Early \cup Ends \cup {"checkLimit", "pull", "quota", "work", "encode", "deferred"}
  /\ printed \in Nat
  /\ result \in {"none", "ok", "silent", "error", "panic"}
  /\ result = "none" <=> pc \notin Ends \cup {"deferred"}
  /\ pc \notin Ends => printed = 0
  /\ pc = "returned" => (result = "ok" => printed = 0) /\ (result = "silent" => printed > 0)
  /\ pc = "deferred" => result # "silent"
  /\ pc = "exited" => FailuresAreTold

(* A fetcher has the settings of the command.                              *)
HasSettings ==
  fetcher # NoFetcher =>
    \E s \in {"open", "closed"} :
      \/ fetcher = [state |-> s, kind |-> "file"]
      \/ fetcher = [state |-> s, kind |-> "layer",
                    skipImageQuotaValidation |-> shouldSkipImageQuotaValidation,
                    diskLimit |-> limit]

(* A fetcher is open from createFetcher to the deferred Close; Pull and    *)
(* then Create work with the limit that it has.                            *)
Fetching ==
  /\ limit \in Int /\ exclude \in BOOLEAN
  /\ command \in {"none", "create", "pull", "delete", "stats"}
  /\ pc \in {"checkLimit", "quota"} => command = "create"
  /\ pc = "pull" => command \in {"create", "pull"}
  /\ pc = "createFetcher" => command \in {"create", "pull"}
  /\ pc \in {"validateArgs", "work", "encode"} => command # "none"
  /\ pc \in Early => fetcher = NoFetcher /\ pulling = "unknown" /\ charging = "unknown"
  /\ pc \in {"flags", "parseConfig", "newLogger", "command"} => command = "none"
  /\ command # "create" => limit = 0 /\ exclude = FALSE
  /\ pc \in Ends => fetcher.state # "open"
  /\ pc = "deferred" => fetcher.state = "open"
  /\ HasSettings
  /\ pc \in {"checkLimit", "pull", "quota", "work", "encode", "deferred"} /\ command \in {"create", "pull"}
       => fetcher # NoFetcher
  /\ pulling \in {"unknown", "checks", "skips"}
  /\ pulling # "unknown" =>
       /\ fetcher # NoFetcher
       /\ command = "create" => limit >= 0
       /\ pulling = IF checksSizes THEN "checks" ELSE "skips"
  /\ pc \in {"pull", "quota", "work", "encode"} /\ command = "create" => limit >= 0
  /\ pc = "quota" => pulling # "unknown"
  /\ charging \in {"unknown", "charges", "keeps"}
  /\ charging # "unknown" =>
       /\ command = "create" /\ pulling # "unknown"
       /\ charging = IF takesOffImage THEN "charges" ELSE "keeps"

(* The inductive invariant.                                                *)
Inv == Told /\ Fetching

(* Errors are printed by cli on the way or by Run at the end.              *)
LEMMA ToldInv ==
  ASSUME Inv, Next
  PROVE  Told'
<1> USE DEF Early, Ends
<1>1. CASE GlobalFlags \/ Before
  BY <1>1 DEF Inv, Told, GlobalFlags, Before, parseConfig, newLogger, Return, Prints, Quiet, toCommand
<1>2. CASE CommandFlags
  BY <1>2 DEF Inv, Told, CommandFlags, Return, Prints, Quiet, FailuresAreTold
<1>3. CASE validateArgs \/ createFetcher
  BY <1>3 DEF Inv, Told, validateArgs, createFetcher, Return, inCommand
<1>4. CASE CheckLimit \/ Pull \/ CheckQuota \/ Work \/ Encode
  BY <1>4 DEF Inv, Told, CheckLimit, Pull, CheckQuota, Work, Encode, Leave, inCommand
<1>5. CASE Close
  BY <1>5 DEF Inv, Told, Close, inCommand
<1>6. CASE HandleError
  <2>1. /\ pc = "returned" /\ pc' = "exited" /\ result' = result /\ printed \in Nat
        /\ result \in {"ok", "silent", "error", "panic"}
        /\ result = "ok" => printed = 0
        /\ result = "silent" => printed > 0
    BY <1>6 DEF Inv, Told, HandleError
  <2>2. CASE result = "ok"
    <3>1. status' = 0 /\ printed' = 0
      BY <1>6, <2>1, <2>2 DEF HandleError, Quiet
    <3> QED BY <2>1, <2>2, <3>1 DEF Told, FailuresAreTold
  <2>3. CASE result # "ok"
    <3>1. status' \in {1, 2} /\ printed' \in Nat /\ printed' > 0
      BY <1>6, <2>1, <2>3 DEF HandleError, Quiet, Prints
    <3> QED BY <2>1, <2>3, <3>1 DEF Told, FailuresAreTold
  <2> QED BY <2>2, <2>3
<1>7. CASE Exited
  BY <1>7 DEF Inv, Told, Exited, vars, FailuresAreTold
<1> QED BY <1>1, <1>2, <1>3, <1>4, <1>5, <1>6, <1>7 DEF Next

(* As long as there is no fetcher.                                         *)
LEMMA EarlyInv ==
  ASSUME Inv, pc \in Early \ {"createFetcher"},
         GlobalFlags \/ Before \/ CommandFlags \/ validateArgs
  PROVE  Fetching'
<1>1. /\ fetcher = NoFetcher /\ fetcher' = NoFetcher
      /\ pulling' = "unknown" /\ charging' = "unknown"
  BY DEF Inv, Fetching, GlobalFlags, Before, parseConfig, newLogger, CommandFlags, validateArgs,
         toCommand
<1>2. HasSettings'
  BY <1>1 DEF HasSettings, NoFetcher
<1>3. limit' \in Int /\ exclude' \in BOOLEAN
  BY LimitsAssumption DEF Inv, Fetching, GlobalFlags, Before, parseConfig, newLogger, CommandFlags,
         validateArgs, toCommand, inCommand
<1>4. /\ command' \in {"none", "create", "pull", "delete", "stats"}
      /\ pc' \in {"parseConfig", "newLogger", "command", "validateArgs", "createFetcher", "work"}
                  \cup Ends
  BY DEF Inv, Fetching, GlobalFlags, Before, parseConfig, newLogger, CommandFlags,
         validateArgs, toCommand, inCommand, Return, Ends
<1>5. /\ pc' = "createFetcher" => command' \in {"create", "pull"}
      /\ pc' = "work" => command' \in {"delete", "stats"}
      /\ pc' \in {"parseConfig", "newLogger", "command"} => command' = "none"
      /\ pc' = "validateArgs" => command' # "none"
      /\ command' # "create" => limit' = 0 /\ exclude' = FALSE
  BY DEF Inv, Fetching, GlobalFlags, Before, parseConfig, newLogger, CommandFlags,
         validateArgs, toCommand, inCommand, Return
<1>6. NoFetcher.state # "open"
  BY DEF NoFetcher
<1> QED BY <1>1, <1>2, <1>3, <1>4, <1>5, <1>6 DEF Fetching, Early, Ends

(* From createFetcher on, settings and state of the fetcher.               *)
LEMMA FetchingInv ==
  ASSUME Inv, Next
  PROVE  Fetching'
<1> USE DEF Early, Ends, HasSettings, shouldSkipImageQuotaValidation, NoFetcher, inCommand,
            checksSizes, takesOffImage
<1>1. CASE GlobalFlags \/ Before \/ CommandFlags \/ validateArgs
  <2>1. pc \in Early \ {"createFetcher"}
    BY <1>1 DEF GlobalFlags, Before, parseConfig, newLogger, CommandFlags, validateArgs
  <2> QED BY <1>1, <2>1, EarlyInv
<1>2. CASE createFetcher
  BY <1>2 DEF Inv, Fetching, createFetcher, Return
<1>3. CASE CheckLimit
  BY <1>3 DEF Inv, Fetching, CheckLimit, Leave
<1>4. CASE Pull
  BY <1>4 DEF Inv, Fetching, Pull, Leave
<1>5. CASE CheckQuota
  BY <1>5 DEF Inv, Fetching, CheckQuota, Leave
<1>6. CASE Work
  BY <1>6 DEF Inv, Fetching, Work, Leave
<1>7. CASE Encode
  BY <1>7 DEF Inv, Fetching, Encode, Leave
<1>8. CASE Close
  BY <1>8 DEF Inv, Fetching, Close
<1>9. CASE HandleError
  BY <1>9 DEF Inv, Fetching, HandleError
<1>10. CASE Exited
  BY <1>10 DEF Inv, Fetching, Exited, vars
<1> QED BY <1>1, <1>2, <1>3, <1>4, <1>5, <1>6, <1>7, <1>8, <1>9, <1>10 DEF Next

(* The inductive invariant holds of every process.                         *)
THEOREM Invariance == Spec => []Inv
<1>1. Init => Inv
  <2> SUFFICES ASSUME Init PROVE Inv
    OBVIOUS
  <2>1. Told
    BY DEF Init, Told, Early, Ends
  <2>2. Fetching
    <3>1. limit = 0 /\ exclude = FALSE
      BY Zenon DEF Init
    <3>2. limit \in Int
      BY <3>1
    <3>3. exclude \in BOOLEAN
      BY <3>1, Zenon
    <3>4. /\ pc = "flags" /\ command = "none" /\ fetcher = NoFetcher
          /\ pulling = "unknown" /\ charging = "unknown"
      BY DEF Init
    <3>5. HasSettings
      BY <3>4 DEF HasSettings
    <3> QED BY <3>1, <3>2, <3>3, <3>4, <3>5, Zenon DEF Fetching, Early, Ends
  <2> QED BY <2>1, <2>2 DEF Inv
<1>2. Inv /\ [Next]_vars => Inv'
  <2> SUFFICES ASSUME Inv, [Next]_vars PROVE Inv'
    OBVIOUS
  <2>1. CASE Next
    BY <2>1, ToldInv, FetchingInv DEF Inv
  <2>2. CASE UNCHANGED vars
    BY <2>2 DEF vars, Inv, Told, Fetching, HasSettings, shouldSkipImageQuotaValidation,
                checksSizes, takesOffImage, FailuresAreTold
  <2> QED BY <2>1, <2>2
<1> QED BY <1>1, <1>2, PTL DEF Spec

(* Every failure is told, and has a status of its own.                     *)
THEOREM FailuresTold == Spec => []FailuresAreTold
<1>1. Inv => FailuresAreTold
  BY DEF Inv, Told, FailuresAreTold
<1> QED BY Invariance, <1>1, PTL

(* No way out of a command, by an error or a panic, leaves a fetcher open. *)
THEOREM FetcherClosed == Spec => []FetcherIsClosed
<1>1. Inv => FetcherIsClosed
  BY DEF Inv, Fetching, FetcherIsClosed, Ends
<1> QED BY Invariance, <1>1, PTL

(* The fetcher, Pull and Create decide alike whether the image counts      *)
(* against the limit, whatever the limit is (groot.go 246-248,             *)
(* image_puller.go 142, create.go 32).                                     *)
THEOREM LimitsAlwaysAgree == Spec => []LimitsAgree
<1>1. Inv => LimitsAgree
  <2> SUFFICES ASSUME Inv PROVE LimitsAgree
    OBVIOUS
  <2>1. /\ limit \in Int /\ exclude \in BOOLEAN
        /\ command # "create" => limit = 0 /\ exclude = FALSE
    BY DEF Inv, Fetching
  <2>2. ASSUME pulling # "unknown"
        PROVE  /\ fetcher # NoFetcher
               /\ pulling = "checks" <=> ~exclude /\ limit # 0
               /\ pulling = "checks" => limit > 0
    BY <2>1, <2>2 DEF Inv, Fetching, checksSizes
  <2>3. ASSUME pulling # "unknown", fetcher.kind = "layer"
        PROVE  /\ fetcher.skipImageQuotaValidation <=> exclude \/ limit = 0
               /\ fetcher.diskLimit = limit
    <3>1. PICK t : \/ fetcher = [state |-> t, kind |-> "file"]
                   \/ fetcher = [state |-> t, kind |-> "layer",
                                 skipImageQuotaValidation |-> shouldSkipImageQuotaValidation,
                                 diskLimit |-> limit]
      BY <2>2, <2>3 DEF Inv, Fetching, HasSettings
    <3>2. fetcher = [state |-> t, kind |-> "layer",
                     skipImageQuotaValidation |-> shouldSkipImageQuotaValidation,
                     diskLimit |-> limit]
      BY <2>3, <3>1
    <3>3. /\ fetcher.skipImageQuotaValidation = shouldSkipImageQuotaValidation
          /\ fetcher.diskLimit = limit
      BY <3>2
    <3> QED BY <3>3 DEF shouldSkipImageQuotaValidation
  <2>4. ASSUME charging # "unknown"
        PROVE  /\ pulling # "unknown"
               /\ charging = "charges" <=> limit # 0 /\ ~exclude
    BY <2>4 DEF Inv, Fetching, takesOffImage
  <2>5. pulling # "unknown" /\ fetcher.kind = "layer" =>
          /\ pulling = "checks" <=> ~fetcher.skipImageQuotaValidation
          /\ pulling = "checks" => fetcher.diskLimit > 0 /\ fetcher.diskLimit = limit
    BY <2>2, <2>3
  <2>6. charging # "unknown" =>
          /\ charging = "charges" <=> pulling = "checks"
          /\ charging = "charges" => limit > 0
    BY <2>2, <2>4
  <2> QED BY <2>5, <2>6 DEF LimitsAgree
<1> QED BY Invariance, <1>1, PTL

=============================================================================
