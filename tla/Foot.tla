-------------------------------- MODULE Foot --------------------------------
(***************************************************************************)
(* integration/cmd/foot/foot/foot.go: the sample driver, which appends the *)
(* arguments of every call to a file per method.  The calls come from      *)
(* processes that share the store directory and may be killed.             *)
(*                                                                         *)
(* A call is its own actor, and stands for the arguments it saves.  The    *)
(* content of a file is the first JSON value in it, which is all that a    *)
(* Decode reads: the list of calls.                                        *)
(***************************************************************************)
EXTENDS SequencesExt

CONSTANTS
  Calls,
  Method,   \* Method[c]: the method that call c calls, and the file it appends to
  Missing,  \* there is no such file
  Torn      \* a file that is empty or ends too early

ErrorVariable ==
  [Unpack |-> "FOOT_UNPACK_ERROR", Bundle |-> "FOOT_BUNDLE_ERROR",
   Delete |-> "FOOT_BUNDLE_ERROR", Stats |-> "FOOT_STATS_ERROR",
   WriteMetadata |-> "FOOT_WRITE_METADATA_ERROR"]

Methods == DOMAIN ErrorVariable

ASSUME CallsAssumption == Method \in [Calls -> Methods]
ASSUME FilesAssumption == Missing \notin Seq(Calls) /\ Torn \notin Seq(Calls) \cup {Missing}

VARIABLES
  env,       \* the variables that are set, of those that the calls look up
  contents,  \* contents[m]: what is in the file of method m
  pc,        \* pc[c]: what call c does next, or how it ended
  obj,       \* obj[c]: the list that c is about to write
  written,   \* ghost: calls whose list has been in their file in full
  disturbed  \* ghost: calls that overlapped another one on their file

vars == <<env, contents, pc, obj, written, disturbed>>

(* A call is past its first look at the file, and not done with it.        *)
Saving == {"stat", "load", "truncate", "write"}
Ended == {"returned", "refused", "panicked", "killed"}

Goto(c, label) == pc' = [pc EXCEPT ![c] = label]

Init ==
  /\ env \in SUBSET {ErrorVariable[Method[c]] : c \in Calls}
  /\ contents = [m \in Methods |-> Missing]
  /\ pc = [c \in Calls |-> "called"]
  /\ obj = [c \in Calls |-> <<>>]
  /\ written = {} /\ disturbed = {}

-----------------------------------------------------------------------------

(* The environment makes the method fail before it does anything.          *)
Refuse(c) ==
  /\ pc[c] = "called"
  /\ ErrorVariable[Method[c]] \in env
  /\ Goto(c, "refused")
  /\ UNCHANGED <<env, contents, obj, written, disturbed>>

(* must(err) after ReadAll of the layer's stream.                          *)
ReadAllFails(c) ==
  /\ pc[c] = "called"
  /\ Method[c] = "Unpack" /\ ErrorVariable.Unpack \notin env
  /\ Goto(c, "panicked")
  /\ UNCHANGED <<env, contents, obj, written, disturbed>>

(* The method goes on to saveObject.                                       *)
Save(c) ==
  /\ pc[c] = "called"
  /\ ErrorVariable[Method[c]] \notin env
  /\ Goto(c, "stat")
  /\ LET others == {d \in Calls : Method[d] = Method[c] /\ pc[d] \in Saving} IN
       disturbed' = IF others = {} THEN disturbed ELSE disturbed \cup others \cup {c}
  /\ UNCHANGED <<env, contents, obj, written>>

Stat(c) ==
  /\ pc[c] = "stat"
  /\ obj' = [obj EXCEPT ![c] = <<c>>]
  /\ Goto(c, IF contents[Method[c]] = Missing THEN "truncate" ELSE "load")
  /\ UNCHANGED <<env, contents, written, disturbed>>

(* Mutant: a file that cannot be decoded is started anew.                  *)
LoadOrRestart(c) ==
  /\ pc[c] = "load"
  /\ Goto(c, "truncate")
  /\ obj' = [obj EXCEPT ![c] =
       IF contents[Method[c]] = Torn THEN <<c>> ELSE Append(contents[Method[c]], c)]
  /\ UNCHANGED <<env, contents, written, disturbed>>

(* Mutant: the call is not set aside, and loadObject overwrites it.        *)
LoadOver(c) ==
  /\ pc[c] = "load"
  /\ contents[Method[c]] # Torn
  /\ Goto(c, "truncate")
  /\ obj' = [obj EXCEPT ![c] = contents[Method[c]]]
  /\ UNCHANGED <<env, contents, written, disturbed>>

(* loadObject, which replaces obj by what is in the file, and the append.  *)
Load(c) ==
  /\ pc[c] = "load"
  /\ contents[Method[c]] # Torn
  /\ Goto(c, "truncate")
  /\ obj' = [obj EXCEPT ![c] = Append(contents[Method[c]], c)]
  /\ UNCHANGED <<env, contents, written, disturbed>>
LoadFails(c) ==
  /\ pc[c] = "load"
  /\ Goto(c, "panicked")
  /\ UNCHANGED <<env, contents, obj, written, disturbed>>

(* os.WriteFile opens the file, which empties it, writes, and closes it.   *)
(* What a part of a list is written over is taken to be damaged.           *)
Truncate(c) ==
  /\ pc[c] = "truncate"
  /\ contents' = [contents EXCEPT ![Method[c]] = Torn]
  /\ Goto(c, "write")
  /\ UNCHANGED <<env, obj, written, disturbed>>
Write(c) ==
  /\ pc[c] = "write"
  /\ contents' = [contents EXCEPT ![Method[c]] = obj[c]]
  /\ written' = written \cup {c}
  /\ Goto(c, "written")
  /\ UNCHANGED <<env, obj, disturbed>>

(* The file is closed and the method returns.                              *)
Return(c) ==
  /\ pc[c] = "written"
  /\ Goto(c, "returned")
  /\ UNCHANGED <<env, contents, obj, written, disturbed>>

(* A call on its way through os.WriteFile leaves the file as it is, or has *)
(* written a part of its list.  What has been written in full stays.       *)
LeavesPart(c) ==
  \/ UNCHANGED contents
  \/ /\ pc[c] \in {"truncate", "write"}
     /\ contents' = [contents EXCEPT ![Method[c]] = Torn]

(* Opening, writing or closing fails, and must(err) panics: after the      *)
(* list has been written, too.                                             *)
WriteFails(c) ==
  /\ pc[c] \in {"truncate", "write", "written"}
  /\ LeavesPart(c)
  /\ Goto(c, "panicked")
  /\ UNCHANGED <<env, obj, written, disturbed>>

Kill(c) ==
  /\ pc[c] \notin Ended
  /\ LeavesPart(c)
  /\ Goto(c, "killed")
  /\ UNCHANGED <<env, obj, written, disturbed>>

Next ==
  \E c \in Calls :
    \/ Refuse(c) \/ ReadAllFails(c) \/ Save(c)
    \/ Stat(c) \/ Load(c) \/ LoadFails(c)
    \/ Truncate(c) \/ Write(c) \/ Return(c) \/ WriteFails(c)
    \/ Kill(c)

Spec == Init /\ [][Next]_vars

-----------------------------------------------------------------------------

Saved(m) == IF contents[m] \in {Missing, Torn} THEN {} ELSE ToSet(contents[m])

Writing(m) == \E c \in Calls : Method[c] = m /\ pc[c] \in {"truncate", "write"}

(* A file lists calls of its method whose own list was in it in full, each *)
(* of them once: none that the environment refused, and one that panicked  *)
(* or was killed only if that was after the write (foot.go 156).  A call   *)
(* that got as far while no other was saving to its file, and any such     *)
(* call that returned, is listed for ever, whatever overlapping calls lose *)
(* later, unless the file is damaged (foot.go 147-157).                    *)
ListsAreTrue ==
  \A m \in Methods :
    /\ contents[m] \notin {Missing, Torn} => IsInjective(contents[m])
    /\ \A c \in Saved(m) :
         /\ Method[c] = m /\ c \in written
         /\ pc[c] \in {"written", "returned", "panicked", "killed"}
    /\ contents[m] # Torn =>
         {c \in Calls : Method[c] = m /\ (c \in written \/ pc[c] = "returned")} \ disturbed
           \subseteq Saved(m)

(* A file damaged by a kill stays so, once the calls that had looked at it *)
(* before are over: no call that sees the damage starts a new list, with   *)
(* which a test that reads the file would pass (foot.go 165-171).          *)
DamageIsKept ==
  [][\A m \in Methods :
       contents[m] = Torn /\ ~Writing(m) => contents'[m] = Torn /\ ~Writing(m)']_vars

=============================================================================
