------------------------- MODULE TestProgramsProofs -------------------------
(***************************************************************************)
(* Proofs about the programs that the tests bring along: the sample driver,*)
(* for any calls, and the generated fakes and the fake registry, for any   *)
(* goroutines, methods, sources and digests.                               *)
(*                                                                         *)
(* Foot is extended, and the fakes are instances, whose constants and      *)
(* variables have the same names here.  The assumptions of an instance are *)
(* none of this module, so the theorems about the fakes have them as       *)
(* hypotheses.  No theorem is about two of the three: that each has a pc   *)
(* says nothing.                                                           *)
(***************************************************************************)
EXTENDS Foot, TLAPS

-----------------------------------------------------------------------------
(* The sample driver: foot.go.                                             *)

(* The calls of a method whose list was in the file in full, and those of  *)
(* them that no other call has overlapped.                                 *)
Full(m) == {c \in Calls : Method[c] = m /\ c \in written}
Undisturbed(m) == Full(m) \ disturbed

(* A list of calls of a method, each of them once.                         *)
Lists(s, calls) == s \in Seq(Calls) /\ IsInjective(s) /\ ToSet(s) \subseteq calls

Types ==
  /\ contents \in [Methods -> {Missing, Torn} \cup Seq(Calls)]
  /\ pc \in [Calls -> {"called", "written"} \cup Saving \cup Ended]
  /\ obj \in [Calls -> Seq(Calls)]
  /\ written \subseteq Calls /\ disturbed \subseteq Calls

(* How a call has gone on that has written its list.                       *)
Past ==
  /\ \A c \in written : pc[c] \in {"written", "returned", "panicked", "killed"}
  /\ \A c \in Calls : pc[c] \in {"written", "returned"} => c \in written

(* What is in a file, and what is about to be.                             *)
Files ==
  \A m \in Methods :
    contents[m] # Torn =>
      /\ contents[m] = Missing => Undisturbed(m) = {}
      /\ contents[m] # Missing =>
           Lists(contents[m], Full(m)) /\ Undisturbed(m) \subseteq ToSet(contents[m])

Objects ==
  \A c \in Calls :
    /\ pc[c] = "load" => contents[Method[c]] # Missing
    /\ pc[c] \in {"truncate", "write"} =>
         /\ Lists(obj[c], Full(Method[c]) \cup {c})
         /\ Undisturbed(Method[c]) \cup {c} \subseteq ToSet(obj[c])

(* Calls that save to one file at a time disturb each other.               *)
Overlaps ==
  \A c, d \in Calls :
    c # d /\ Method[c] = Method[d] /\ pc[c] \in Saving /\ pc[d] \in Saving
      => c \in disturbed /\ d \in disturbed

(* The inductive invariant.                                                *)
Inv == Types /\ Past /\ Files /\ Objects /\ Overlaps

(* A list with one more call.                                              *)
LEMMA AppendLists ==
  ASSUME NEW calls \in SUBSET Calls, NEW s, Lists(s, calls), NEW c \in Calls \ calls
  PROVE  /\ Lists(Append(s, c), calls \cup {c})
         /\ ToSet(s) \cup {c} \subseteq ToSet(Append(s, c))
<1>1. s \in Seq(Calls) /\ Len(s) \in Nat /\ DOMAIN s = 1 .. Len(s)
  BY DEF Lists
<1>2. \A i \in 1 .. Len(s) : s[i] \in calls
  BY <1>1 DEF Lists, ToSet
<1> DEFINE t == Append(s, c)
<1>3. /\ t \in Seq(Calls) /\ DOMAIN t = 1 .. Len(s) + 1
      /\ \A i \in 1 .. Len(s) : t[i] = s[i]
      /\ t[Len(s) + 1] = c
  BY <1>1
<1> HIDE DEF t
<1>4. IsInjective(t)
  <2> SUFFICES ASSUME NEW i \in 1 .. Len(s) + 1, NEW j \in 1 .. Len(s) + 1, t[i] = t[j]
               PROVE  i = j
    BY <1>3 DEF IsInjective
  <2>1. \A k \in 1 .. Len(s) : t[k] # c
    BY <1>2, <1>3
  <2>2. CASE i = Len(s) + 1 \/ j = Len(s) + 1
    BY <1>1, <1>3, <2>1, <2>2
  <2>3. CASE i \in 1 .. Len(s) /\ j \in 1 .. Len(s)
    BY <1>1, <1>3, <2>3 DEF Lists, IsInjective
  <2> QED BY <1>1, <2>2, <2>3
<1>5. ToSet(t) \subseteq calls \cup {c} /\ ToSet(s) \cup {c} \subseteq ToSet(t)
  BY <1>1, <1>2, <1>3 DEF ToSet
<1> QED BY <1>3, <1>4, <1>5 DEF Lists, t

(* Calls that end but do not return: they add nothing to the file, and may *)
(* damage it.                                                              *)
LEMMA EndInv ==
  ASSUME Inv, NEW c \in Calls,
         Refuse(c) \/ ReadAllFails(c) \/ LoadFails(c) \/ WriteFails(c) \/ Kill(c)
  PROVE  Inv'
<1>1. PICK label \in Ended \ {"returned"} :
        /\ pc[c] \notin Ended /\ pc' = [pc EXCEPT ![c] = label]
        /\ label = "refused" => pc[c] = "called"
        /\ UNCHANGED <<env, obj, written, disturbed>>
        /\ contents' \in {contents, [contents EXCEPT ![Method[c]] = Torn]}
  <2>1. Refuse(c) => pc[c] = "called" /\ pc' = [pc EXCEPT ![c] = "refused"]
                      /\ UNCHANGED <<env, contents, obj, written, disturbed>>
    BY DEF Refuse, Goto
  <2>2. ReadAllFails(c) \/ LoadFails(c) =>
          /\ pc[c] \in {"called", "load"} /\ pc' = [pc EXCEPT ![c] = "panicked"]
          /\ UNCHANGED <<env, contents, obj, written, disturbed>>
    BY DEF ReadAllFails, LoadFails, Goto
  <2>3. WriteFails(c) =>
          /\ pc[c] \in {"truncate", "write", "written"} /\ pc' = [pc EXCEPT ![c] = "panicked"]
          /\ UNCHANGED <<env, obj, written, disturbed>>
          /\ contents' \in {contents, [contents EXCEPT ![Method[c]] = Torn]}
    BY DEF WriteFails, LeavesPart, Goto
  <2>4. Kill(c) =>
          /\ pc[c] \notin Ended /\ pc' = [pc EXCEPT ![c] = "killed"]
          /\ UNCHANGED <<env, obj, written, disturbed>>
          /\ contents' \in {contents, [contents EXCEPT ![Method[c]] = Torn]}
    BY DEF Kill, LeavesPart, Goto
  <2>5. /\ {"refused", "panicked", "killed"} \subseteq Ended \ {"returned"}
        /\ "called" \notin Ended /\ "load" \notin Ended
        /\ "truncate" \notin Ended /\ "write" \notin Ended /\ "written" \notin Ended
    BY DEF Ended
  <2>6. CASE Refuse(c)
    BY <2>1, <2>5, <2>6
  <2>7. CASE ReadAllFails(c) \/ LoadFails(c)
    BY <2>2, <2>5, <2>7
  <2>8. CASE WriteFails(c)
    BY <2>3, <2>5, <2>8
  <2>9. CASE Kill(c)
    BY <2>4, <2>5, <2>9
  <2> QED BY <2>6, <2>7, <2>8, <2>9
<1>2. Types'
  <2>1. contents' \in [Methods -> {Missing, Torn} \cup Seq(Calls)]
    BY <1>1, CallsAssumption DEF Inv, Types
  <2> QED BY <1>1, <2>1 DEF Inv, Types
<1>3. \A m : Full(m)' = Full(m) /\ Undisturbed(m)' = Undisturbed(m)
  BY <1>1 DEF Full, Undisturbed
<1>4. \A m \in Methods : contents'[m] = contents[m] \/ contents'[m] = Torn
  BY <1>1, CallsAssumption DEF Inv, Types
<1>5. Files'
  BY <1>1, <1>3, <1>4 DEF Inv, Files
<1>6. \A d \in Calls : pc'[d] \in Saving => pc'[d] = pc[d] /\ d # c
  BY <1>1 DEF Inv, Types, Ended, Saving
<1>7. \A d \in Calls : contents[Method[d]] # Missing => contents'[Method[d]] # Missing
  BY <1>4, CallsAssumption, FilesAssumption
<1>8. Objects'
  BY <1>1, <1>3, <1>6, <1>7 DEF Inv, Objects, Saving
<1>9. Overlaps'
  BY <1>1, <1>6 DEF Inv, Overlaps
<1>10. Past'
  <2>1. pc'[c] = label /\ \A d \in Calls : d # c => pc'[d] = pc[d]
    BY <1>1 DEF Inv, Types
  <2>2. c \in written => label \in {"panicked", "killed"}
    BY <1>1 DEF Inv, Past, Ended
  <2>3. label \notin {"written", "returned"} /\ written' = written
    BY <1>1 DEF Ended
  <2> QED BY <2>1, <2>2, <2>3 DEF Inv, Types, Past
<1> QED BY <1>2, <1>5, <1>8, <1>9, <1>10 DEF Inv

(* Calls that overlap from now on are disturbed.                           *)
LEMMA SaveInv ==
  ASSUME Inv, NEW c \in Calls, Save(c)
  PROVE  Inv'
<1> DEFINE others == {d \in Calls : Method[d] = Method[c] /\ pc[d] \in Saving}
<1>1. /\ pc[c] = "called" /\ pc' = [pc EXCEPT ![c] = "stat"]
      /\ disturbed' = IF others = {} THEN disturbed ELSE disturbed \cup others \cup {c}
      /\ UNCHANGED <<env, contents, obj, written>>
  BY DEF Save, Goto
<1>2. Types'
  BY <1>1 DEF Inv, Types, Saving
<1>3. \A m : Full(m)' = Full(m) /\ Undisturbed(m)' \subseteq Undisturbed(m)
  BY <1>1 DEF Inv, Types, Full, Undisturbed
<1>4. Files'
  BY <1>1, <1>3 DEF Inv, Files
<1>5. \A d \in Calls : pc'[d] \in {"load", "truncate", "write"} => pc'[d] = pc[d]
  BY <1>1 DEF Inv, Types
<1>6. Objects'
  BY <1>1, <1>3, <1>5 DEF Inv, Objects
<1>7. Overlaps'
  <2> SUFFICES ASSUME NEW a \in Calls, NEW b \in Calls, a # b, Method[a] = Method[b],
                      pc'[a] \in Saving, pc'[b] \in Saving
               PROVE  a \in disturbed' /\ b \in disturbed'
    BY DEF Overlaps
  <2>1. CASE a = c
    <3>1. b \in others
      BY <1>1, <2>1 DEF Inv, Types
    <3> QED BY <1>1, <2>1, <3>1
  <2>2. CASE b = c
    <3>1. a \in others
      BY <1>1, <2>2 DEF Inv, Types
    <3> QED BY <1>1, <2>2, <3>1
  <2>3. CASE a # c /\ b # c
    <3>1. pc[a] \in Saving /\ pc[b] \in Saving
      BY <1>1, <2>3 DEF Inv, Types
    <3>2. a \in disturbed /\ b \in disturbed
      BY <3>1 DEF Inv, Overlaps
    <3> QED BY <1>1, <3>2
  <2> QED BY <2>1, <2>2, <2>3
<1>8. Past'
  BY <1>1 DEF Inv, Types, Past
<1> QED BY <1>2, <1>4, <1>6, <1>7, <1>8 DEF Inv

(* A call that goes on from one stage of saving to another.                *)
LEMMA SavingInv ==
  ASSUME Inv, NEW c \in Calls, pc[c] \in Saving, NEW label \in Saving,
         pc' = [pc EXCEPT ![c] = label],
         NEW s \in Seq(Calls), obj' = [obj EXCEPT ![c] = s],
         UNCHANGED <<written, disturbed>>, contents' \in {contents, [contents EXCEPT ![Method[c]] = Torn]},
         label = "load" => contents[Method[c]] # Missing,
         label \in {"truncate", "write"} =>
           /\ Lists(s, Full(Method[c]) \cup {c})
           /\ Undisturbed(Method[c]) \cup {c} \subseteq ToSet(s)
  PROVE  Inv'
<1>1. Method[c] \in Methods
  BY CallsAssumption
<1>2. Types'
  BY <1>1 DEF Inv, Types
<1>3. \A m : Full(m)' = Full(m) /\ Undisturbed(m)' = Undisturbed(m)
  BY DEF Full, Undisturbed
<1>4. \A m \in Methods : contents'[m] = contents[m] \/ contents'[m] = Torn
  BY <1>1 DEF Inv, Types
<1>5. Files'
  BY <1>3, <1>4 DEF Inv, Files
<1>6. Objects'
  <2> SUFFICES ASSUME NEW d \in Calls
               PROVE  /\ pc'[d] = "load" => contents'[Method[d]] # Missing
                      /\ pc'[d] \in {"truncate", "write"} =>
                           /\ Lists(obj'[d], Full(Method[d]) \cup {d})
                           /\ Undisturbed(Method[d]) \cup {d} \subseteq ToSet(obj'[d])
    BY <1>3 DEF Objects
  <2>1. contents[Method[d]] # Missing => contents'[Method[d]] # Missing
    BY <1>4, CallsAssumption, FilesAssumption
  <2>2. CASE d = c
    <3>1. pc'[d] = label /\ obj'[d] = s
      BY <2>2 DEF Inv, Types
    <3> QED BY <2>1, <2>2, <3>1
  <2>3. CASE d # c
    <3>1. pc'[d] = pc[d] /\ obj'[d] = obj[d]
      BY <2>3 DEF Inv, Types
    <3> QED BY <2>1, <3>1 DEF Inv, Objects
  <2> QED BY <2>2, <2>3
<1>7. \A d \in Calls : pc'[d] \in Saving => pc[d] \in Saving
  BY DEF Inv, Types
<1>8. Overlaps'
  BY <1>7 DEF Inv, Overlaps
<1>9. Past'
  BY DEF Inv, Types, Past, Saving
<1> QED BY <1>2, <1>5, <1>6, <1>8, <1>9 DEF Inv

(* A call begins a list, or sets itself aside until it has the old one.    *)
LEMMA StatInv ==
  ASSUME Inv, NEW c \in Calls, Stat(c)
  PROVE  Inv'
<1> DEFINE label == IF contents[Method[c]] = Missing THEN "truncate" ELSE "load"
<1>1. /\ pc[c] = "stat" /\ obj' = [obj EXCEPT ![c] = <<c>>] /\ pc' = [pc EXCEPT ![c] = label]
      /\ UNCHANGED <<contents, written, disturbed>>
  BY DEF Stat, Goto
<1>2. <<c>> \in Seq(Calls) /\ Lists(<<c>>, {c}) /\ ToSet(<<c>>) = {c}
  BY DEF Lists, ToSet, IsInjective
<1>3. contents[Method[c]] = Missing => Undisturbed(Method[c]) = {}
  BY CallsAssumption, FilesAssumption DEF Inv, Files
<1>4. Lists(<<c>>, Full(Method[c]) \cup {c})
  BY <1>2 DEF Lists
<1>5. label \in Saving /\ pc[c] \in Saving
  BY <1>1 DEF Saving
<1> HIDE DEF label
<1>6. /\ label = "load" => contents[Method[c]] # Missing
      /\ label \in {"truncate", "write"} => contents[Method[c]] = Missing
  BY DEF label
<1>7. PICK s : s = <<c>>
  OBVIOUS
<1> QED BY <1>1, <1>2, <1>3, <1>4, <1>5, <1>6, <1>7, SavingInv

(* A call appends itself to the list that it has read.                     *)
LEMMA LoadInv ==
  ASSUME Inv, NEW c \in Calls, Load(c)
  PROVE  Inv'
<1> DEFINE m == Method[c]
<1>1. /\ pc[c] = "load" /\ contents[m] # Torn /\ pc' = [pc EXCEPT ![c] = "truncate"]
      /\ obj' = [obj EXCEPT ![c] = Append(contents[m], c)]
      /\ UNCHANGED <<contents, written, disturbed>>
  BY DEF Load, Goto
<1>2. m \in Methods /\ contents[m] # Missing
  BY <1>1, CallsAssumption DEF Inv, Objects
<1>3. Lists(contents[m], Full(m)) /\ Undisturbed(m) \subseteq ToSet(contents[m])
  BY <1>1, <1>2 DEF Inv, Files
<1>4. c \in Calls \ Full(m) /\ Full(m) \subseteq Calls
  BY <1>1 DEF Inv, Past, Full
<1>5. PICK s : s = Append(contents[m], c)
  OBVIOUS
<1>6. Lists(s, Full(m) \cup {c}) /\ Undisturbed(m) \cup {c} \subseteq ToSet(s)
  BY <1>3, <1>4, <1>5, AppendLists
<1>7. s \in Seq(Calls)
  BY <1>6 DEF Lists
<1>8. pc[c] \in Saving /\ "truncate" \in Saving
  BY <1>1 DEF Saving
<1> QED BY <1>1, <1>5, <1>6, <1>7, <1>8, SavingInv

(* The file is emptied.                                                    *)
LEMMA TruncateInv ==
  ASSUME Inv, NEW c \in Calls, Truncate(c)
  PROVE  Inv'
<1>1. /\ pc[c] = "truncate" /\ pc' = [pc EXCEPT ![c] = "write"]
      /\ contents' = [contents EXCEPT ![Method[c]] = Torn]
      /\ UNCHANGED <<obj, written, disturbed>>
  BY DEF Truncate, Goto
<1>2. PICK s : s = obj[c]
  OBVIOUS
<1>3. s \in Seq(Calls) /\ obj' = [obj EXCEPT ![c] = s]
  BY <1>1, <1>2 DEF Inv, Types
<1>4. Lists(s, Full(Method[c]) \cup {c}) /\ Undisturbed(Method[c]) \cup {c} \subseteq ToSet(s)
  BY <1>1, <1>2 DEF Inv, Objects
<1>5. pc[c] \in Saving /\ "write" \in Saving
  BY <1>1 DEF Saving
<1> QED BY <1>1, <1>3, <1>4, <1>5, SavingInv

(* The list is in the file.  Others that are saving to the file are        *)
(* disturbed, and so is this call if there are any.                        *)
LEMMA WriteInv ==
  ASSUME Inv, NEW c \in Calls, Write(c)
  PROVE  Inv'
<1> DEFINE m == Method[c]
<1>1. /\ pc[c] = "write" /\ pc' = [pc EXCEPT ![c] = "written"]
      /\ written' = written \cup {c}
      /\ contents' = [contents EXCEPT ![m] = obj[c]]
      /\ UNCHANGED <<obj, disturbed>>
  BY DEF Write, Goto
<1>2. m \in Methods /\ obj[c] \in Seq(Calls)
  BY CallsAssumption DEF Inv, Types
<1>3. /\ Lists(obj[c], Full(m) \cup {c})
      /\ Undisturbed(m) \cup {c} \subseteq ToSet(obj[c])
  BY <1>1 DEF Inv, Objects
<1>4. Types'
  <2>1. contents' \in [Methods -> {Missing, Torn} \cup Seq(Calls)]
    BY <1>1, <1>2 DEF Inv, Types
  <2> QED BY <1>1, <2>1 DEF Inv, Types
<1>5. /\ Full(m)' = Full(m) \cup {c}
      /\ Undisturbed(m)' = Undisturbed(m) \cup ({c} \ disturbed)
  BY <1>1 DEF Inv, Types, Full, Undisturbed
<1>6. \A k \in Methods : k # m =>
        Full(k)' = Full(k) /\ Undisturbed(k)' = Undisturbed(k)
  BY <1>1 DEF Inv, Types, Full, Undisturbed
<1>7. /\ contents'[m] = obj[c]
      /\ \A k \in Methods : k # m => contents'[k] = contents[k]
  BY <1>1, <1>2 DEF Inv, Types
<1>8. Files'
  <2> SUFFICES ASSUME NEW k \in Methods, contents'[k] # Torn
               PROVE  /\ contents'[k] = Missing => Undisturbed(k)' = {}
                      /\ contents'[k] # Missing =>
                           /\ Lists(contents'[k], Full(k)')
                           /\ Undisturbed(k)' \subseteq ToSet(contents'[k])
    BY DEF Files
  <2>1. CASE k = m
    <3>1. contents'[k] # Missing
      BY <1>2, <1>7, <2>1, FilesAssumption
    <3> QED BY <1>3, <1>5, <1>7, <2>1, <3>1
  <2>2. CASE k # m
    BY <1>6, <1>7, <2>2 DEF Inv, Files
  <2> QED BY <2>1, <2>2
<1>9. \A d \in Calls : pc'[d] \in Saving => pc'[d] = pc[d] /\ d # c
  BY <1>1 DEF Inv, Types, Saving
<1>10. Objects'
  <2> SUFFICES ASSUME NEW d \in Calls
               PROVE  /\ pc'[d] = "load" => contents'[Method[d]] # Missing
                      /\ pc'[d] \in {"truncate", "write"} =>
                           /\ Lists(obj[d], Full(Method[d])' \cup {d})
                           /\ Undisturbed(Method[d])' \cup {d} \subseteq ToSet(obj[d])
    BY <1>1 DEF Objects
  <2>1. Method[d] \in Methods /\ (pc'[d] \in Saving => pc[d] = pc'[d] /\ d # c)
    BY <1>9, CallsAssumption
  <2>2. CASE Method[d] = m
    <3>1. contents'[Method[d]] # Missing
      BY <1>2, <1>7, <2>2, FilesAssumption
    <3>2. CASE pc'[d] \in {"truncate", "write"}
      <4>1. pc[d] \in {"truncate", "write"} /\ d # c
        BY <2>1, <3>2 DEF Saving
      <4>2. c \in disturbed
        BY <1>1, <2>2, <4>1 DEF Inv, Overlaps, Saving
      <4>3. /\ Lists(obj[d], Full(m) \cup {d})
            /\ Undisturbed(m) \cup {d} \subseteq ToSet(obj[d])
        BY <2>2, <4>1 DEF Inv, Objects
      <4>4. Lists(obj[d], Full(m)' \cup {d})
        BY <1>5, <4>3 DEF Lists
      <4>5. Undisturbed(m)' \cup {d} \subseteq ToSet(obj[d])
        BY <1>5, <4>2, <4>3
      <4> QED BY <2>2, <3>1, <4>4, <4>5
    <3> QED BY <3>1, <3>2
  <2>3. CASE Method[d] # m
    BY <1>6, <1>7, <2>1, <2>3 DEF Inv, Objects, Saving
  <2> QED BY <2>2, <2>3
<1>11. Overlaps'
  BY <1>1, <1>9 DEF Inv, Overlaps
<1>12. Past'
  BY <1>1 DEF Inv, Types, Past
<1> QED BY <1>4, <1>8, <1>10, <1>11, <1>12 DEF Inv

(* The return of a call concerns no file.                                  *)
LEMMA DoneInv ==
  ASSUME Inv, NEW c \in Calls, Return(c)
  PROVE  Inv'
<1>1. /\ pc[c] = "written" /\ pc' = [pc EXCEPT ![c] = "returned"]
      /\ UNCHANGED <<contents, obj, written, disturbed>>
  BY DEF Return, Goto
<1>2. Types' /\ Past'
  BY <1>1 DEF Inv, Types, Past, Ended
<1>3. \A m : Full(m)' = Full(m) /\ Undisturbed(m)' = Undisturbed(m)
  BY <1>1 DEF Full, Undisturbed
<1>4. \A d \in Calls : pc'[d] \in Saving => pc'[d] = pc[d]
  BY <1>1 DEF Inv, Types, Saving
<1>5. Files' /\ Overlaps'
  BY <1>1, <1>3, <1>4 DEF Inv, Files, Overlaps
<1>6. Objects'
  BY <1>1, <1>3, <1>4 DEF Inv, Objects, Saving
<1> QED BY <1>2, <1>5, <1>6 DEF Inv

(* No call has written a list, and none is saving.                         *)
LEMMA InitInv == Init => Inv
<1> SUFFICES ASSUME Init PROVE Inv
  OBVIOUS
<1>1. Types /\ Past
  BY DEF Init, Types, Past
<1>2. \A m : Full(m) = {} /\ Undisturbed(m) = {}
  BY DEF Init, Full, Undisturbed
<1>3. Files
  BY <1>2 DEF Init, Files
<1>4. Objects /\ Overlaps
  BY DEF Init, Objects, Overlaps, Saving
<1> QED BY <1>1, <1>3, <1>4 DEF Inv

(* The invariant is inductive.                                             *)
THEOREM Invariance == Spec => []Inv
<1>1. Inv /\ [Next]_vars => Inv'
  <2> SUFFICES ASSUME Inv, [Next]_vars PROVE Inv'
    OBVIOUS
  <2>1. CASE Next
    BY <2>1, EndInv, SaveInv, StatInv, LoadInv, TruncateInv, WriteInv, DoneInv DEF Next
  <2>2. CASE UNCHANGED vars
    BY <2>2 DEF vars, Inv, Types, Past, Files, Objects, Overlaps, Full, Undisturbed
  <2> QED BY <2>1, <2>2
<1> QED BY <1>1, InitInv, PTL DEF Spec

(* A file that is not damaged lists only calls that came to the end of     *)
(* their write, each of them once, and every one of them that nothing      *)
(* overlapped: a call that returned for certain, one that panicked or was  *)
(* killed only if that was after its write (foot.go 147-157).              *)
THEOREM ListsTrue == Spec => []ListsAreTrue
<1>1. Inv => ListsAreTrue
  <2> SUFFICES ASSUME Inv, NEW m \in Methods
               PROVE  /\ contents[m] \notin {Missing, Torn} => IsInjective(contents[m])
                      /\ \A c \in Saved(m) : c \in Full(m)
                      /\ contents[m] # Torn => Undisturbed(m) \subseteq Saved(m)
    <3>1. ASSUME Inv, NEW k, NEW c \in Full(k)
          PROVE  /\ Method[c] = k /\ c \in written
                 /\ pc[c] \in {"written", "returned", "panicked", "killed"}
      BY <3>1 DEF Inv, Past, Full
    <3>2. ASSUME Inv, NEW k
          PROVE  {c \in Calls : Method[c] = k /\ (c \in written \/ pc[c] = "returned")} \ disturbed
                   = Undisturbed(k)
      BY <3>2 DEF Inv, Past, Full, Undisturbed
    <3> QED BY <3>1, <3>2 DEF ListsAreTrue
  <2>1. CASE contents[m] = Torn
    BY <2>1 DEF Saved
  <2>2. CASE contents[m] = Missing
    BY <2>2 DEF Saved, Inv, Files
  <2>3. CASE contents[m] \notin {Missing, Torn}
    BY <2>3 DEF Saved, Inv, Files, Lists
  <2> QED BY <2>1, <2>2, <2>3
<1> QED BY <1>1, Invariance, PTL

(* A call that is not past its look at a damaged file does not mend it.    *)
THEOREM DamageKept == Spec => DamageIsKept
<1>1. Inv /\ [Next]_vars =>
        [\A m \in Methods :
          contents[m] = Torn /\ ~Writing(m) => contents'[m] = Torn /\ ~Writing(m)']_vars
  <2> SUFFICES ASSUME Inv, Next, NEW m \in Methods, contents[m] = Torn, ~Writing(m)
               PROVE  contents'[m] = Torn /\ ~Writing(m)'
    OBVIOUS
  <2>1. PICK c \in Calls :
          \/ Refuse(c) \/ ReadAllFails(c) \/ Save(c)
          \/ Stat(c) \/ Load(c) \/ LoadFails(c)
          \/ Truncate(c) \/ Write(c) \/ Return(c) \/ WriteFails(c)
          \/ Kill(c)
    BY DEF Next
  <2>2. Torn # Missing /\ Method[c] \in Methods
    BY FilesAssumption, CallsAssumption
  <2>3. contents'[m] = Torn
    <3>1. Method[c] # m \/ pc[c] \notin {"truncate", "write"}
      BY DEF Writing
    <3> QED BY <2>1, <2>2, <3>1 DEF Inv, Types, Refuse, ReadAllFails, Save, Stat, Load,
               LoadFails, Truncate, Write, Return, WriteFails, LeavesPart, Kill
  <2>4. Method[c] = m => pc'[c] \notin {"truncate", "write"}
    <3> SUFFICES ASSUME Method[c] = m PROVE pc'[c] \notin {"truncate", "write"}
      OBVIOUS
    <3>1. pc[c] \notin {"truncate", "write"}
      BY DEF Writing
    <3> QED BY <2>1, <2>2, <3>1 DEF Inv, Types, Refuse, ReadAllFails, Save, Stat, Load,
               LoadFails, Truncate, Write, Return, WriteFails, LeavesPart, Kill, Goto
  <2>5. \A d \in Calls : d # c => pc'[d] = pc[d]
    BY <2>1 DEF Inv, Types, Refuse, ReadAllFails, Save, Stat, Load,
          LoadFails, Truncate, Write, Return, WriteFails, LeavesPart, Kill, Goto
  <2> QED BY <2>3, <2>4, <2>5 DEF Writing
<1> QED BY <1>1, Invariance, PTL DEF Spec, DamageIsKept

-----------------------------------------------------------------------------
(* The generated fakes: fake_source.go.                                    *)

CONSTANTS Goroutines, Order, MaxCalls, Nobody
VARIABLES argsForCall, stub, returnsOnCall, invocations, mutex, reading, method, locked, ret, given

Source == INSTANCE FakeSource

(* Values of its variables.                                                *)
SourceTypes ==
  /\ argsForCall \in [Source!Methods -> Seq(Goroutines)]
  /\ invocations \in [Source!Methods -> Seq(Goroutines)]
  /\ given \in [Source!Methods -> [Source!Indexes -> SUBSET Goroutines]]
  /\ mutex \in [Source!Methods -> Goroutines \cup {Nobody}]
  /\ pc \in [Goroutines -> {"idle", "record", "return", "lock"}]
  /\ method \in [Goroutines -> Source!Methods]
  /\ locked \in [Goroutines -> 0 .. Len(Order)]
  /\ DOMAIN ret = Goroutines /\ \A t \in Goroutines : ret[t].index \in Nat

(* Who holds which mutex.                                                  *)
Mutexes ==
  /\ reading = {t \in Goroutines : pc[t] = "lock"}
  /\ \A m \in Source!Methods, t \in Goroutines :
       mutex[m] = t <=> pc[t] = "record" /\ method[t] = m

(* A goroutine in a method made the call whose number it has, which is the *)
(* last one while it holds the mutex.                                      *)
Numbered ==
  /\ \A m \in Source!Methods : Len(argsForCall[m]) <= MaxCalls
  /\ \A t \in Goroutines :
       LET args == argsForCall[method[t]] IN
         /\ pc[t] \in {"record", "return"} =>
              ret[t].index < Len(args) /\ args[ret[t].index + 1] = t
         /\ pc[t] = "record" => ret[t].index + 1 = Len(args)

(* The inductive invariant of a fake.  What is known of a call under the   *)
(* mutex stays true when the mutex has been given back.                    *)
SourceInv == SourceTypes /\ Mutexes /\ Numbered /\ Source!CallsAreTold

(* The assumptions that FakeSource makes.                                  *)
SourceConstants ==
  Source!NobodyAssumption /\ Source!OrderAssumption /\ Source!MaxCallsAssumption

(* A new fake.                                                             *)
LEMMA SourceInitInv ==
  ASSUME SourceConstants, Source!Init
  PROVE  SourceInv
<1>1. /\ Nobody \notin Goroutines /\ MaxCalls \in Nat /\ Len(Order) \in Nat
      /\ Order[1] \in Source!Methods
  BY DEF SourceConstants, Source!NobodyAssumption, Source!OrderAssumption,
         Source!MaxCallsAssumption, Source!Methods
<1>2. SourceTypes
  BY <1>1 DEF SourceTypes, Source!Init, Source!NoReturn, Source!Indexes
<1>3. Mutexes
  BY <1>1 DEF Mutexes, Source!Init
<1>4. Numbered
  BY <1>1 DEF Numbered, Source!Init
<1>5. Source!CallsAreTold
  <2>1. /\ \A m \in Source!Methods :
             invocations[m] = argsForCall[m] /\ mutex[m] = Nobody
        /\ \A m \in Source!Methods : \A i \in Source!Indexes : given[m][i] = {}
    BY DEF Source!Init
  <2> QED BY <2>1 DEF Source!CallsAreTold
<1> QED BY <1>2, <1>3, <1>4, <1>5 DEF SourceInv

(* What the invariant does not depend on: the settings.                    *)
LEMMA SettingsKeepInv ==
  ASSUME SourceInv,
         UNCHANGED <<argsForCall, invocations, given, mutex, reading, locked, pc, method, ret>>
  PROVE  SourceInv'
<1>1. SourceTypes' /\ Mutexes'
  BY DEF SourceInv, SourceTypes, Mutexes
<1>2. Numbered' /\ Source!CallsAreTold'
  BY DEF SourceInv, Numbered, Source!CallsAreTold
<1> QED BY <1>1, <1>2 DEF SourceInv

(* A call gets its number and the mutex at once.                           *)
LEMMA CallInv ==
  ASSUME SourceConstants, SourceInv, NEW t \in Goroutines, NEW m \in Source!Methods,
         Source!Call(t, m)
  PROVE  SourceInv'
<1> DEFINE args == argsForCall[m]
           i == Len(args)
<1>1. /\ pc[t] = "idle" /\ mutex[m] = Nobody /\ i < MaxCalls
      /\ argsForCall' = [argsForCall EXCEPT ![m] = Append(args, t)]
      /\ mutex' = [mutex EXCEPT ![m] = t]
      /\ method' = [method EXCEPT ![t] = m]
      /\ pc' = [pc EXCEPT ![t] = "record"]
      /\ UNCHANGED <<invocations, given, reading, locked>>
  BY DEF Source!Call, Source!Free, Source!Goto
<1>2. PICK r : r.index = i /\ ret' = [ret EXCEPT ![t] = r]
  <2>1. PICK specific : ret' = [ret EXCEPT ![t] = [index |-> i, specific |-> specific]]
    BY Zenon DEF Source!Call
  <2>2. PICK record : record = [index |-> i, specific |-> specific]
    OBVIOUS
  <2>3. record.index = i
    BY <2>2
  <2> QED BY <2>1, <2>2, <2>3
<1>3. /\ args \in Seq(Goroutines) /\ i \in Nat /\ MaxCalls \in Nat /\ Nobody \notin Goroutines
      /\ Append(args, t) \in Seq(Goroutines) /\ Len(Append(args, t)) = i + 1
      /\ \A j \in 1 .. i : Append(args, t)[j] = args[j]
      /\ Append(args, t)[i + 1] = t
  BY DEF SourceInv, SourceTypes, SourceConstants, Source!NobodyAssumption,
         Source!MaxCallsAssumption
<1>4. PICK longer : longer = Append(args, t)
  OBVIOUS
<1>5. SourceTypes'
  BY <1>1, <1>2, <1>3 DEF SourceInv, SourceTypes
<1>6. Mutexes'
  <2>1. reading' = {u \in Goroutines : pc'[u] = "lock"}
    BY <1>1 DEF SourceInv, SourceTypes, Mutexes
  <2>2. ASSUME NEW k \in Source!Methods, NEW u \in Goroutines
        PROVE  mutex'[k] = u <=> pc'[u] = "record" /\ method'[u] = k
    BY <1>1, <1>3 DEF SourceInv, SourceTypes, Mutexes
  <2> QED BY <2>1, <2>2 DEF Mutexes
<1>7. Numbered'
  <2>1. ASSUME NEW k \in Source!Methods PROVE Len(argsForCall'[k]) <= MaxCalls
    BY <1>1, <1>3 DEF SourceInv, SourceTypes, Numbered
  <2>2. ASSUME NEW u \in Goroutines
        PROVE  /\ pc'[u] \in {"record", "return"} =>
                    /\ ret'[u].index < Len(argsForCall'[method'[u]])
                    /\ argsForCall'[method'[u]][ret'[u].index + 1] = u
               /\ pc'[u] = "record" => ret'[u].index + 1 = Len(argsForCall'[method'[u]])
    <3>1. CASE u = t
      <4>1. /\ method'[u] = m /\ argsForCall'[m] = longer /\ ret'[u].index = i
        BY <1>1, <1>2, <1>4, <3>1 DEF SourceInv, SourceTypes
      <4> QED BY <1>3, <1>4, <3>1, <4>1
    <3>2. CASE u # t
      <4>1. /\ method'[u] = method[u] /\ ret'[u] = ret[u] /\ pc'[u] = pc[u]
            /\ ret[u].index \in Nat /\ method[u] \in Source!Methods
        BY <1>1, <1>2, <3>2 DEF SourceInv, SourceTypes
      <4>2. CASE method[u] = m
        <5>1. argsForCall'[m] = longer /\ pc[u] # "record"
          BY <1>1, <1>3, <1>4, <4>2 DEF SourceInv, SourceTypes, Mutexes
        <5>2. pc[u] = "return" => ret[u].index < i /\ args[ret[u].index + 1] = u
          BY <4>2 DEF SourceInv, Numbered
        <5> QED BY <1>3, <1>4, <4>1, <4>2, <5>1, <5>2
      <4>3. CASE method[u] # m
        <5>1. argsForCall'[method[u]] = argsForCall[method[u]]
          BY <1>1, <4>1, <4>3 DEF SourceInv, SourceTypes
        <5> QED BY <4>1, <5>1 DEF SourceInv, Numbered
      <4> QED BY <4>2, <4>3
    <3> QED BY <3>1, <3>2
  <2> QED BY <2>1, <2>2 DEF Numbered
<1>8. Source!CallsAreTold'
  <2> SUFFICES ASSUME NEW k \in Source!Methods
               PROVE  /\ invocations'[k] =
                           IF mutex'[k] = Nobody THEN argsForCall'[k]
                           ELSE SubSeq(argsForCall'[k], 1, Len(argsForCall'[k]) - 1)
                      /\ \A j \in Source!Indexes : \A u \in given'[k][j] :
                           j < Len(argsForCall'[k]) /\ argsForCall'[k][j + 1] = u
    BY DEF Source!CallsAreTold
  <2>1. CASE k = m
    <3>1. invocations'[k] = args /\ mutex'[k] # Nobody /\ argsForCall'[k] = longer
      BY <1>1, <1>3, <1>4, <2>1 DEF SourceInv, SourceTypes, Source!CallsAreTold
    <3>2. SubSeq(longer, 1, Len(longer) - 1) = args
      BY <1>3, <1>4
    <3>3. \A j \in Source!Indexes : \A u \in given[k][j] : j < i /\ args[j + 1] = u
      BY <2>1 DEF SourceInv, Source!CallsAreTold
    <3>4. \A j \in Source!Indexes : j \in Nat
      BY <1>3 DEF Source!Indexes
    <3>5. \A j \in Source!Indexes : \A u \in given[k][j] :
            j < Len(longer) /\ longer[j + 1] = u
      BY <1>3, <1>4, <3>3, <3>4
    <3>6. given' = given
      BY <1>1
    <3> QED BY <3>1, <3>2, <3>5, <3>6
  <2>2. CASE k # m
    <3>1. argsForCall'[k] = argsForCall[k] /\ mutex'[k] = mutex[k]
      BY <1>1, <2>2 DEF SourceInv, SourceTypes
    <3>2. given' = given /\ invocations' = invocations
      BY <1>1
    <3> QED BY <3>1, <3>2 DEF SourceInv, Source!CallsAreTold
  <2> QED BY <2>1, <2>2
<1> QED BY <1>5, <1>6, <1>7, <1>8 DEF SourceInv

(* The last call is recorded before its mutex is given back.               *)
LEMMA RecordInvocationInv ==
  ASSUME SourceConstants, SourceInv, NEW t \in Goroutines, Source!RecordInvocation(t)
  PROVE  SourceInv'
<1> DEFINE m == method[t]
           args == argsForCall[m]
<1>1. /\ pc[t] = "record"
      /\ invocations' = [invocations EXCEPT ![m] = Append(@, t)]
      /\ mutex' = [mutex EXCEPT ![m] = Nobody]
      /\ pc' = [pc EXCEPT ![t] = "return"]
      /\ UNCHANGED <<argsForCall, given, reading, locked, method, ret>>
  BY DEF Source!RecordInvocation, Source!Goto
<1>2. /\ m \in Source!Methods /\ args \in Seq(Goroutines) /\ mutex[m] = t
      /\ Nobody \notin Goroutines
  BY <1>1 DEF SourceInv, SourceTypes, Mutexes, SourceConstants, Source!NobodyAssumption
<1>3. Len(args) \in Nat /\ Len(args) > 0 /\ args[Len(args)] = t
  <2>1. /\ ret[t].index \in Nat /\ ret[t].index < Len(args) /\ args[ret[t].index + 1] = t
        /\ ret[t].index + 1 = Len(args)
    BY <1>1 DEF SourceInv, SourceTypes, Numbered
  <2> QED BY <1>2, <2>1
<1>4. Append(SubSeq(args, 1, Len(args) - 1), t) = args
  <2>1. PICK shorter : shorter = SubSeq(args, 1, Len(args) - 1)
    OBVIOUS
  <2>2. /\ shorter \in Seq(Goroutines) /\ Len(shorter) = Len(args) - 1
        /\ \A j \in 1 .. Len(args) - 1 : shorter[j] = args[j]
    BY <1>2, <1>3, <2>1
  <2> QED BY <1>2, <1>3, <2>1, <2>2
<1>5. invocations[m] = SubSeq(args, 1, Len(args) - 1)
  BY <1>2 DEF SourceInv, Source!CallsAreTold
<1>6. invocations' = [invocations EXCEPT ![m] = args]
  BY <1>1, <1>4, <1>5
<1>7. SourceTypes'
  BY <1>1, <1>2, <1>6 DEF SourceInv, SourceTypes
<1>8. Mutexes'
  <2>1. reading' = {u \in Goroutines : pc'[u] = "lock"}
    BY <1>1 DEF SourceInv, SourceTypes, Mutexes
  <2>2. ASSUME NEW k \in Source!Methods, NEW u \in Goroutines
        PROVE  mutex'[k] = u <=> pc'[u] = "record" /\ method'[u] = k
    BY <1>1, <1>2 DEF SourceInv, SourceTypes, Mutexes
  <2> QED BY <2>1, <2>2 DEF Mutexes
<1>9. Numbered'
  <2>1. \A u \in Goroutines : pc'[u] \in {"record", "return"} => pc[u] \in {"record", "return"}
    BY <1>1 DEF SourceInv, SourceTypes
  <2>2. \A u \in Goroutines : pc'[u] = "record" => pc[u] = "record"
    BY <1>1 DEF SourceInv, SourceTypes
  <2> QED BY <1>1, <2>1, <2>2 DEF SourceInv, Numbered
<1>10. Source!CallsAreTold'
  <2>1. /\ invocations'[m] = args /\ mutex'[m] = Nobody
        /\ \A k \in Source!Methods :
             k # m => invocations'[k] = invocations[k] /\ mutex'[k] = mutex[k]
    BY <1>1, <1>2, <1>6 DEF SourceInv, SourceTypes
  <2>2. argsForCall' = argsForCall /\ given' = given
    BY <1>1
  <2> QED BY <2>1, <2>2 DEF SourceInv, Source!CallsAreTold
<1> QED BY <1>7, <1>8, <1>9, <1>10 DEF SourceInv

(* A return goes to the goroutine whose call has its number.               *)
LEMMA ReturnInv ==
  ASSUME SourceConstants, SourceInv, NEW t \in Goroutines, Source!Return(t)
  PROVE  SourceInv'
<1> DEFINE m == method[t]
           i == ret[t].index
<1>1. /\ pc[t] = "return" /\ pc' = [pc EXCEPT ![t] = "idle"]
      /\ given' \in {given, [given EXCEPT ![m][i] = @ \cup {t}]}
      /\ UNCHANGED <<argsForCall, invocations, mutex, reading, locked, method>>
  BY DEF Source!Return, Source!Goto, Source!locks
<1>2. PICK r : r.index = 0 /\ ret' = [ret EXCEPT ![t] = r]
  BY DEF Source!Return, Source!NoReturn
<1>3. /\ m \in Source!Methods /\ i \in Nat /\ i < Len(argsForCall[m])
      /\ argsForCall[m][i + 1] = t
  BY <1>1 DEF SourceInv, SourceTypes, Numbered
<1>4. i \in Source!Indexes
  <2>1. Len(argsForCall[m]) \in Nat /\ Len(argsForCall[m]) <= MaxCalls /\ MaxCalls \in Nat
    BY <1>3 DEF SourceInv, SourceTypes, Numbered, SourceConstants, Source!MaxCallsAssumption
  <2> QED BY <1>3, <2>1 DEF Source!Indexes
<1>5. PICK told \in [Source!Indexes -> SUBSET Goroutines] :
        /\ given' \in {given, [given EXCEPT ![m] = told]}
        /\ \A j \in Source!Indexes : \A u \in told[j] : u \in given[m][j] \/ (j = i /\ u = t)
  <2>1. given[m] \in [Source!Indexes -> SUBSET Goroutines]
    BY <1>3 DEF SourceInv, SourceTypes
  <2>2. PICK told : told = [given[m] EXCEPT ![i] = @ \cup {t}]
    OBVIOUS
  <2>3. told \in [Source!Indexes -> SUBSET Goroutines]
    BY <1>4, <2>1, <2>2
  <2>4. \A j \in Source!Indexes : \A u \in told[j] : u \in given[m][j] \/ (j = i /\ u = t)
    BY <1>4, <2>1, <2>2
  <2>5. given' \in {given, [given EXCEPT ![m] = told]}
    BY <1>1, <2>2
  <2> QED BY <2>3, <2>4, <2>5
<1>6. SourceTypes'
  <2>1. given' \in [Source!Methods -> [Source!Indexes -> SUBSET Goroutines]]
    BY <1>3, <1>5 DEF SourceInv, SourceTypes
  <2> QED BY <1>1, <1>2, <2>1 DEF SourceInv, SourceTypes
<1>7. Mutexes'
  BY <1>1 DEF SourceInv, SourceTypes, Mutexes
<1>8. Numbered'
  <2>1. \A u \in Goroutines :
          pc'[u] \in {"record", "return"} => pc'[u] = pc[u] /\ ret'[u] = ret[u]
    BY <1>1, <1>2 DEF SourceInv, SourceTypes
  <2> QED BY <1>1, <2>1 DEF SourceInv, Numbered
<1>9. Source!CallsAreTold'
  <2>1. \A k \in Source!Methods, j \in Source!Indexes : \A u \in given'[k][j] :
          u \in given[k][j] \/ (k = m /\ j = i /\ u = t)
    <3>1. CASE given' = given
      BY <3>1
    <3>2. CASE given' = [given EXCEPT ![m] = told]
      BY <1>3, <1>5, <3>2 DEF SourceInv, SourceTypes
    <3> QED BY <1>5, <3>1, <3>2
  <2>2. invocations' = invocations /\ mutex' = mutex /\ argsForCall' = argsForCall
    BY <1>1
  <2> QED BY <1>3, <2>1, <2>2 DEF SourceInv, Source!CallsAreTold
<1> QED BY <1>6, <1>7, <1>8, <1>9 DEF SourceInv

(* Invocations moves no more than its own locks.                           *)
LEMMA InvocationsInv ==
  ASSUME SourceConstants, SourceInv, NEW t \in Goroutines,
         Source!StartInvocations(t) \/ Source!LockNext(t) \/ Source!CopyInvocations(t)
  PROVE  SourceInv'
<1>1. UNCHANGED <<argsForCall, invocations, given, mutex, method, ret>>
  BY DEF Source!StartInvocations, Source!LockNext, Source!CopyInvocations, Source!calls
<1>2. PICK label \in {"idle", "lock"} :
        /\ pc[t] \in {"idle", "lock"} /\ pc' = [pc EXCEPT ![t] = label]
        /\ reading' = IF label = "lock" THEN reading \cup {t} ELSE reading \ {t}
  <2>1. CASE Source!StartInvocations(t)
    BY <2>1 DEF Source!StartInvocations, Source!Goto
  <2>2. CASE Source!LockNext(t)
    BY <2>2 DEF Source!LockNext, SourceInv, SourceTypes, Mutexes
  <2>3. CASE Source!CopyInvocations(t)
    BY <2>3 DEF Source!CopyInvocations, Source!Goto
  <2> QED BY <2>1, <2>2, <2>3
<1>3. locked' \in [Goroutines -> 0 .. Len(Order)]
  <2>1. Len(Order) \in Nat
    BY DEF SourceConstants, Source!OrderAssumption
  <2> QED BY <2>1 DEF SourceInv, SourceTypes, Source!StartInvocations, Source!LockNext,
                Source!CopyInvocations
<1>4. SourceTypes'
  BY <1>1, <1>2, <1>3 DEF SourceInv, SourceTypes
<1>5. Mutexes'
  BY <1>1, <1>2 DEF SourceInv, SourceTypes, Mutexes
<1>6. Numbered'
  <2>1. \A u \in Goroutines : pc'[u] \in {"record", "return"} => pc'[u] = pc[u]
    BY <1>2 DEF SourceInv, SourceTypes
  <2> QED BY <1>1, <2>1 DEF SourceInv, Numbered
<1>7. Source!CallsAreTold'
  BY <1>1 DEF SourceInv, Source!CallsAreTold
<1> QED BY <1>4, <1>5, <1>6, <1>7 DEF SourceInv

(* The invariant is inductive.                                             *)
THEOREM SourceInvariance ==
  ASSUME SourceConstants
  PROVE  Source!Spec => []SourceInv
<1>1. SourceInv /\ [Source!Next]_Source!vars => SourceInv'
  <2> SUFFICES ASSUME SourceInv, [Source!Next]_Source!vars PROVE SourceInv'
    OBVIOUS
  <2>1. CASE Source!Next
    <3>1. ASSUME NEW m \in Source!Methods, Source!Calls(m) PROVE SourceInv'
      BY <3>1, SettingsKeepInv DEF Source!Calls, Source!Set, Source!calls, Source!locks
    <3>2. ASSUME NEW m \in Source!Methods, Source!Returns(m) PROVE SourceInv'
      BY <3>2, SettingsKeepInv DEF Source!Returns, Source!Set, Source!calls, Source!locks
    <3>3. ASSUME NEW m \in Source!Methods, NEW i \in 0 .. MaxCalls - 1, Source!ReturnsOnCall(m, i)
          PROVE  SourceInv'
      BY <3>3, SettingsKeepInv DEF Source!ReturnsOnCall, Source!Set, Source!calls, Source!locks
    <3> QED BY <2>1, <3>1, <3>2, <3>3, CallInv, RecordInvocationInv, ReturnInv, InvocationsInv
            DEF Source!Next
  <2>2. CASE UNCHANGED Source!vars
    BY <2>2, SettingsKeepInv DEF Source!vars, Source!calls, Source!locks
  <2> QED BY <2>1, <2>2
<1> QED BY <1>1, SourceInitInv, PTL DEF Source!Spec

(* The records of a fake agree at every moment, and the return that was    *)
(* set for a call goes to the goroutine that made it, for any goroutines,  *)
(* methods and calls (fake_source.go 59-67, 71-73, 242-256).               *)
THEOREM CallsTold ==
  ASSUME SourceConstants
  PROVE  Source!Spec => []Source!CallsAreTold
<1>1. SourceInv => Source!CallsAreTold
  BY DEF SourceInv
<1> QED BY <1>1, SourceInvariance, PTL

(* When everyone who is under way waits for a mutex, some call of          *)
(* Invocations and some call of a method wait for each other: the two ways *)
(* to take the locks are the only ones that can meet crosswise             *)
(* (fake_source.go 57-67, 242-250).                                        *)
THEOREM StuckCrosswise ==
  ASSUME SourceConstants
  PROVE  Source!Spec => []Source!StuckOnlyCrosswise
<1>1. SourceInv => Source!StuckOnlyCrosswise
  <2> SUFFICES ASSUME SourceInv, NEW t \in Goroutines, Source!Busy(t),
                      \A u \in Goroutines : Source!Busy(u) => Source!Waits(u)
               PROVE  \E x, u \in Goroutines :
                        pc[x] = "record" /\ pc[u] = "lock" /\ Order[locked[u] + 1] = method[x]
    BY DEF Source!StuckOnlyCrosswise
  <2>1. PICK u \in Goroutines : pc[u] = "lock"
    BY DEF SourceInv, Mutexes, Source!Waits
  <2>2. locked[u] < Len(Order) /\ mutex[Order[locked[u] + 1]] # Nobody
    BY <2>1 DEF Source!Busy, Source!Waits
  <2>3. Order[locked[u] + 1] \in Source!Methods
    BY <2>2 DEF SourceInv, SourceTypes, SourceConstants, Source!OrderAssumption
  <2>4. PICK x \in Goroutines : mutex[Order[locked[u] + 1]] = x
    BY <2>2, <2>3 DEF SourceInv, SourceTypes
  <2> QED BY <2>1, <2>3, <2>4 DEF SourceInv, Mutexes
<1> QED BY <1>1, SourceInvariance, PTL

-----------------------------------------------------------------------------
(* The fake registry: registry.go.                                         *)

CONSTANTS Sources, Digests, MaxFailures
VARIABLES failNext, order, forceTokenAuthError, blobRequestsCounter, writer, readers, request,
          read, answer, attempt, calls, asked, failed, handled, overlapped

Registry == INSTANCE FakeRegistry

(* Values of the registry's variables.                                     *)
RegistryTypes ==
  /\ failNext \in [Registry!Failing -> Int]
  /\ asked \in [Registry!Failing -> Nat] /\ failed \in [Registry!Failing -> Nat]
  /\ order \in [Digests -> -1 .. 2]
  /\ blobRequestsCounter \in [Digests -> Nat] /\ handled \in [Digests -> Nat]
  /\ pc \in [Sources -> {"idle", "fail?", "read", "write", "count", "proxy", "rlock",
                         "rUnlock", "lock", "unlock"}]
  /\ request \in [Sources -> [kind : Registry!Kinds, digest : Digests]]
  /\ read \in [Sources -> Int]
  /\ answer \in [Sources -> {"none", "teapot", "handled", "proxied", "unauthorized"}]
  /\ attempt \in [Sources -> Nat] /\ calls \in [Sources -> Nat]
  /\ overlapped \in SUBSET Registry!Kinds

(* A handler is where requests of its kind get, and only a source that has *)
(* made a call has a request: the test is done with its settings by then.  *)
Handlers ==
  /\ \A s \in Sources :
       /\ pc[s] \in {"fail?", "read", "write"} => request[s].kind \in Registry!Failing
       /\ pc[s] \in {"count", "rlock", "rUnlock"} => request[s].kind = "blob"
       /\ pc[s] = "proxy" => request[s].kind = "manifest"
       /\ pc[s] \in {"lock", "unlock"} => request[s].kind \notin Registry!Failing
       /\ pc[s] # "idle" \/ answer[s] # "none" => calls[s] > 0
  /\ Registry!Unused =>
       /\ \A k \in Registry!Failing : failed[k] = 0
       /\ \A d \in Digests : blobRequestsCounter[d] = 0 /\ handled[d] = 0

(* A decrement that is lost leaves the counter too high, never too low for *)
(* the failures that are due; and who got past the check found none due.   *)
FailuresDue ==
  /\ \A k \in Registry!Failing : failNext[k] + failed[k] >= asked[k]
  /\ \A s \in Sources :
       LET k == request[s].kind IN
         /\ pc[s] = "write" => read[s] + failed[k] >= asked[k]
         /\ \/ pc[s] \in {"count", "proxy", "rlock", "rUnlock"}
            \/ k \in Registry!Failing /\ answer[s] \in {"handled", "proxied"}
            => failed[k] >= asked[k]

(* No decrement is lost of requests that come one by one.                  *)
OneByOne ==
  \A k \in Registry!Failing \ overlapped :
    /\ \A s, o \in Sources :
         pc[s] # "idle" /\ request[s].kind = k /\ pc[o] # "idle" /\ request[o].kind = k => s = o
    /\ failNext[k] >= 0 /\ failNext[k] + failed[k] = asked[k]
    /\ \A s \in Sources : request[s].kind = k =>
         /\ pc[s] \in {"read", "write"} => failNext[k] > 0
         /\ pc[s] = "write" => read[s] = failNext[k]

(* Each attempt but the last was answered by one of the failures.          *)
Attempts ==
  \A s \in Sources :
    LET k == request[s].kind IN
      k \in Registry!Failing =>
        /\ attempt[s] <= failed[k] + 1
        /\ answer[s] = "teapot" => attempt[s] <= failed[k]

(* How often a handler with this order has answered, of so many requests.  *)
Turn(n, count) ==
  IF n = -1 THEN 0 ELSE IF n = 0 THEN count ELSE IF count >= n THEN 1 ELSE 0

(* A request that has been counted has its turn before the next one is.    *)
Turns ==
  /\ \A s \in Sources : pc[s] = "rlock" => blobRequestsCounter[request[s].digest] > 0
  /\ "blob" \notin overlapped =>
       \A d \in Digests :
         /\ (\A s \in Sources : pc[s] = "rlock" => request[s].digest # d) =>
              handled[d] = Turn(order[d], blobRequestsCounter[d])
         /\ \A s \in Sources : pc[s] = "rlock" /\ request[s].digest = d =>
              handled[d] = Turn(order[d], blobRequestsCounter[d] - 1)

(* The inductive invariant of the registry.                                *)
RegistryInv == RegistryTypes /\ Handlers /\ FailuresDue /\ OneByOne /\ Attempts /\ Turns

(* The assumptions that FakeRegistry makes.                                *)
RegistryConstants == Registry!BoundsAssumption /\ Registry!NobodyAssumption

(* A new registry, which nobody has asked for anything.                    *)
LEMMA RegistryInitInv ==
  ASSUME Registry!Init
  PROVE  RegistryInv
<1>1. RegistryTypes
  BY DEF Registry!Init, RegistryTypes, Registry!Failing, Registry!Kinds
<1>2. /\ \A s \in Sources : request[s].kind = "token" /\ pc[s] = "idle" /\ answer[s] = "none"
      /\ "token" \notin Registry!Failing
  BY DEF Registry!Init, Registry!Failing
<1>3. Handlers /\ OneByOne /\ Attempts /\ FailuresDue /\ Turns
  BY <1>2 DEF Registry!Init, Handlers, OneByOne, Attempts, FailuresDue, Turns, Turn,
         Registry!Failing
<1> QED BY <1>1, <1>3 DEF RegistryInv

(* The settings are made before there is anything to count.                *)
LEMMA SettingsInv ==
  ASSUME RegistryConstants, RegistryInv,
         \/ \E k \in Registry!Failing, n \in 0 .. MaxFailures : Registry!FailNextRequests(k, n)
         \/ Registry!ForceTokenAuthError
         \/ \E d \in Digests, n \in 0 .. 2 : Registry!WhenGettingBlob(d, n)
  PROVE  RegistryInv'
<1>1. /\ Registry!Unused
      /\ UNCHANGED <<blobRequestsCounter, pc, read, answer, request, attempt, calls, failed,
                     handled, overlapped>>
  BY DEF Registry!FailNextRequests, Registry!ForceTokenAuthError, Registry!WhenGettingBlob,
         Registry!mutex, Registry!client, Registry!ghosts
<1>2. /\ \A s \in Sources : pc[s] = "idle" /\ answer[s] = "none"
      /\ \A k \in Registry!Failing : failed[k] = 0
      /\ \A d \in Digests : blobRequestsCounter[d] = 0 /\ handled[d] = 0
  BY <1>1 DEF RegistryInv, RegistryTypes, Handlers, Registry!Unused
<1>3. /\ failNext' \in [Registry!Failing -> Int] /\ asked' \in [Registry!Failing -> Nat]
      /\ \A k \in Registry!Failing \ overlapped : failNext'[k] >= 0 /\ failNext'[k] = asked'[k]
      /\ \A k \in Registry!Failing : failNext'[k] >= asked'[k]
  <2>1. ASSUME NEW k \in Registry!Failing, NEW n \in 0 .. MaxFailures,
               Registry!FailNextRequests(k, n)
        PROVE  <1>3!:
    <3>1. n \in Nat /\ MaxFailures \in Nat
      BY DEF RegistryConstants, Registry!BoundsAssumption
    <3> QED BY <1>2, <2>1, <3>1 DEF Registry!FailNextRequests, RegistryInv, RegistryTypes,
               OneByOne, FailuresDue
  <2>2. CASE UNCHANGED <<failNext, asked>>
    BY <1>2, <2>2 DEF RegistryInv, RegistryTypes, OneByOne, FailuresDue
  <2> QED BY <2>1, <2>2 DEF Registry!ForceTokenAuthError, Registry!WhenGettingBlob,
             Registry!ghosts
<1>4. order' \in [Digests -> -1 .. 2]
  BY DEF Registry!FailNextRequests, Registry!ForceTokenAuthError, Registry!WhenGettingBlob,
         RegistryInv, RegistryTypes
<1>5. RegistryTypes'
  BY <1>1, <1>3, <1>4 DEF RegistryInv, RegistryTypes
<1>6. Handlers' /\ Attempts'
  BY <1>1 DEF RegistryInv, Handlers, Attempts, Registry!Unused
<1>7. FailuresDue' /\ OneByOne'
  BY <1>1, <1>2, <1>3 DEF RegistryInv, RegistryTypes, FailuresDue, OneByOne
<1>8. Turns'
  BY <1>1, <1>2, <1>4 DEF RegistryInv, Turns, Turn
<1> QED BY <1>5, <1>6, <1>7, <1>8 DEF RegistryInv

(* A request that is sent while another one of its kind is under way is    *)
(* noted, and a retry comes after one more failure than the attempt before.*)
LEMMA SendInv ==
  ASSUME RegistryInv, NEW s \in Sources, Registry!Send(s)
  PROVE  RegistryInv'
<1>1. UNCHANGED <<failNext, order, blobRequestsCounter, read, asked, failed, handled>>
  BY DEF Registry!Send, Registry!setUp
<1>2. pc[s] = "idle" /\ answer' = [answer EXCEPT ![s] = "none"]
  BY DEF Registry!Send, Registry!Answer
<1>3. /\ request' \in [Sources -> [kind : Registry!Kinds, digest : Digests]]
      /\ attempt' \in [Sources -> Nat] /\ calls' \in [Sources -> Nat]
      /\ \A o \in Sources \ {s} :
           request'[o] = request[o] /\ attempt'[o] = attempt[o] /\ calls'[o] = calls[o]
      /\ calls'[s] > 0
      /\ \/ attempt'[s] = 1
         \/ request'[s] = request[s] /\ answer[s] = "teapot" /\ attempt'[s] = attempt[s] + 1
  <2>1. ASSUME NEW k \in Registry!Kinds, NEW d \in Digests,
               request' = [request EXCEPT ![s] = [kind |-> k, digest |-> d]],
               calls' = [calls EXCEPT ![s] = @ + 1], attempt' = [attempt EXCEPT ![s] = 1]
        PROVE  <1>3!:
    BY <2>1 DEF RegistryInv, RegistryTypes
  <2>2. CASE answer[s] = "teapot" /\ attempt' = [attempt EXCEPT ![s] = @ + 1]
             /\ UNCHANGED <<calls, request>>
    BY <2>2 DEF RegistryInv, RegistryTypes, Handlers
  <2> QED BY <2>1, <2>2 DEF Registry!Send
<1>4. PICK k \in Registry!Kinds : k = request'[s].kind
  BY <1>3
<1>5. /\ pc' = [pc EXCEPT ![s] = IF k \in Registry!Failing THEN "fail?" ELSE "lock"]
      /\ overlapped' = IF \E o \in Sources \ {s} : pc[o] # "idle" /\ request[o].kind = k
                       THEN overlapped \cup {k} ELSE overlapped
  BY <1>4 DEF Registry!Send, Registry!Goto
<1>6. RegistryTypes'
  BY <1>1, <1>2, <1>3, <1>5 DEF RegistryInv, RegistryTypes
<1>7. Handlers'
  <2>1. ~Registry!Unused'
    BY <1>3 DEF Registry!Unused
  <2>2. ASSUME NEW o \in Sources
        PROVE  /\ pc'[o] \in {"fail?", "read", "write"} => request'[o].kind \in Registry!Failing
               /\ pc'[o] \in {"count", "rlock", "rUnlock"} => request'[o].kind = "blob"
               /\ pc'[o] = "proxy" => request'[o].kind = "manifest"
               /\ pc'[o] \in {"lock", "unlock"} => request'[o].kind \notin Registry!Failing
               /\ pc'[o] # "idle" \/ answer'[o] # "none" => calls'[o] > 0
    <3>1. CASE o = s
      BY <1>2, <1>3, <1>4, <1>5, <3>1 DEF RegistryInv, RegistryTypes
    <3>2. CASE o # s
      BY <1>2, <1>3, <1>5, <3>2 DEF RegistryInv, RegistryTypes, Handlers
    <3> QED BY <3>1, <3>2
  <2> QED BY <2>1, <2>2 DEF Handlers
<1>8. FailuresDue'
  <2>1. ASSUME NEW o \in Sources
        PROVE  /\ pc'[o] = "write" =>
                    read'[o] + failed'[request'[o].kind] >= asked'[request'[o].kind]
               /\ \/ pc'[o] \in {"count", "proxy", "rlock", "rUnlock"}
                  \/ request'[o].kind \in Registry!Failing /\ answer'[o] \in {"handled", "proxied"}
                  => failed'[request'[o].kind] >= asked'[request'[o].kind]
    <3>1. CASE o = s
      BY <1>2, <1>5, <3>1 DEF RegistryInv, RegistryTypes
    <3>2. CASE o # s
      <4>1. request'[o] = request[o] /\ pc'[o] = pc[o] /\ answer'[o] = answer[o]
        BY <1>2, <1>3, <1>5, <3>2 DEF RegistryInv, RegistryTypes
      <4> QED BY <1>1, <4>1 DEF RegistryInv, FailuresDue
    <3> QED BY <3>1, <3>2
  <2> QED BY <1>1, <2>1 DEF RegistryInv, FailuresDue
<1>9. OneByOne'
  <2> SUFFICES ASSUME NEW j \in Registry!Failing \ overlapped'
               PROVE  /\ \A o, p \in Sources :
                           pc'[o] # "idle" /\ request'[o].kind = j
                           /\ pc'[p] # "idle" /\ request'[p].kind = j => o = p
                      /\ failNext'[j] >= 0 /\ failNext'[j] + failed'[j] = asked'[j]
                      /\ \A o \in Sources : request'[o].kind = j =>
                           /\ pc'[o] \in {"read", "write"} => failNext'[j] > 0
                           /\ pc'[o] = "write" => read'[o] = failNext'[j]
    BY DEF OneByOne
  <2>1. /\ j \in Registry!Failing \ overlapped
        /\ j = k => \A o \in Sources \ {s} : ~(pc[o] # "idle" /\ request[o].kind = k)
    BY <1>5
  <2>2. \A o \in Sources \ {s} : request'[o] = request[o] /\ pc'[o] = pc[o]
    BY <1>3, <1>5 DEF RegistryInv, RegistryTypes
  <2>3. ASSUME NEW o \in Sources, pc'[o] # "idle", request'[o].kind = j,
               NEW p \in Sources, pc'[p] # "idle", request'[p].kind = j
        PROVE  o = p
    BY <1>4, <2>1, <2>2, <2>3 DEF RegistryInv, OneByOne
  <2>4. ASSUME NEW o \in Sources, request'[o].kind = j
        PROVE  /\ pc'[o] \in {"read", "write"} => failNext'[j] > 0
               /\ pc'[o] = "write" => read'[o] = failNext'[j]
    <3>1. CASE o = s
      BY <1>5, <3>1 DEF RegistryInv, RegistryTypes
    <3>2. CASE o # s
      BY <1>1, <2>1, <2>2, <2>4, <3>2 DEF RegistryInv, OneByOne
    <3> QED BY <3>1, <3>2
  <2>5. failNext'[j] >= 0 /\ failNext'[j] + failed'[j] = asked'[j]
    BY <1>1, <2>1 DEF RegistryInv, OneByOne
  <2> QED BY <2>3, <2>4, <2>5
<1>10. Attempts'
  <2> SUFFICES ASSUME NEW o \in Sources, request'[o].kind \in Registry!Failing
               PROVE  /\ attempt'[o] <= failed'[request'[o].kind] + 1
                      /\ answer'[o] = "teapot" => attempt'[o] <= failed'[request'[o].kind]
    BY DEF Attempts
  <2>1. CASE o = s
    <3>1. answer'[s] = "none" /\ failed' = failed /\ failed[request'[s].kind] \in Nat
      BY <1>1, <1>2, <2>1 DEF RegistryInv, RegistryTypes
    <3>2. attempt'[s] <= failed[request'[s].kind] + 1
      BY <1>3, <2>1, <3>1 DEF RegistryInv, RegistryTypes, Attempts
    <3> QED BY <2>1, <3>1, <3>2
  <2>2. CASE o # s
    BY <1>1, <1>2, <1>3, <2>2 DEF RegistryInv, RegistryTypes, Attempts
  <2> QED BY <2>1, <2>2
<1>11. Turns'
  <2>1. \A o \in Sources : pc'[o] = "rlock" <=> pc[o] = "rlock"
    BY <1>2, <1>5 DEF RegistryInv, RegistryTypes
  <2>2. \A o \in Sources : pc[o] = "rlock" => request'[o] = request[o]
    BY <1>2, <1>3
  <2>3. "blob" \notin overlapped' => "blob" \notin overlapped
    BY <1>5
  <2> QED BY <1>1, <2>1, <2>2, <2>3 DEF RegistryInv, Turns
<1> QED BY <1>6, <1>7, <1>8, <1>9, <1>10, <1>11 DEF RegistryInv

(* Who gets past the check finds no failure due.                           *)
LEMMA CheckFailNextInv ==
  ASSUME RegistryInv, NEW s \in Sources, Registry!CheckFailNext(s)
  PROVE  RegistryInv'
<1> DEFINE k == request[s].kind
<1>1. /\ pc[s] = "fail?"
      /\ pc' = [pc EXCEPT ![s] = IF failNext[k] > 0 THEN "read"
                                 ELSE IF k = "blob" THEN "count" ELSE "proxy"]
      /\ UNCHANGED <<failNext, order, blobRequestsCounter, read, answer, request, attempt, calls,
                     asked, failed, handled, overlapped>>
  BY DEF Registry!CheckFailNext, Registry!Goto, Registry!Kind, Registry!setUp, Registry!client,
         Registry!ghosts
<1>2. k \in Registry!Failing /\ (k # "blob" => k = "manifest")
  BY <1>1 DEF RegistryInv, Handlers, Registry!Failing
<1>3. failNext[k] \in Int /\ failed[k] \in Nat /\ asked[k] \in Nat
  BY <1>2 DEF RegistryInv, RegistryTypes
<1>4. RegistryTypes'
  BY <1>1 DEF RegistryInv, RegistryTypes
<1>5. Handlers' /\ Attempts' /\ Turns'
  BY <1>1, <1>2 DEF RegistryInv, RegistryTypes, Handlers, Attempts, Turns, Registry!Unused
<1>6. FailuresDue'
  <2>1. failNext[k] <= 0 => failed[k] >= asked[k]
    BY <1>2, <1>3 DEF RegistryInv, FailuresDue
  <2> QED BY <1>1, <1>3, <2>1 DEF RegistryInv, RegistryTypes, FailuresDue
<1>7. OneByOne'
  BY <1>1, <1>3 DEF RegistryInv, RegistryTypes, OneByOne
<1> QED BY <1>4, <1>5, <1>6, <1>7 DEF RegistryInv

(* The counter as it is read is no lower than what is due.                 *)
LEMMA ReadFailNextInv ==
  ASSUME RegistryInv, NEW s \in Sources, Registry!ReadFailNext(s)
  PROVE  RegistryInv'
<1> DEFINE k == request[s].kind
<1>1. /\ pc[s] = "read" /\ pc' = [pc EXCEPT ![s] = "write"]
      /\ read' = [read EXCEPT ![s] = failNext[k]]
      /\ UNCHANGED <<failNext, order, blobRequestsCounter, answer, request, attempt, calls,
                     asked, failed, handled, overlapped>>
  BY DEF Registry!ReadFailNext, Registry!Goto, Registry!Kind, Registry!setUp, Registry!client,
         Registry!ghosts
<1>2. k \in Registry!Failing
  BY <1>1 DEF RegistryInv, Handlers
<1>3. failNext[k] \in Int /\ failed[k] \in Nat /\ asked[k] \in Nat
  BY <1>2 DEF RegistryInv, RegistryTypes
<1>4. RegistryTypes'
  BY <1>1, <1>3 DEF RegistryInv, RegistryTypes
<1>5. Handlers' /\ Attempts' /\ Turns'
  BY <1>1, <1>2 DEF RegistryInv, RegistryTypes, Handlers, Attempts, Turns, Registry!Unused
<1>6. FailuresDue'
  BY <1>1, <1>2, <1>3 DEF RegistryInv, RegistryTypes, FailuresDue
<1>7. OneByOne'
  BY <1>1, <1>3 DEF RegistryInv, RegistryTypes, OneByOne
<1> QED BY <1>4, <1>5, <1>6, <1>7 DEF RegistryInv

(* A write takes one off what was read, and one failure is handed out.     *)
LEMMA WriteFailNextInv ==
  ASSUME RegistryInv, NEW s \in Sources, Registry!WriteFailNext(s)
  PROVE  RegistryInv'
<1> DEFINE k == request[s].kind
<1>1. /\ pc[s] = "write" /\ pc' = [pc EXCEPT ![s] = "idle"]
      /\ failNext' = [failNext EXCEPT ![k] = read[s] - 1]
      /\ failed' = [failed EXCEPT ![k] = @ + 1]
      /\ read' = [read EXCEPT ![s] = 0]
      /\ answer' = [answer EXCEPT ![s] = "teapot"]
      /\ UNCHANGED <<order, blobRequestsCounter, request, attempt, calls, asked, handled,
                     overlapped>>
  BY DEF Registry!WriteFailNext, Registry!Goto, Registry!Answer, Registry!Kind, Registry!client
<1>2. k \in Registry!Failing /\ calls[s] > 0 /\ ~Registry!Unused
  BY <1>1 DEF RegistryInv, RegistryTypes, Handlers, Registry!Unused
<1>3. failNext[k] \in Int /\ failed[k] \in Nat /\ asked[k] \in Nat /\ read[s] \in Int
  BY <1>2 DEF RegistryInv, RegistryTypes
<1>4. /\ failNext'[k] = read[s] - 1 /\ failed'[k] = failed[k] + 1
      /\ \A j \in Registry!Failing \ {k} : failNext'[j] = failNext[j] /\ failed'[j] = failed[j]
  BY <1>1, <1>2 DEF RegistryInv, RegistryTypes
<1>5. RegistryTypes'
  <2>1. failNext \in [Registry!Failing -> Int] /\ failed \in [Registry!Failing -> Nat]
    BY DEF RegistryInv, RegistryTypes
  <2>2. PICK n \in Int, m \in Nat :
          failNext' = [failNext EXCEPT ![k] = n] /\ failed' = [failed EXCEPT ![k] = m]
    <3>1. read[s] - 1 \in Int /\ failed[k] + 1 \in Nat
      BY <1>3
    <3> QED BY <1>1, <3>1
  <2>3. failNext' \in [Registry!Failing -> Int] /\ failed' \in [Registry!Failing -> Nat]
    BY <2>1, <2>2
  <2> QED BY <1>1, <2>3 DEF RegistryInv, RegistryTypes
<1>6. Handlers'
  BY <1>1, <1>2 DEF RegistryInv, RegistryTypes, Handlers, Registry!Unused
<1>7. FailuresDue'
  <2>1. \A j \in Registry!Failing : failNext'[j] + failed'[j] >= asked[j]
    BY <1>1, <1>3, <1>4 DEF RegistryInv, FailuresDue
  <2>2. ASSUME NEW o \in Sources
        PROVE  /\ pc'[o] = "write" => read[o] + failed'[request[o].kind] >= asked[request[o].kind]
               /\ \/ pc'[o] \in {"count", "proxy", "rlock", "rUnlock"}
                  \/ request[o].kind \in Registry!Failing /\ answer'[o] \in {"handled", "proxied"}
                  => failed'[request[o].kind] >= asked[request[o].kind]
    BY <1>1, <1>3, <1>4 DEF RegistryInv, RegistryTypes, Handlers, FailuresDue, Registry!Failing
  <2>3. \A o \in Sources : pc'[o] = "write" => read'[o] = read[o]
    BY <1>1 DEF RegistryInv, RegistryTypes
  <2> QED BY <1>1, <2>1, <2>2, <2>3 DEF FailuresDue
<1>8. OneByOne'
  BY <1>1, <1>3, <1>4 DEF RegistryInv, RegistryTypes, OneByOne
<1>9. Attempts'
  BY <1>1, <1>3, <1>4 DEF RegistryInv, RegistryTypes, Attempts
<1>10. Turns'
  BY <1>1 DEF RegistryInv, RegistryTypes, Turns
<1> QED BY <1>5, <1>6, <1>7, <1>8, <1>9, <1>10 DEF RegistryInv

(* Of blobs requested one by one, the last is the one that is counted.     *)
LEMMA CountBlobInv ==
  ASSUME RegistryInv, NEW s \in Sources, Registry!CountBlob(s)
  PROVE  RegistryInv'
<1> DEFINE d == request[s].digest
<1>1. /\ pc[s] = "count" /\ pc' = [pc EXCEPT ![s] = "rlock"]
      /\ blobRequestsCounter' = [blobRequestsCounter EXCEPT ![d] = @ + 1]
      /\ UNCHANGED <<failNext, order, read, answer, request, attempt, calls, asked, failed,
                     handled, overlapped>>
  BY DEF Registry!CountBlob, Registry!Goto, Registry!Digest, Registry!setUp, Registry!client,
         Registry!ghosts
<1>2. /\ request[s].kind = "blob" /\ calls[s] > 0 /\ ~Registry!Unused
      /\ d \in Digests /\ blobRequestsCounter[d] \in Nat
  BY <1>1 DEF RegistryInv, RegistryTypes, Handlers, Registry!Unused
<1>3. /\ blobRequestsCounter'[d] = blobRequestsCounter[d] + 1
      /\ \A e \in Digests \ {d} : blobRequestsCounter'[e] = blobRequestsCounter[e]
  BY <1>1, <1>2 DEF RegistryInv, RegistryTypes
<1>4. RegistryTypes'
  BY <1>1, <1>2 DEF RegistryInv, RegistryTypes
<1>5. Handlers' /\ Attempts' /\ OneByOne' /\ FailuresDue'
  BY <1>1, <1>2 DEF RegistryInv, RegistryTypes, Handlers, Attempts, OneByOne, FailuresDue,
         Registry!Unused
<1>6. Turns'
  <2>1. \A o \in Sources : pc'[o] = "rlock" => blobRequestsCounter'[request'[o].digest] > 0
    BY <1>1, <1>2, <1>3 DEF RegistryInv, RegistryTypes, Turns
  <2>2. ASSUME "blob" \notin overlapped', NEW e \in Digests
        PROVE  /\ (\A o \in Sources : pc'[o] = "rlock" => request'[o].digest # e) =>
                    handled'[e] = Turn(order'[e], blobRequestsCounter'[e])
               /\ \A o \in Sources : pc'[o] = "rlock" /\ request'[o].digest = e =>
                    handled'[e] = Turn(order'[e], blobRequestsCounter'[e] - 1)
    <3>1. \A o \in Sources : pc[o] = "rlock" => o = s
      BY <1>1, <1>2, <2>2 DEF RegistryInv, OneByOne, Handlers, Registry!Failing
    <3>2. handled[e] = Turn(order[e], blobRequestsCounter[e])
      BY <1>1, <2>2, <3>1 DEF RegistryInv, Turns
    <3>3. pc'[s] = "rlock" /\ \A o \in Sources \ {s} : pc'[o] # "rlock"
      BY <1>1, <3>1 DEF RegistryInv, RegistryTypes
    <3>4. CASE e = d
      <4>1. blobRequestsCounter'[e] - 1 = blobRequestsCounter[e]
        BY <1>2, <1>3, <3>4
      <4> QED BY <1>1, <3>2, <3>3, <3>4, <4>1
    <3>5. CASE e # d
      BY <1>1, <1>3, <3>2, <3>3, <3>5
    <3> QED BY <3>4, <3>5
  <2> QED BY <2>1, <2>2 DEF Turns
<1> QED BY <1>4, <1>5, <1>6 DEF RegistryInv

(* What Turn says of one more request.                                     *)
LEMMA OneMoreTurn ==
  ASSUME NEW n \in -1 .. 2, NEW count \in Nat \ {0}
  PROVE  Turn(n, count) = IF n \in {0, count} THEN Turn(n, count - 1) + 1 ELSE Turn(n, count - 1)
BY DEF Turn

(* The request that was counted is the one that has its turn.              *)
LEMMA ChooseHandlerInv ==
  ASSUME RegistryInv, NEW s \in Sources, Registry!ChooseHandler(s)
  PROVE  RegistryInv'
<1> DEFINE d == request[s].digest
           count == blobRequestsCounter[d]
<1>1. /\ pc[s] = "rlock" /\ pc' = [pc EXCEPT ![s] = "rUnlock"]
      /\ UNCHANGED <<failNext, order, blobRequestsCounter, read, request, attempt, calls, asked,
                     failed, overlapped>>
  BY DEF Registry!ChooseHandler, Registry!Goto, Registry!setUp, Registry!client
<1>2. PICK what \in {"handled", "proxied"} : answer' = [answer EXCEPT ![s] = what]
  BY DEF Registry!ChooseHandler, Registry!Answer
<1>3. handled' = IF order[d] \in {0, count} THEN [handled EXCEPT ![d] = @ + 1] ELSE handled
  BY DEF Registry!ChooseHandler, Registry!Digest
<1>4. /\ request[s].kind = "blob" /\ calls[s] > 0 /\ ~Registry!Unused
      /\ d \in Digests /\ count \in Nat \ {0} /\ order[d] \in -1 .. 2 /\ handled[d] \in Nat
  BY <1>1 DEF RegistryInv, RegistryTypes, Handlers, Turns, Registry!Unused
<1>5. /\ handled' \in [Digests -> Nat]
      /\ \A e \in Digests \ {d} : handled'[e] = handled[e]
      /\ handled'[d] = IF order[d] \in {0, count} THEN handled[d] + 1 ELSE handled[d]
  BY <1>3, <1>4 DEF RegistryInv, RegistryTypes
<1>6. RegistryTypes'
  BY <1>1, <1>2, <1>5 DEF RegistryInv, RegistryTypes
<1>7. Handlers' /\ Attempts' /\ OneByOne'
  BY <1>1, <1>2, <1>4 DEF RegistryInv, RegistryTypes, Handlers, Attempts, OneByOne,
         Registry!Unused
<1>8. FailuresDue'
  BY <1>1, <1>2 DEF RegistryInv, RegistryTypes, FailuresDue
<1>9. Turns'
  <2>1. \A o \in Sources : pc'[o] = "rlock" => blobRequestsCounter'[request'[o].digest] > 0
    BY <1>1 DEF RegistryInv, RegistryTypes, Turns
  <2>2. ASSUME "blob" \notin overlapped', NEW e \in Digests
        PROVE  /\ (\A o \in Sources : pc'[o] = "rlock" => request'[o].digest # e) =>
                    handled'[e] = Turn(order'[e], blobRequestsCounter'[e])
               /\ \A o \in Sources : pc'[o] = "rlock" /\ request'[o].digest = e =>
                    handled'[e] = Turn(order'[e], blobRequestsCounter'[e] - 1)
    <3>1. \A o \in Sources : pc[o] = "rlock" => o = s
      BY <1>1, <1>4, <2>2 DEF RegistryInv, OneByOne, Handlers, Registry!Failing
    <3>2. \A o \in Sources : pc'[o] # "rlock"
      BY <1>1, <3>1 DEF RegistryInv, RegistryTypes
    <3>3. CASE e = d
      <4>1. handled[d] = Turn(order[d], count - 1)
        BY <1>1, <1>4, <2>2 DEF RegistryInv, Turns
      <4>2. handled'[d] = Turn(order[d], count)
        BY <1>4, <1>5, <4>1, OneMoreTurn
      <4> QED BY <1>1, <3>2, <3>3, <4>2
    <3>4. CASE e # d
      <4>1. handled[e] = Turn(order[e], blobRequestsCounter[e])
        BY <1>1, <2>2, <3>1, <3>4 DEF RegistryInv, Turns
      <4> QED BY <1>1, <1>5, <3>2, <3>4, <4>1
    <3> QED BY <3>3, <3>4
  <2> QED BY <2>1, <2>2 DEF Turns
<1> QED BY <1>6, <1>7, <1>8, <1>9 DEF RegistryInv

(* The last steps of the handlers count nothing.                           *)
LEMMA AnsweredInv ==
  ASSUME RegistryInv, NEW s \in Sources,
         \/ Registry!ProxyManifest(s) \/ Registry!ServeBlob(s)
         \/ Registry!LockAll(s) \/ Registry!ServeToken(s)
  PROVE  RegistryInv'
<1>1. UNCHANGED <<failNext, order, blobRequestsCounter, read, request, attempt, calls, asked,
                  failed, handled, overlapped>>
  BY DEF Registry!ProxyManifest, Registry!ServeBlob, Registry!LockAll, Registry!ServeToken,
         Registry!setUp, Registry!client, Registry!ghosts
<1>2. PICK label \in {"idle", "unlock"} :
        /\ pc' = [pc EXCEPT ![s] = label]
        /\ pc[s] \in {"proxy", "rUnlock", "lock", "unlock"}
        /\ label = "unlock" => pc[s] = "lock"
  <2>1. CASE Registry!ProxyManifest(s)
    BY <2>1 DEF Registry!ProxyManifest, Registry!Goto
  <2>2. CASE Registry!ServeBlob(s)
    BY <2>2 DEF Registry!ServeBlob, Registry!Goto
  <2>3. CASE Registry!LockAll(s)
    BY <2>3 DEF Registry!LockAll, Registry!Goto
  <2>4. CASE Registry!ServeToken(s)
    BY <2>4 DEF Registry!ServeToken, Registry!Goto
  <2> QED BY <2>1, <2>2, <2>3, <2>4
<1>3. PICK what \in {"none", "teapot", "handled", "proxied", "unauthorized"} :
        /\ answer' = [answer EXCEPT ![s] = what]
        /\ \/ what = answer[s]
           \/ pc[s] \in {"proxy", "unlock"} /\ what \in {"proxied", "unauthorized"}
  <2>1. CASE UNCHANGED answer
    BY <2>1 DEF RegistryInv, RegistryTypes
  <2>2. CASE Registry!ProxyManifest(s)
    BY <2>2 DEF Registry!ProxyManifest, Registry!Answer
  <2>3. CASE Registry!ServeToken(s)
    BY <2>3 DEF Registry!ServeToken, Registry!Answer
  <2> QED BY <2>1, <2>2, <2>3 DEF Registry!ServeBlob, Registry!LockAll
<1>4. calls[s] > 0 /\ ~Registry!Unused
  BY <1>2 DEF RegistryInv, RegistryTypes, Handlers, Registry!Unused
<1>5. RegistryTypes'
  BY <1>1, <1>2, <1>3 DEF RegistryInv, RegistryTypes
<1>6. Handlers'
  BY <1>1, <1>2, <1>3, <1>4 DEF RegistryInv, RegistryTypes, Handlers, Registry!Unused
<1>7. FailuresDue'
  BY <1>1, <1>2, <1>3 DEF RegistryInv, RegistryTypes, Handlers, FailuresDue
<1>8. OneByOne' /\ Attempts' /\ Turns'
  BY <1>1, <1>2, <1>3 DEF RegistryInv, RegistryTypes, OneByOne, Attempts, Turns
<1> QED BY <1>5, <1>6, <1>7, <1>8 DEF RegistryInv

(* The invariant is inductive.                                             *)
THEOREM RegistryInvariance ==
  ASSUME RegistryConstants
  PROVE  Registry!Spec => []RegistryInv
<1>1. RegistryInv /\ [Registry!Next]_Registry!vars => RegistryInv'
  <2> SUFFICES ASSUME RegistryInv, [Registry!Next]_Registry!vars PROVE RegistryInv'
    OBVIOUS
  <2>1. CASE Registry!Next
    BY <2>1, SettingsInv, SendInv, CheckFailNextInv, ReadFailNextInv, WriteFailNextInv,
       CountBlobInv, ChooseHandlerInv, AnsweredInv
       DEF Registry!Next, Registry!Serve
  <2>2. CASE UNCHANGED Registry!vars
    BY <2>2 DEF Registry!vars, Registry!setUp, Registry!mutex, Registry!client,
          Registry!ghosts, RegistryInv, RegistryTypes, Handlers, FailuresDue, OneByOne, Attempts,
          Turns, Registry!Unused
  <2> QED BY <2>1, <2>2
<1> QED BY <1>1, RegistryInitInv, PTL DEF Registry!Spec

(* Nobody gets through before the failures that were asked for have been   *)
(* handed out, whatever decrements are lost; and requests that come one by *)
(* one get no failure more (registry.go 105-106, 116-117;                  *)
(* layer_source_docker_test.go 187, 498).                                  *)
THEOREM FailuresComeAsAsked ==
  ASSUME RegistryConstants
  PROVE  Registry!Spec => []Registry!FailuresAsAsked
<1>1. RegistryInv => Registry!FailuresAsAsked
  <2> SUFFICES ASSUME RegistryInv, NEW k \in Registry!Failing
               PROVE  /\ \A s \in Sources :
                           request[s].kind = k /\ answer[s] \in {"handled", "proxied"} =>
                             failed[k] >= asked[k]
                      /\ k \notin overlapped => failed[k] <= asked[k]
                      /\ k \notin overlapped /\ asked[k] < 3 =>
                           \A s \in Sources :
                             request[s].kind = k /\ answer[s] = "teapot" => attempt[s] < 3
    BY DEF Registry!FailuresAsAsked, Registry!Kind, Registry!MAX_DOCKER_RETRIES
  <2>1. failed[k] \in Nat /\ asked[k] \in Nat /\ failNext[k] \in Int
    BY DEF RegistryInv, RegistryTypes
  <2>2. k \notin overlapped => failed[k] <= asked[k]
    BY <2>1 DEF RegistryInv, OneByOne
  <2>3. \A s \in Sources :
          request[s].kind = k /\ answer[s] = "teapot" =>
            attempt[s] \in Nat /\ attempt[s] <= failed[k]
    BY DEF RegistryInv, RegistryTypes, Attempts
  <2>4. \A s \in Sources :
          request[s].kind = k /\ answer[s] \in {"handled", "proxied"} => failed[k] >= asked[k]
    BY DEF RegistryInv, FailuresDue
  <2> QED BY <2>1, <2>2, <2>3, <2>4
<1> QED BY <1>1, RegistryInvariance, PTL

(* The handler for a blob answers the request whose turn it is and no      *)
(* other, however many requests failed before it (registry.go 129-148).    *)
THEOREM HandlersHaveTheirTurn ==
  ASSUME RegistryConstants
  PROVE  Registry!Spec => []Registry!HandlerHasItsTurn
<1>1. RegistryInv => Registry!HandlerHasItsTurn
  <2> SUFFICES ASSUME RegistryInv, "blob" \notin overlapped, NEW d \in Digests,
                      \A s \in Sources : pc[s] # "rlock"
               PROVE  handled[d] = CASE order[d] = -1 -> 0
                                     [] order[d] = 0 -> blobRequestsCounter[d]
                                     [] OTHER -> IF blobRequestsCounter[d] >= order[d]
                                                 THEN 1 ELSE 0
    BY DEF Registry!HandlerHasItsTurn
  <2>1. handled[d] = Turn(order[d], blobRequestsCounter[d])
    BY DEF RegistryInv, Turns
  <2> QED BY <2>1 DEF Turn
<1> QED BY <1>1, RegistryInvariance, PTL

-----------------------------------------------------------------------------
(* Requests are answered.  That they are under fairness is                 *)
(* RequestsAreAnswered, which TLC checks; here is what it rests on, for    *)
(* any number of sources: the mutex is given back, someone always goes on, *)
(* and each handler has few steps to take.                                 *)

(* Who holds the mutex, and how: a writer alone, or readers.               *)
Locks ==
  /\ writer \in Sources \cup {Nobody}
  /\ \A s \in Sources : writer = s <=> pc[s] = "unlock"
  /\ readers = {s \in Sources : pc[s] = "rUnlock"}
  /\ writer # Nobody => readers = {}

(* A handler that waits for the mutex.                                     *)
Waits(s) ==
  \/ pc[s] \in {"count", "lock"} /\ (writer # Nobody \/ readers # {})
  \/ pc[s] = "rlock" /\ writer # Nobody

(* How many steps a handler has left at most.                              *)
StepsLeft(label) ==
  CASE label = "fail?"                                   -> 4
    [] label = "count"                                   -> 3
    [] label \in {"read", "rlock", "lock"}               -> 2
    [] label \in {"write", "proxy", "rUnlock", "unlock"} -> 1
    [] label = "idle"                                    -> 0

(* One step of a handler, as far as the mutex goes.                        *)
LEMMA ServeStep ==
  ASSUME RegistryTypes, NEW s \in Sources, Registry!Serve(s)
  PROVE  \E label \in {"idle", "read", "write", "proxy", "count", "rlock", "rUnlock", "unlock"} :
           /\ pc' = [pc EXCEPT ![s] = label]
           /\ StepsLeft(label) < StepsLeft(pc[s])
           /\ \/ /\ pc[s] \notin {"rUnlock", "unlock"} /\ label \notin {"rUnlock", "unlock"}
                 /\ writer' = writer /\ readers' = readers
              \/ /\ pc[s] = "rlock" /\ label = "rUnlock" /\ writer = Nobody
                 /\ writer' = writer /\ readers' = readers \cup {s}
              \/ /\ pc[s] = "rUnlock" /\ label = "idle"
                 /\ writer' = writer /\ readers' = readers \ {s}
              \/ /\ pc[s] = "lock" /\ label = "unlock" /\ writer = Nobody /\ readers = {}
                 /\ writer' = s /\ readers' = readers
              \/ /\ pc[s] = "unlock" /\ label = "idle"
                 /\ writer' = Nobody /\ readers' = readers
<1>1. CASE Registry!CheckFailNext(s)
  <2>1. PICK label \in {"read", "count", "proxy"} : pc' = [pc EXCEPT ![s] = label]
    BY <1>1 DEF Registry!CheckFailNext, Registry!Goto
  <2>2. pc[s] = "fail?" /\ writer' = writer /\ readers' = readers
    BY <1>1 DEF Registry!CheckFailNext, Registry!mutex
  <2>3. StepsLeft(label) < StepsLeft(pc[s])
    BY <2>1, <2>2 DEF StepsLeft
  <2> QED BY <2>1, <2>2, <2>3
<1>2. CASE Registry!ReadFailNext(s)
  BY <1>2 DEF Registry!ReadFailNext, Registry!Goto, Registry!mutex, StepsLeft
<1>3. CASE Registry!WriteFailNext(s)
  BY <1>3 DEF Registry!WriteFailNext, Registry!Goto, Registry!mutex, StepsLeft
<1>4. CASE Registry!ProxyManifest(s)
  BY <1>4 DEF Registry!ProxyManifest, Registry!Goto, Registry!mutex, StepsLeft
<1>5. CASE Registry!CountBlob(s)
  BY <1>5 DEF Registry!CountBlob, Registry!Goto, Registry!mutex, StepsLeft
<1>6. CASE Registry!ChooseHandler(s)
  BY <1>6 DEF Registry!ChooseHandler, Registry!Goto, StepsLeft
<1>7. CASE Registry!ServeBlob(s)
  BY <1>7 DEF Registry!ServeBlob, Registry!Goto, StepsLeft
<1>8. CASE Registry!LockAll(s)
  BY <1>8 DEF Registry!LockAll, Registry!Goto, StepsLeft
<1>9. CASE Registry!ServeToken(s)
  BY <1>9 DEF Registry!ServeToken, Registry!Goto, StepsLeft
<1> QED BY <1>1, <1>2, <1>3, <1>4, <1>5, <1>6, <1>7, <1>8, <1>9 DEF Registry!Serve

(* A step of another kind moves no handler that is busy, nor the mutex.    *)
LEMMA OtherStep ==
  ASSUME RegistryTypes, [Registry!Next]_Registry!vars,
         ~ \E s \in Sources : Registry!Serve(s)
  PROVE  /\ UNCHANGED <<writer, readers>>
         /\ \A s \in Sources : pc'[s] = pc[s] \/ (pc[s] = "idle" /\ pc'[s] \in {"fail?", "lock"})
<1>1. CASE \E s \in Sources : Registry!Send(s)
  <2>1. PICK s \in Sources : Registry!Send(s)
    BY <1>1
  <2>2. PICK label \in {"fail?", "lock"} : pc' = [pc EXCEPT ![s] = label]
    BY <2>1 DEF Registry!Send, Registry!Goto
  <2>3. pc[s] = "idle" /\ UNCHANGED <<writer, readers>>
    BY <2>1 DEF Registry!Send, Registry!mutex
  <2> QED BY <2>2, <2>3 DEF RegistryTypes
<1>2. CASE ~ \E s \in Sources : Registry!Send(s)
  <2>1. UNCHANGED <<writer, readers, pc>>
    BY <1>2 DEF Registry!Next, Registry!FailNextRequests, Registry!ForceTokenAuthError,
       Registry!WhenGettingBlob, Registry!mutex, Registry!vars
  <2> QED BY <2>1
<1> QED BY <1>1, <1>2

(* Every lock is given back by whoever took it (registry.go 81-82, 93-94,  *)
(* 135-136).                                                               *)
LEMMA LocksInv ==
  ASSUME RegistryConstants, RegistryTypes, Locks, [Registry!Next]_Registry!vars
  PROVE  Locks'
<1>1. Nobody \notin Sources
  BY DEF RegistryConstants, Registry!NobodyAssumption
<1>2. CASE \E s \in Sources : Registry!Serve(s)
  <2>1. PICK s \in Sources : Registry!Serve(s)
    BY <1>2
  <2> QED BY <1>1, <2>1, ServeStep DEF Locks, RegistryTypes
<1>3. CASE ~ \E s \in Sources : Registry!Serve(s)
  BY <1>1, <1>3, OtherStep DEF Locks
<1> QED BY <1>2, <1>3

(* The requests never wait for each other in a circle: as long as one is   *)
(* not answered, some handler is not waiting for the mutex (registry.go    *)
(* 81-82, 93-94, 129-148).                                                 *)
THEOREM SomeoneGoesOn ==
  ASSUME RegistryConstants
  PROVE  Registry!Spec => [](\A s \in Sources :
           pc[s] # "idle" => \E t \in Sources : pc[t] # "idle" /\ ~Waits(t))
<1>1. Registry!Init => Locks
  BY DEF Registry!Init, Locks, RegistryConstants, Registry!NobodyAssumption
<1>2. Locks => \A s \in Sources :
        pc[s] # "idle" => \E t \in Sources : pc[t] # "idle" /\ ~Waits(t)
  BY DEF Locks, Waits
<1>3. RegistryInv => RegistryTypes
  BY DEF RegistryInv
<1>4. RegistryTypes /\ Locks /\ [Registry!Next]_Registry!vars => Locks'
  BY LocksInv
<1> QED BY <1>1, <1>2, <1>3, <1>4, RegistryInvariance, PTL DEF Registry!Spec

(* A handler never goes back, and is done after four steps at most, of     *)
(* which it can wait before two (registry.go 78-148).                      *)
THEOREM HandlersAdvance ==
  ASSUME RegistryConstants
  PROVE  Registry!Spec => [][\A s \in Sources :
           pc[s] # "idle" => pc'[s] = pc[s] \/ StepsLeft(pc'[s]) < StepsLeft(pc[s])]_Registry!vars
<1>1. RegistryTypes /\ [Registry!Next]_Registry!vars =>
        \A s \in Sources :
          pc[s] # "idle" => pc'[s] = pc[s] \/ StepsLeft(pc'[s]) < StepsLeft(pc[s])
  <2> SUFFICES ASSUME RegistryTypes, [Registry!Next]_Registry!vars, NEW s \in Sources,
                      pc[s] # "idle"
               PROVE  pc'[s] = pc[s] \/ StepsLeft(pc'[s]) < StepsLeft(pc[s])
    OBVIOUS
  <2>1. CASE \E o \in Sources : Registry!Serve(o)
    <3>1. PICK o \in Sources : Registry!Serve(o)
      BY <2>1
    <3>2. PICK label : pc' = [pc EXCEPT ![o] = label] /\ StepsLeft(label) < StepsLeft(pc[o])
      BY <3>1, ServeStep
    <3> QED BY <3>2 DEF RegistryTypes
  <2>2. CASE ~ \E o \in Sources : Registry!Serve(o)
    BY <2>2, OtherStep
  <2> QED BY <2>1, <2>2
<1>2. RegistryInv => RegistryTypes
  BY DEF RegistryInv
<1> QED BY <1>1, <1>2, RegistryInvariance, PTL DEF Registry!Spec

=============================================================================
