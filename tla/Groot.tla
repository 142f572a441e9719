-------------------------------- MODULE Groot --------------------------------
(***************************************************************************)
(* groot.go, create.go, pull.go, delete.go and stats.go: processes that    *)
(* each run one command after the other, all over one driver.  The state   *)
(* they share is the driver's: its volumes, bundles and metadata.          *)
(*                                                                         *)
(* The driver is external.  Each of its calls is one step here, succeeds   *)
(* or fails, and then does what its name says; Bundle for a handle in use  *)
(* may also replace what is there.  How a layer gets to Unpack is the      *)
(* matter of ImagePuller.                                                  *)
(***************************************************************************)
EXTENDS LayerSums

CONSTANTS
  Processes,
  Handles,
  DiffIDs,    \* layers, by the digest of their content
  LayerSize,  \* LayerSize[l]: what Unpack of layer l returns
  Images,     \* images: sequences of layers
  Limits,     \* disk limits a caller may ask for, negative ones included
  NoBundle, NoMetadata

(* The chain ID of a layer stands for the layers it is computed from: its  *)
(* own and those below.                                                    *)
ChainID(image, k) == SubSeq(image, 1, k)
LayersOf(image) == {ChainID(image, k) : k \in 1 .. Len(image)}

ASSUME ImagesAssumption ==
  /\ LayerSize \in [DiffIDs -> Nat]
  /\ Images \subseteq Seq(DiffIDs)
  /\ Limits \subseteq Int

(* What the driver keeps of a bundle.                                      *)
BundleRecord == [layers : Images, quota : Int, limit : Limits, exclude : BOOLEAN]

ASSUME NoBundleAssumption == NoBundle \notin BundleRecord

Command ==
  [name : {"create"}, handle : Handles, image : Images, limit : Limits, exclude : BOOLEAN]
    \cup [name : {"pull"}, image : Images, limit : {0}, exclude : {FALSE}]
    \cup [name : {"delete", "stats"}, handle : Handles]

VARIABLES
  volumes,   \* the volumes in the store, by chain ID
  bundles,   \* bundles[h]: layers and quota of handle h, and what was asked for
  metadata,  \* metadata[h]: the image size WriteMetadata was given
  pc,        \* pc[p]: what the command of process p does next
  command,   \* command[p]
  pulled,    \* pulled[p]: how many layers of the image p has unpacked
  Size,      \* Size[p]: the size of these layers
  disturbed  \* disturbed[p]: another process has touched the handle since p's Bundle

storeVars == <<volumes, bundles, metadata>>
vars == <<storeVars, pc, command, pulled, Size, disturbed>>

Running == {"createFetcher", "limit", "pull", "quota", "bundle", "metadata", "output",
            "delete", "stats"}

Goto(p, label) == pc' = [pc EXCEPT ![p] = label]

-----------------------------------------------------------------------------

(* main starts a command.  Its flags are parsed and its arguments counted. *)
(* pull has no flags for the quota: its limit is 0, which is none.         *)
Start(p, c) ==
  /\ pc[p] \notin Running
  /\ command' = [command EXCEPT ![p] = c]
  /\ Goto(p, IF c.name \in {"create", "pull"} THEN "createFetcher" ELSE c.name)
  /\ pulled' = [pulled EXCEPT ![p] = 0]
  /\ Size' = [Size EXCEPT ![p] = 0]
  /\ disturbed' = [disturbed EXCEPT ![p] = FALSE]
  /\ UNCHANGED storeVars

(* The command returns an error, or the process is killed: the program     *)
(* exits with status 1, or with none, and undoes nothing.  The checks of   *)
(* declared sizes inside Pull are among the errors.                        *)
Fails(p) ==
  /\ pc[p] \in Running
  /\ Goto(p, "failed")
  /\ UNCHANGED <<storeVars, command, pulled, Size, disturbed>>

(* createFetcher.                                                          *)
CreateFetcher(p) ==
  /\ pc[p] = "createFetcher"
  /\ Goto(p, IF command[p].name = "create" THEN "limit" ELSE "pull")
  /\ UNCHANGED <<storeVars, command, pulled, Size, disturbed>>

(* Mutant: a negative limit is not refused.                                *)
CheckLimitForgotten(p) ==
  /\ pc[p] = "limit"
  /\ Goto(p, "pull")
  /\ UNCHANGED <<storeVars, command, pulled, Size, disturbed>>

(* Create: the check of the disk limit.  The fetcher has been made with it *)
(* by now.                                                                 *)
CheckLimit(p) ==
  /\ pc[p] = "limit"
  /\ Goto(p, IF command[p].limit < 0 THEN "failed" ELSE "pull")
  /\ UNCHANGED <<storeVars, command, pulled, Size, disturbed>>

(* Mutant: the layers are unpacked from the top down.                      *)
UnpackTopDown(p) ==
  /\ pc[p] = "pull"
  /\ pulled[p] < Len(command[p].image)
  /\ LET image == command[p].image
         k == Len(image) - pulled[p]
     IN /\ volumes' = volumes \cup {ChainID(image, k)}
        /\ Size' = [Size EXCEPT ![p] = Size[p] + LayerSize[image[k]]]
  /\ pulled' = [pulled EXCEPT ![p] = pulled[p] + 1]
  /\ UNCHANGED <<bundles, metadata, pc, command, disturbed>>

(* Pull: one more layer is unpacked, or was there.                         *)
Unpack(p) ==
  /\ pc[p] = "pull"
  /\ pulled[p] < Len(command[p].image)
  /\ LET image == command[p].image
         k == pulled[p] + 1
     IN /\ volumes' = volumes \cup {ChainID(image, k)}
        /\ Size' = [Size EXCEPT ![p] = Size[p] + LayerSize[image[k]]]
  /\ pulled' = [pulled EXCEPT ![p] = pulled[p] + 1]
  /\ UNCHANGED <<bundles, metadata, pc, command, disturbed>>

(* Mutant: Pull returns with a layer to go.                                *)
PulledAlmost(p) ==
  /\ pc[p] = "pull"
  /\ pulled[p] + 1 >= Len(command[p].image)
  /\ Goto(p, IF command[p].name = "create" THEN "quota" ELSE "succeeded")
  /\ UNCHANGED <<storeVars, command, pulled, Size, disturbed>>

(* Pull returns the image.  The pull command is done.                      *)
Pulled(p) ==
  /\ pc[p] = "pull"
  /\ pulled[p] = Len(command[p].image)
  /\ Goto(p, IF command[p].name = "create" THEN "quota" ELSE "succeeded")
  /\ UNCHANGED <<storeVars, command, pulled, Size, disturbed>>

Limited(c) == c.limit # 0 /\ ~c.exclude

(* Mutant: an image of just the size of the limit passes.                  *)
ExceedsLimit(p) == Limited(command[p]) /\ command[p].limit - Size[p] < 0

(* What is left of the limit must not be 0: the driver would take that for *)
(* no limit at all.                                                        *)
LeavesNothing(p) == Limited(command[p]) /\ command[p].limit - Size[p] <= 0

CheckQuota(p) ==
  /\ pc[p] = "quota"
  /\ Goto(p, IF LeavesNothing(p) THEN "failed" ELSE "bundle")
  /\ UNCHANGED <<storeVars, command, pulled, Size, disturbed>>

(* The quota the bundle gets.                                              *)
quota(p) == IF Limited(command[p]) THEN command[p].limit - Size[p] ELSE command[p].limit

(* Processes other than p that are past Bundle with handle h.              *)
Disturb(p, h) ==
  disturbed' = [q \in Processes |->
    \/ disturbed[q]
    \/ /\ q # p
       /\ command[q].name = "create"
       /\ pc[q] \in {"metadata", "output", "succeeded"}
       /\ command[q].handle = h]

Bundle(p) ==
  /\ pc[p] = "bundle"
  /\ LET c == command[p] IN
       /\ bundles' = [bundles EXCEPT ![c.handle] =
            [layers |-> c.image, quota |-> quota(p), limit |-> c.limit, exclude |-> c.exclude]]
       /\ Disturb(p, c.handle)
  /\ Goto(p, "metadata")
  /\ UNCHANGED <<volumes, metadata, command, pulled, Size>>

(* Mutant: the error of WriteMetadata is not returned.                     *)
WriteMetadataUnchecked(p) ==
  /\ pc[p] = "metadata"
  /\ metadata' \in {metadata, [metadata EXCEPT ![command[p].handle] = Size[p]]}
  /\ Disturb(p, command[p].handle)
  /\ Goto(p, "output")
  /\ UNCHANGED <<volumes, bundles, command, pulled, Size>>

WriteMetadata(p) ==
  /\ pc[p] = "metadata"
  /\ metadata' = [metadata EXCEPT ![command[p].handle] = Size[p]]
  /\ Disturb(p, command[p].handle)
  /\ Goto(p, "output")
  /\ UNCHANGED <<volumes, bundles, command, pulled, Size>>

(* The runtime spec is printed, and the exit status is 0.                  *)
Output(p) ==
  /\ pc[p] = "output"
  /\ Goto(p, "succeeded")
  /\ UNCHANGED <<storeVars, command, pulled, Size, disturbed>>

Delete(p) ==
  /\ pc[p] = "delete"
  /\ bundles' = [bundles EXCEPT ![command[p].handle] = NoBundle]
  /\ metadata' = [metadata EXCEPT ![command[p].handle] = NoMetadata]
  /\ Disturb(p, command[p].handle)
  /\ Goto(p, "succeeded")
  /\ UNCHANGED <<volumes, command, pulled, Size>>

Stats(p) ==
  /\ pc[p] = "stats"
  /\ Goto(p, "succeeded")
  /\ UNCHANGED <<storeVars, command, pulled, Size, disturbed>>

Init ==
  /\ volumes = {}
  /\ bundles = [h \in Handles |-> NoBundle]
  /\ metadata = [h \in Handles |-> NoMetadata]
  /\ pc = [p \in Processes |-> "idle"]
  /\ command \in [Processes -> {c \in Command : c.name = "stats"}]
  /\ pulled = [p \in Processes |-> 0] /\ Size = [p \in Processes |-> 0]
  /\ disturbed = [p \in Processes |-> FALSE]

Step(p) ==
  \/ CreateFetcher(p) \/ CheckLimit(p)
  \/ Unpack(p) \/ Pulled(p) \/ CheckQuota(p)
  \/ Bundle(p) \/ WriteMetadata(p) \/ Output(p)
  \/ Delete(p) \/ Stats(p)

Next ==
  \E p \in Processes :
    \/ \E c \in Command : Start(p, c)
    \/ Step(p)
    \/ Fails(p)

Spec == Init /\ [][Next]_vars

-----------------------------------------------------------------------------

(* The size of all layers of an image.                                     *)
SizeOf(image) == Sum(LayerSize, image)

(* Types, and: no command that goes on past the check in Create has a      *)
(* negative limit (create.go 16-18).                                       *)
TypeOK ==
  /\ volumes \subseteq Seq(DiffIDs)
  /\ bundles \in [Handles -> BundleRecord \cup {NoBundle}]
  /\ metadata \in [Handles -> Nat \cup {NoMetadata}]
  /\ pc \in [Processes -> Running \cup {"idle", "failed", "succeeded"}]
  /\ command \in [Processes -> Command]
  /\ pulled \in [Processes -> Nat]
  /\ Size \in [Processes -> Nat]
  /\ disturbed \in [Processes -> BOOLEAN]
  /\ \A p \in Processes :
       pc[p] \in {"pull", "quota", "bundle", "metadata", "output"} => command[p].limit >= 0

(* A bundle never names a volume that is not in the store, whatever other  *)
(* processes pulled, failed at or were killed in (create.go 25-39).        *)
BundlesStandOnVolumes ==
  \A h \in Handles : bundles[h] # NoBundle => LayersOf(bundles[h].layers) \subseteq volumes

(* A caller who asks for a limit gets one: no bundle is without quota, and *)
(* what image and quota add up to is the limit, unless the image was to be *)
(* left out (create.go 30-39; a quota of 0 would be no quota).             *)
LimitsAreKept ==
  \A h \in Handles :
    bundles[h] # NoBundle /\ bundles[h].limit # 0 =>
      /\ bundles[h].quota > 0
      /\ bundles[h].limit =
           bundles[h].quota + (IF bundles[h].exclude THEN 0 ELSE SizeOf(bundles[h].layers))

(* When create reports success and no other process has touched the handle *)
(* since its bundle was made, the handle has the bundle that was asked for *)
(* and the metadata of its image (create.go 39-55).                        *)
ReportedCreateIsComplete ==
  \A p \in Processes :
    pc[p] \in {"output", "succeeded"} /\ command[p].name = "create" /\ ~disturbed[p] =>
      LET c == command[p] IN
        /\ bundles[c.handle] # NoBundle
        /\ bundles[c.handle].layers = c.image
        /\ bundles[c.handle].limit = c.limit
        /\ bundles[c.handle].exclude = c.exclude
        /\ metadata[c.handle] = SizeOf(c.image)

(* To the store, all commands of all processes are what pulling images     *)
(* may be: delete and failures leave it alone, and of two pulls that share *)
(* layers neither gets ahead of the parents (create.go 25, pull.go 9).     *)
Store == INSTANCE ImageStore WITH served <- {[id |-> v, stack |-> v] : v \in volumes}
ImplementsStore == Store!Spec

=============================================================================
