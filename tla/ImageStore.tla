----------------------------- MODULE ImageStore ------------------------------
(***************************************************************************)
(* What pulling images does to a store, and nothing of how: stacks of      *)
(* layers appear, by one layer at a time, each on top of a stack that is   *)
(* there, and each made of the layers that some image names.  Nothing else *)
(* appears and nothing goes, whoever pulls, fails or is killed.            *)
(*                                                                         *)
(* This is the contract between VolumeDriver and ImagePuller               *)
(* (imagepuller/image_puller.go): layers come with their parents first.    *)
(***************************************************************************)
EXTENDS Integers, Sequences

CONSTANT Images  \* images: the contents of their layers, from the lowest up

VARIABLE served  \* what the store serves: under a chain ID, a stack of layers

(* A chain ID stands for the layers it is computed from, and under it are  *)
(* just these.                                                             *)
Volume(image, k) == [id |-> SubSeq(image, 1, k), stack |-> SubSeq(image, 1, k)]

Init == served = {}

Serve(image, k) ==
  /\ k = 1 \/ Volume(image, k - 1) \in served
  /\ served' = served \cup {Volume(image, k)}

Next == \E image \in Images : \E k \in 1 .. Len(image) : Serve(image, k)

Spec == Init /\ [][Next]_served

=============================================================================
