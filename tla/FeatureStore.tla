---------------------------- MODULE FeatureStore ----------------------------
(***************************************************************************)
(* What a caller of ExtractFacialFeatures may rely on, whatever it does    *)
(* step by step: its structure changes by whole batches.  The keypoints of *)
(* a batch are of one face; they are appended to those that are there,     *)
(* while the descriptors are replaced by the rows of the batch.            *)
(***************************************************************************)
EXTENDS Sequences

CONSTANTS
  Owners,   \* the structures of the caller
  Batches   \* what one extraction may find

VARIABLE store

NoBatch == [keypoints |-> << >>, descriptors |-> << >>]

Init == store = [o \in Owners |-> NoBatch]

Renew(o) == store' = [store EXCEPT ![o] = NoBatch]

Extract(o) ==
  LET batch == store'[o].descriptors IN
  /\ batch \in Batches
  /\ store' = [store EXCEPT ![o] = [keypoints |-> store[o].keypoints \o batch,
                                    descriptors |-> batch]]

Next == \E o \in Owners : Renew(o) \/ Extract(o)

Spec == Init /\ [][Next]_store
=============================================================================
