---------------------------- MODULE Publication ----------------------------
(***************************************************************************)
(* What readers of the warehouse are promised about the 'published' row of *)
(* pipeline_state, whoever produces it: the published batches form one     *)
(* chain.  Each batch was prepared against the very watermark it replaces, *)
(* moves it strictly forward, and is published at most once.               *)
(***************************************************************************)
EXTENDS Integers

CONSTANTS Run,      \* identities a batch can have, with fields "from" and "to"
          None      \* the watermark, or the run, before the first publication

VARIABLES watermark,    \* pipeline_state.data_through
          head,         \* pipeline_state.published_run_id
          published     \* the runs published so far

pubVars == <<watermark, head, published>>

Init == /\ watermark = None
        /\ head = None
        /\ published = {}

Publish(r) == /\ r \notin published
              /\ r.from = watermark
              /\ watermark # None => watermark < r.to
              /\ watermark' = r.to
              /\ head' = r
              /\ published' = published \cup {r}

(* The step is named by the batch it adds.                                 *)
Next == \E r \in published' \ published : r \in Run /\ Publish(r)

Spec == Init /\ [][Next]_pubVars
=============================================================================
