------------------------------ MODULE EmbedStore ------------------------------
(***************************************************************************)
(* What the embedding pipeline promises a reader of maghz.concept: a       *)
(* concept's vector is absent, or is the embedding of a content the        *)
(* concept had; it is only ever replaced by the embedding of the content   *)
(* the concept has at that moment; and a vector that is not the current    *)
(* content's is eventually replaced.  How requests travel through pg_net   *)
(* and the receipt ledger is EmbedPipeline's business.                     *)
(***************************************************************************)
CONSTANTS Concepts, Contents, Null

VARIABLES content,     \* the concept's title and body, Null while there is no row
          vector       \* the content the stored embedding was computed from

vars == <<content, vector>>

Init == /\ content = [c \in Concepts |-> Null]
        /\ vector = [c \in Concepts |-> Null]

(* A writer inserts or edits a concept; the vector stays what it was. *)
Write(c, k) == /\ content' = [content EXCEPT ![c] = k]
               /\ UNCHANGED vector

(* A writer deletes a concept, and its vector with it. *)
Delete(c) == /\ content' = [content EXCEPT ![c] = Null]
             /\ vector' = [vector EXCEPT ![c] = Null]

(* One drain refreshes any set of concepts that have a row. *)
Refresh(S) == /\ \A c \in S : content[c] # Null
              /\ vector' = [c \in Concepts |-> IF c \in S THEN content[c] ELSE vector[c]]
              /\ UNCHANGED content

Next == \/ \E c \in Concepts, k \in Contents : Write(c, k)
        \/ \E c \in Concepts : Delete(c)
        \/ \E S \in SUBSET Concepts : Refresh(S)

SafeSpec == Init /\ [][Next]_vars

(* A concept whose vector stays out of date is refreshed sooner or later. *)
RefreshOf(c) == \E S \in SUBSET Concepts : c \in S /\ Refresh(S)

Spec == SafeSpec /\ \A c \in Concepts : WF_vars(RefreshOf(c))
===============================================================================
