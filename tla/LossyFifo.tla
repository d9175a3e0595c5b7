------------------------------ MODULE LossyFifo ------------------------------
(***************************************************************************)
(* What the publish queue promises about command responses: they leave in   *)
(* the order they were enqueued, each at most once, and a response is given *)
(* up only for a newer one, when Capacity of them are waiting.              *)
(***************************************************************************)
EXTENDS SequencesExt, Naturals

CONSTANTS Capacity, Responses

VARIABLES backlog, published

Init == backlog = <<>> /\ published = <<>>

(* backlog without its i-th response; 0 gives up none.                      *)
Without(i) == IF i = 0 THEN backlog ELSE RemoveAt(backlog, i)

Submit(r) ==
  /\ r \notin ToSet(backlog) \cup ToSet(published)
  /\ \E i \in 0..Len(backlog) :
       /\ i # 0 => Len(backlog) >= Capacity
       /\ backlog' = Append(Without(i), r)
  /\ UNCHANGED published

Publish ==
  /\ backlog # <<>>
  /\ backlog' = Tail(backlog) /\ published' = Append(published, Head(backlog))

Next == Publish \/ \E r \in Responses : Submit(r)

Spec == Init /\ [][Next]_<<backlog, published>>
=============================================================================
