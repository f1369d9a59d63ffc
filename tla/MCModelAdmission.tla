-------------------------- MODULE MCModelAdmission --------------------------
(* Instances of ModelAdmission.                                            *)
EXTENDS ModelAdmission

(* A retry of the first request, a larger one and a more urgent one. *)
QueueId == <<"a", "a", "b", "c">>
QueueTokens == <<2, 2, 3, 1>>
QueuePriority == <<5, 5, 5, 7>>

(* A retry of the first request next to a more urgent one. *)
RetryIds == <<"a", "a", "b">>
RetryTokens == <<1, 1, 1>>
RetryPriority == <<5, 5, 9>>
=============================================================================
